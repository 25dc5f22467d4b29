------------------------ MODULE ProjectSharingProofs ------------------------
(***************************************************************************)
(* Sharing, for any number of teams, users, grants and requests in         *)
(* progress.  The visibility of a project follows its grants as long as no *)
(* grant and no revocation run together; requests that were allowed to go  *)
(* on do harm only if what they counted or looked at has changed since.    *)
(* Below and AncestorChain, which the code computes by loops that end on   *)
(* cycles too, are shown to be least fixed points (BelowIsLeast,           *)
(* ChainIsLeast); what is said of access and of cycles follows from that.  *)
(***************************************************************************)
EXTENDS ProjectSharing, FiniteTheorems

\* What holds between the writes of requests that have not crossed.
Apart == ~(InProgress("grant") /\ InProgress("revoke"))
GrantWillShow ==
    Granted # {} /\ visibility = "PRIVATE" => \E h \in Handlers : ToDo(h, "flag")
EmptyWillShow ==
    Granted = {} /\ visibility = "SHARED"
        => InProgress("revoke") \/ \E h \in Handlers : ToDo(h, "row")
HalfGranted ==
    \A h \in Handlers : request[h].op = "grant"
        => /\ "flag" \in request[h].todo \/ visibility = "SHARED"
           /\ "row" \in request[h].todo \/ Granted # {}
CountHolds == \A h \in Handlers : Revoking(h, "flag") => Granted = {}

UncrossedInv ==
    crossed = FALSE => Apart /\ GrantWillShow /\ EmptyWillShow /\ HalfGranted /\ CountHolds

SharingInv == SharingTypeOK /\ UncrossedInv

-----------------------------------------------------------------------------
(* Requests *)

GrantRequests == [op : {"grant"}, grant : Grants, todo : (SUBSET {"row", "flag"}) \ {{}}]
RevokeRequests == [op : {"revoke"}, step : {"count", "flag"}]

\* What is known of a request by its operation.
LEMMA GrantType ==
    ASSUME SharingTypeOK, NEW h \in Handlers, request[h].op = "grant"
    PROVE  request[h] \in GrantRequests
  BY DEF SharingTypeOK, Pending, Idle, GrantRequests

LEMMA RevokeType ==
    ASSUME SharingTypeOK, NEW h \in Handlers, request[h].op = "revoke"
    PROVE  request[h] \in RevokeRequests
  BY DEF SharingTypeOK, Pending, Idle, RevokeRequests

\* A handler takes or drops a well-formed request.
LEMMA PutType ==
    ASSUME SharingTypeOK, NEW h \in Handlers, NEW q \in {Idle} \cup Pending, Put(h, q)
    PROVE  /\ request' \in [Handlers -> {Idle} \cup Pending]
           /\ request'[h] = q
           /\ \A g \in Handlers \ {h} : request'[g] = request[g]
           /\ crossed' \in BOOLEAN
           /\ crossed' = FALSE => crossed = FALSE /\ Apart'
<1>1. request' = [request EXCEPT ![h] = q] /\ request \in [Handlers -> {Idle} \cup Pending]
  BY DEF Put, SharingTypeOK
<1>2. crossed' = (crossed \/ (InProgress("grant") /\ InProgress("revoke"))')
  BY DEF Put
<1>3. (InProgress("grant") /\ InProgress("revoke"))' \in BOOLEAN
  BY DEF InProgress
<1>4. Apart' = ~(InProgress("grant") /\ InProgress("revoke"))'
  BY DEF Apart
<1> QED
  BY <1>1, <1>2, <1>3, <1>4 DEF SharingTypeOK

\* A request that neither grants nor revokes leaves what the invariant says.
LEMMA OtherRequest ==
    ASSUME SharingInv, NEW h \in Handlers, NEW q \in {Idle} \cup Pending, Put(h, q),
           request[h].op \notin {"grant", "revoke"}, q.op \notin {"grant", "revoke"},
           UNCHANGED <<acls, visibility>>
    PROVE  UncrossedInv'
<1>1. /\ request'[h] = q /\ \A g \in Handlers \ {h} : request'[g] = request[g]
      /\ crossed' = FALSE => crossed = FALSE /\ Apart'
  BY PutType DEF SharingInv
<1> SUFFICES ASSUME crossed' = FALSE
             PROVE  Apart' /\ GrantWillShow' /\ EmptyWillShow' /\ HalfGranted' /\ CountHolds'
  BY DEF UncrossedInv
<1>2. Apart /\ GrantWillShow /\ EmptyWillShow /\ HalfGranted /\ CountHolds
  BY <1>1 DEF SharingInv, UncrossedInv
<1>3. \A g \in Handlers : g # h => request'[g] = request[g]
  BY <1>1
<1>4. Granted' = Granted
  BY DEF Granted
<1>5. \A g \in Handlers, part \in {"row", "flag"} : ToDo(g, part)' <=> ToDo(g, part)
  <2> TAKE g \in Handlers, part \in {"row", "flag"}
  <2>1. CASE g = h
    BY <1>1, <2>1 DEF ToDo
  <2>2. CASE g # h
    BY <1>3, <2>2 DEF ToDo
  <2> QED
    BY <2>1, <2>2
<1>6. \A g \in Handlers, step \in {"count", "flag"} : Revoking(g, step)' <=> Revoking(g, step)
  <2> TAKE g \in Handlers, step \in {"count", "flag"}
  <2>1. CASE g = h
    BY <1>1, <2>1 DEF Revoking
  <2>2. CASE g # h
    BY <1>3, <2>2 DEF Revoking
  <2> QED
    BY <2>1, <2>2
<1>7. InProgress("revoke")' <=> InProgress("revoke")
  <2>1. \A g \in Handlers : request'[g].op = "revoke" <=> request[g].op = "revoke"
    <3> TAKE g \in Handlers
    <3>1. CASE g = h
      BY <1>1, <3>1
    <3>2. CASE g # h
      BY <1>3, <3>2
    <3> QED
      BY <3>1, <3>2
  <2> QED
    BY <2>1 DEF InProgress
<1>8. GrantWillShow' /\ EmptyWillShow' /\ CountHolds'
  BY <1>2, <1>4, <1>5, <1>6, <1>7 DEF GrantWillShow, EmptyWillShow, CountHolds
<1>9. HalfGranted'
  <2> SUFFICES ASSUME NEW g \in Handlers, request'[g].op = "grant"
               PROVE  /\ "flag" \in request'[g].todo \/ visibility' = "SHARED"
                      /\ "row" \in request'[g].todo \/ Granted' # {}
    BY DEF HalfGranted
  <2>1. g # h
    BY <1>1
  <2> QED
    BY <2>1, <1>2, <1>3, <1>4 DEF HalfGranted
<1> QED
  BY <1>1, <1>8, <1>9

\* The same for a step that involves no request.
LEMMA NoRequest ==
    ASSUME SharingInv, UNCHANGED <<visibility, request, crossed>>, Granted' = Granted
    PROVE  UncrossedInv'
  BY DEF SharingInv, UncrossedInv, Apart, GrantWillShow, EmptyWillShow, HalfGranted, CountHolds,
         InProgress, ToDo, Revoking

-----------------------------------------------------------------------------
(* The team routes *)

LEMMA AskKeeps ==
    ASSUME SharingInv, NEW h \in Handlers, NEW q \in Pending, Ask(h, q),
           q.op \notin {"grant", "revoke"}
    PROVE  SharingInv'
<1>1. Put(h, q) /\ request[h] = Idle /\ UNCHANGED <<acls, visibility, life, parent, role, owner>>
  BY DEF Ask, tree, project
<1>2. UncrossedInv'
  BY <1>1, OtherRequest DEF Idle
<1>3. requests' \in 0..MaxRequests
  BY SharingAssumption DEF Ask, Spend, SharingInv, SharingTypeOK
<1>4. request' \in [Handlers -> {Idle} \cup Pending] /\ crossed' \in BOOLEAN
  BY <1>1, PutType DEF SharingInv
<1> QED
  BY <1>1, <1>2, <1>3, <1>4 DEF SharingInv, SharingTypeOK

\* What a request of a team route keeps of its reads is well-formed.
LEMMA AsksKeep ==
    ASSUME SharingInv, NEW h \in Handlers, NEW t \in Teams, ManageTeam(h, t)
    PROVE  SharingInv'
<1>1. parent \in Placings /\ acls \in Seq(Rows \cup {None})
  BY DEF SharingInv, SharingTypeOK
<1>2. ASSUME NEW to \in Teams \cup {None}, AskReparent(h, t, to)
      PROVE  SharingInv'
  <2> DEFINE q == [op |-> "reparent", team |-> t, to |-> to, seen |-> parent]
  <2>1. q \in Pending
    BY <1>1 DEF Pending
  <2> QED
    BY <1>2, <2>1, AskKeeps DEF AskReparent
<1>3. ASSUME NEW u \in Users, NEW to \in Teams \cup {None}, AskCreate(h, t, u, to)
      PROVE  SharingInv'
  <2> DEFINE q == [op |-> "create", team |-> t, user |-> u, to |-> to]
  <2>1. q \in Pending
    BY DEF Pending
  <2> QED
    BY <1>3, <2>1, AskKeeps DEF AskCreate
<1>4. CASE AskDelete(h, t)
  <2> DEFINE q == [op |-> "delete", team |-> t, seen |-> References(t)]
  <2>1. References(t) \in (SUBSET Teams) \X (SUBSET Nat)
    BY <1>1 DEF References, SubTeams, GrantsTo, Granted
  <2>2. q \in Pending
    BY <2>1 DEF Pending
  <2> QED
    BY <1>4, <2>2, AskKeeps DEF AskDelete
<1>5. ASSUME NEW u \in Users, NEW to \in Roles, AskMembership(h, t, u, to)
      PROVE  SharingInv'
  <2> DEFINE q == [op |-> to, team |-> t, user |-> u, seen |-> Owners(t)]
  <2>1. q \in Pending /\ q.op \notin {"grant", "revoke"}
    BY DEF Pending, Roles, Owners
  <2> QED
    BY <1>5, <2>1, AskKeeps DEF AskMembership
<1> QED
  BY <1>2, <1>3, <1>4, <1>5 DEF ManageTeam

TreeType ==
    life \in [Teams -> {"unborn", "live", "gone"}] /\ parent \in Placings
    /\ role \in [Teams -> [Users -> Roles]]

LEMMA DoneKeeps ==
    ASSUME SharingInv, NEW h \in Handlers, Done(h), UNCHANGED project,
           request[h].op \notin {"grant", "revoke"}, TreeType'
    PROVE  SharingInv'
<1>1. Put(h, Idle) /\ UNCHANGED <<acls, visibility, owner, requests>>
  BY DEF Done, project
<1>2. UncrossedInv'
  BY <1>1, OtherRequest DEF Idle
<1>3. request' \in [Handlers -> {Idle} \cup Pending] /\ crossed' \in BOOLEAN
  BY <1>1, PutType DEF SharingInv
<1> QED
  BY <1>1, <1>2, <1>3 DEF SharingInv, SharingTypeOK, TreeType

LEMMA TeamWritesKeep ==
    ASSUME SharingInv, NEW h \in Handlers,
           Create(h) \/ Reparent(h) \/ Delete(h) \/ ChangeMembership(h)
    PROVE  SharingInv'
<1>1. TreeType /\ request[h] \in {Idle} \cup Pending
  BY DEF SharingInv, SharingTypeOK, TreeType
<1>2. CASE Create(h)
  <2>1. request[h] \in [op : {"create"}, team : Teams, user : Users, to : Teams \cup {None}]
    BY <1>1, <1>2 DEF Create, Pending, Idle
  <2>2. TreeType'
    <3> DEFINE q == request[h]
    <3>1. q.team \in Teams /\ q.user \in Users /\ q.to \in Teams \cup {None}
      BY <2>1
    <3>2. CASE UNCHANGED tree
      BY <1>1, <3>2 DEF TreeType, tree
    <3>3. CASE /\ life' = [life EXCEPT ![q.team] = "live"]
               /\ parent' = [parent EXCEPT ![q.team] = q.to]
               /\ role' = [role EXCEPT ![q.team][q.user] = "owner"]
      <4> HIDE DEF q
      <4>1. life' \in [Teams -> {"unborn", "live", "gone"}] /\ parent' \in Placings
        BY <1>1, <3>1, <3>3 DEF TreeType, Placings
      <4>2. role' \in [Teams -> [Users -> Roles]]
        BY <1>1, <3>1, <3>3 DEF TreeType, Roles
      <4> QED
        BY <4>1, <4>2 DEF TreeType
    <3> QED
      BY <1>2, <3>2, <3>3 DEF Create
  <2> QED
    BY <1>2, <2>2, DoneKeeps DEF Create
<1>3. CASE Reparent(h)
  <2>1. request[h] \in [op : {"reparent"}, team : Teams, to : Teams \cup {None}, seen : Placings]
    BY <1>1, <1>3 DEF Reparent, Pending, Idle
  <2>2. TreeType'
    BY <1>1, <1>3, <2>1 DEF Reparent, TreeType, Placings
  <2> QED
    BY <1>3, <2>2, DoneKeeps DEF Reparent
<1>4. CASE Delete(h)
  <2>1. request[h] \in [op : {"delete"}, team : Teams, seen : (SUBSET Teams) \X (SUBSET Nat)]
    BY <1>1, <1>4 DEF Delete, Pending, Idle
  <2>2. TreeType'
    BY <1>1, <1>4, <2>1 DEF Delete, TreeType, Placings, Roles
  <2> QED
    BY <1>4, <2>2, DoneKeeps DEF Delete
<1>5. CASE ChangeMembership(h)
  <2>1. request[h] \in [op : Roles, team : Teams, user : Users, seen : SUBSET Users]
    BY <1>1, <1>5 DEF ChangeMembership, Pending, Idle, Roles
  <2>2. TreeType'
    BY <1>1, <1>5, <2>1 DEF ChangeMembership, TreeType, Roles
  <2>3. request[h].op \notin {"grant", "revoke"}
    BY <2>1 DEF Roles
  <2> QED
    BY <1>5, <2>2, <2>3, DoneKeeps DEF ChangeMembership
<1> QED
  BY <1>2, <1>3, <1>4, <1>5

\* The routes that write once, with no request in progress.
LEMMA SingleWritesKeep ==
    ASSUME SharingInv,
           \/ \E t \in Teams, u \in Users : Add(t, u)
           \/ \E a \in DOMAIN acls, l \in Levels : Relevel(a, l)
           \/ \E u \in Users : TransferOwnership(u)
    PROVE  SharingInv'
<1>1. SharingTypeOK
  BY DEF SharingInv
<1>2. ASSUME NEW t \in Teams, NEW u \in Users, Add(t, u)
      PROVE  SharingInv'
  <2>1. SharingTypeOK'
    BY <1>1, <1>2, SharingAssumption DEF Add, Spend, project, SharingTypeOK, Roles
  <2>2. UncrossedInv'
    BY <1>2, NoRequest DEF Add, project, Granted
  <2> QED
    BY <2>1, <2>2 DEF SharingInv
<1>3. ASSUME NEW a \in DOMAIN acls, NEW l \in Levels, Relevel(a, l)
      PROVE  SharingInv'
  <2>1. acls \in Seq(Rows \cup {None}) /\ acls[a] \in Rows
    BY <1>1, <1>3 DEF SharingTypeOK, Relevel, Granted
  <2>2. [acls[a] EXCEPT !.level = l] \in Rows
    BY <2>1 DEF Rows
  <2>3. acls' = [acls EXCEPT ![a] = [acls[a] EXCEPT !.level = l]]
    BY <1>3 DEF Relevel
  <2>4. acls' \in Seq(Rows \cup {None})
    BY <2>1, <2>2, <2>3
  <2>5. Granted' = Granted
    BY <1>3, <2>1, <2>2, <2>3, SharingAssumption DEF Granted, Relevel
  <2>6. SharingTypeOK'
    BY <1>1, <1>3, <2>4, SharingAssumption DEF Relevel, Spend, tree, SharingTypeOK
  <2>7. UncrossedInv'
    BY <1>3, <2>5, NoRequest DEF Relevel
  <2> QED
    BY <2>6, <2>7 DEF SharingInv
<1>4. ASSUME NEW u \in Users, TransferOwnership(u)
      PROVE  SharingInv'
  <2>1. SharingTypeOK'
    BY <1>1, <1>4, SharingAssumption DEF TransferOwnership, Spend, tree, SharingTypeOK
  <2>2. UncrossedInv'
    BY <1>4, NoRequest DEF TransferOwnership, Granted
  <2> QED
    BY <2>1, <2>2 DEF SharingInv
<1> QED
  BY <1>2, <1>3, <1>4

-----------------------------------------------------------------------------
(* The routes of the grants *)

\* What is known about a write that no crossing precedes.
LEMMA UncrossedStep ==
    ASSUME SharingInv, NEW h \in Handlers, NEW q \in {Idle} \cup Pending, Put(h, q),
           crossed' = FALSE
    PROVE  /\ Apart /\ GrantWillShow /\ EmptyWillShow /\ HalfGranted /\ CountHolds
           /\ Apart'
           /\ request'[h] = q /\ \A g \in Handlers : g # h => request'[g] = request[g]
  BY PutType DEF SharingInv, UncrossedInv

LEMMA AskGrantKeeps ==
    ASSUME SharingInv, NEW h \in Handlers, NEW r \in Grants, AskGrant(h, r)
    PROVE  SharingInv'
<1> DEFINE q == [op |-> "grant", grant |-> r, todo |-> {"row", "flag"}]
<1>1. q \in Pending /\ q.op = "grant" /\ "row" \in q.todo /\ "flag" \in q.todo
  BY DEF Pending
<1>2. Put(h, q) /\ request[h] = Idle /\ UNCHANGED <<acls, visibility, life, parent, role, owner>>
  BY DEF AskGrant, Ask, tree, project
<1>3. requests' \in 0..MaxRequests
  BY SharingAssumption DEF AskGrant, Ask, Spend, SharingInv, SharingTypeOK
<1> HIDE DEF q
<1>4. SharingTypeOK'
  BY <1>1, <1>2, <1>3, PutType DEF SharingInv, SharingTypeOK
<1>5. ASSUME crossed' = FALSE
      PROVE  Apart' /\ GrantWillShow' /\ EmptyWillShow' /\ HalfGranted' /\ CountHolds'
  <2>1. /\ HalfGranted /\ CountHolds /\ Apart'
        /\ request'[h] = q /\ \A g \in Handlers : g # h => request'[g] = request[g]
    BY <1>1, <1>2, <1>5, UncrossedStep
  <2>2. ToDo(h, "row")' /\ ToDo(h, "flag")' /\ Granted' = Granted
    BY <1>1, <1>2, <2>1 DEF ToDo, Granted
  <2>3. GrantWillShow' /\ EmptyWillShow'
    BY <2>2 DEF GrantWillShow, EmptyWillShow
  <2>4. HalfGranted'
    <3> SUFFICES ASSUME NEW g \in Handlers, request'[g].op = "grant"
                 PROVE  /\ "flag" \in request'[g].todo \/ visibility' = "SHARED"
                        /\ "row" \in request'[g].todo \/ Granted' # {}
      BY DEF HalfGranted
    <3>1. CASE g = h
      BY <1>1, <2>1, <3>1
    <3>2. CASE g # h
      BY <1>2, <2>1, <2>2, <3>2 DEF HalfGranted
    <3> QED
      BY <3>1, <3>2
  <2>5. CountHolds'
    <3> SUFFICES ASSUME NEW g \in Handlers, request'[g].op = "revoke"
                 PROVE  FALSE
      BY DEF CountHolds, Revoking
    <3> QED
      BY <1>1, <2>1 DEF Apart, InProgress
  <2> QED
    BY <2>1, <2>3, <2>4, <2>5
<1> QED
  BY <1>4, <1>5 DEF SharingInv, UncrossedInv

LEMMA CreateAclKeeps ==
    ASSUME SharingInv, NEW h \in Handlers, CreateAcl(h)
    PROVE  SharingInv'
<1> DEFINE q == IF request[h].todo = {"row"} THEN Idle
                ELSE [request[h] EXCEPT !.todo = @ \ {"row"}]
<1>1. request[h] \in GrantRequests /\ ToDo(h, "row") /\ "row" \in request[h].todo
  BY GrantType DEF SharingInv, CreateAcl, ToDo
<1>2. /\ q \in {Idle} \cup Pending /\ q.op # "revoke"
      /\ "flag" \in request[h].todo => q.op = "grant" /\ "flag" \in q.todo
      /\ q.op = "grant" => "flag" \in request[h].todo
  BY <1>1 DEF GrantRequests, Pending, Idle
<1>3. /\ Put(h, q) /\ acls' = Append(acls, request[h].grant)
      /\ UNCHANGED <<life, parent, role, owner, visibility, requests>>
  BY DEF CreateAcl, Wrote, tree
<1> HIDE DEF q
<1>4. acls \in Seq(Rows \cup {None}) /\ request[h].grant \in Rows
  BY <1>1, SharingAssumption DEF SharingInv, SharingTypeOK, GrantRequests
<1>5. acls' \in Seq(Rows \cup {None}) /\ Granted' # {}
  <2>1. acls' \in Seq(Rows \cup {None}) /\ Len(acls) + 1 \in DOMAIN acls'
        /\ acls'[Len(acls) + 1] = request[h].grant
    BY <1>3, <1>4
  <2> QED
    BY <1>4, <2>1, SharingAssumption DEF Granted
<1>6. SharingTypeOK'
  BY <1>2, <1>3, <1>5, PutType DEF SharingInv, SharingTypeOK
<1>7. ASSUME crossed' = FALSE
      PROVE  Apart' /\ GrantWillShow' /\ EmptyWillShow' /\ HalfGranted' /\ CountHolds'
  <2>1. /\ Apart /\ HalfGranted /\ Apart'
        /\ request'[h] = q /\ \A g \in Handlers : g # h => request'[g] = request[g]
    BY <1>2, <1>3, <1>7, UncrossedStep
  <2>2. "flag" \in request[h].todo \/ visibility = "SHARED"
    BY <1>1, <2>1 DEF HalfGranted, ToDo
  <2>3. GrantWillShow'
    BY <1>2, <1>3, <2>1, <2>2 DEF GrantWillShow, ToDo
  <2>4. EmptyWillShow'
    BY <1>5 DEF EmptyWillShow
  <2>5. HalfGranted'
    <3> SUFFICES ASSUME NEW g \in Handlers, request'[g].op = "grant"
                 PROVE  "flag" \in request'[g].todo \/ visibility' = "SHARED"
      BY <1>5 DEF HalfGranted
    <3>1. CASE g = h
      BY <1>2, <2>1, <3>1
    <3>2. CASE g # h
      BY <1>3, <2>1, <3>2 DEF HalfGranted
    <3> QED
      BY <3>1, <3>2
  <2>6. CountHolds'
    <3> SUFFICES ASSUME NEW g \in Handlers, request'[g].op = "revoke"
                 PROVE  FALSE
      BY DEF CountHolds, Revoking
    <3>1. g # h
      BY <1>2, <2>1
    <3> QED
      BY <1>1, <2>1, <3>1 DEF Apart, InProgress, ToDo
  <2> QED
    BY <2>1, <2>3, <2>4, <2>5, <2>6
<1> QED
  BY <1>6, <1>7 DEF SharingInv, UncrossedInv

LEMMA MarkSharedKeeps ==
    ASSUME SharingInv, NEW h \in Handlers, MarkShared(h)
    PROVE  SharingInv'
<1> DEFINE q == IF request[h].todo = {"flag"} THEN Idle
                ELSE [request[h] EXCEPT !.todo = @ \ {"flag"}]
<1>1. request[h] \in GrantRequests /\ ToDo(h, "flag") /\ "flag" \in request[h].todo
  BY GrantType DEF SharingInv, MarkShared, ToDo
<1>2. /\ q \in {Idle} \cup Pending /\ q.op # "revoke"
      /\ "row" \in request[h].todo => q.op = "grant" /\ "row" \in q.todo
      /\ q.op = "grant" => "row" \in request[h].todo
  BY <1>1 DEF GrantRequests, Pending, Idle
<1>3. /\ Put(h, q) /\ visibility' = "SHARED"
      /\ UNCHANGED <<life, parent, role, owner, acls, requests>>
  BY DEF MarkShared, Wrote, tree
<1> HIDE DEF q
<1>4. SharingTypeOK' /\ Granted' = Granted
  BY <1>2, <1>3, PutType DEF SharingInv, SharingTypeOK, Granted
<1>5. ASSUME crossed' = FALSE
      PROVE  Apart' /\ GrantWillShow' /\ EmptyWillShow' /\ HalfGranted' /\ CountHolds'
  <2>1. /\ Apart /\ HalfGranted /\ Apart'
        /\ request'[h] = q /\ \A g \in Handlers : g # h => request'[g] = request[g]
    BY <1>2, <1>3, <1>5, UncrossedStep
  <2>2. "row" \in request[h].todo \/ Granted # {}
    BY <1>1, <2>1 DEF HalfGranted, ToDo
  <2>3. GrantWillShow'
    BY <1>3 DEF GrantWillShow
  <2>4. EmptyWillShow'
    BY <1>2, <1>4, <2>1, <2>2 DEF EmptyWillShow, ToDo
  <2>5. HalfGranted'
    <3> SUFFICES ASSUME NEW g \in Handlers, request'[g].op = "grant"
                 PROVE  "row" \in request'[g].todo \/ Granted' # {}
      BY <1>3 DEF HalfGranted
    <3>1. CASE g = h
      BY <1>2, <2>1, <3>1
    <3>2. CASE g # h
      BY <1>4, <2>1, <3>2 DEF HalfGranted
    <3> QED
      BY <3>1, <3>2
  <2>6. CountHolds'
    <3> SUFFICES ASSUME NEW g \in Handlers, request'[g].op = "revoke"
                 PROVE  FALSE
      BY DEF CountHolds, Revoking
    <3>1. g # h
      BY <1>2, <2>1
    <3> QED
      BY <1>1, <2>1, <3>1 DEF Apart, InProgress, ToDo
  <2> QED
    BY <2>1, <2>3, <2>4, <2>5, <2>6
<1> QED
  BY <1>4, <1>5 DEF SharingInv, UncrossedInv

\* While a revocation is in progress, no grant is: what is left to say is about
\* the grants there are and the flag.
LEMMA Revocation ==
    ASSUME Apart', NEW h \in Handlers, request'[h].op = "revoke"
    PROVE  HalfGranted' /\ EmptyWillShow'
  BY DEF Apart, InProgress, HalfGranted, EmptyWillShow

LEMMA DeleteAclKeeps ==
    ASSUME SharingInv, NEW h \in Handlers, NEW a \in DOMAIN acls, DeleteAcl(h, a)
    PROVE  SharingInv'
<1> DEFINE q == [op |-> "revoke", step |-> "count"]
<1>1. q \in Pending /\ q.op = "revoke" /\ q.step # "flag"
  BY DEF Pending
<1>2. /\ Put(h, q) /\ request[h] = Idle /\ acls' = [acls EXCEPT ![a] = None]
      /\ UNCHANGED <<life, parent, role, owner, visibility>>
  BY DEF DeleteAcl, tree
<1> HIDE DEF q
<1>3. requests' \in 0..MaxRequests
  BY SharingAssumption DEF DeleteAcl, Spend, SharingInv, SharingTypeOK
<1>4. acls' \in Seq(Rows \cup {None}) /\ Granted' \subseteq Granted /\ a \in Granted
  BY <1>2 DEF SharingInv, SharingTypeOK, Granted, DeleteAcl
<1>5. SharingTypeOK'
  BY <1>1, <1>2, <1>3, <1>4, PutType DEF SharingInv, SharingTypeOK
<1>6. ASSUME crossed' = FALSE
      PROVE  Apart' /\ GrantWillShow' /\ EmptyWillShow' /\ HalfGranted' /\ CountHolds'
  <2>1. /\ GrantWillShow /\ CountHolds /\ Apart'
        /\ request'[h] = q /\ \A g \in Handlers : g # h => request'[g] = request[g]
    BY <1>1, <1>2, <1>6, UncrossedStep
  <2>2. HalfGranted' /\ EmptyWillShow'
    BY <1>1, <2>1, Revocation
  <2>3. GrantWillShow'
    <3> SUFFICES ASSUME Granted' # {}, visibility' = "PRIVATE"
                 PROVE  FALSE
      BY DEF GrantWillShow
    <3>1. PICK g \in Handlers : ToDo(g, "flag")
      BY <1>2, <1>4, <2>1 DEF GrantWillShow
    <3>2. g # h /\ request[g].op = "grant"
      BY <1>2, <3>1 DEF ToDo, Idle
    <3> QED
      BY <1>1, <2>1, <3>2 DEF Apart, InProgress
  <2>4. CountHolds'
    <3> SUFFICES ASSUME NEW g \in Handlers, Revoking(g, "flag")'
                 PROVE  FALSE
      BY DEF CountHolds
    <3>1. g # h /\ Revoking(g, "flag")
      BY <1>1, <2>1 DEF Revoking
    <3> QED
      BY <1>4, <2>1, <3>1 DEF CountHolds
  <2> QED
    BY <2>1, <2>2, <2>3, <2>4
<1> QED
  BY <1>5, <1>6 DEF SharingInv, UncrossedInv

LEMMA CountAclsKeeps ==
    ASSUME SharingInv, NEW h \in Handlers, CountAcls(h)
    PROVE  SharingInv'
<1> DEFINE q == IF Granted = {} THEN [request[h] EXCEPT !.step = "flag"] ELSE Idle
<1>1. request[h] \in RevokeRequests /\ request[h].op = "revoke"
  BY RevokeType DEF SharingInv, CountAcls, Revoking
<1>2. /\ q \in {Idle} \cup Pending /\ q.op # "grant"
      /\ Granted = {} <=> q.op = "revoke"
  BY <1>1 DEF RevokeRequests, Pending, Idle
<1>3. Put(h, q) /\ UNCHANGED <<life, parent, role, owner, visibility, acls, requests>>
  BY DEF CountAcls, tree, project
<1> HIDE DEF q
<1>4. SharingTypeOK' /\ Granted' = Granted
  BY <1>2, <1>3, PutType DEF SharingInv, SharingTypeOK, Granted
<1>5. ASSUME crossed' = FALSE
      PROVE  Apart' /\ GrantWillShow' /\ EmptyWillShow' /\ HalfGranted' /\ CountHolds'
  <2>1. /\ Apart /\ GrantWillShow /\ CountHolds /\ Apart'
        /\ request'[h] = q /\ \A g \in Handlers : g # h => request'[g] = request[g]
    BY <1>2, <1>3, <1>5, UncrossedStep
  <2>2. \A g \in Handlers : request[g].op # "grant" /\ request'[g].op # "grant"
    <3> TAKE g \in Handlers
    <3>1. request[g].op # "grant"
      BY <1>1, <2>1 DEF Apart, InProgress
    <3> QED
      BY <1>2, <2>1, <3>1
  <2>3. HalfGranted'
    BY <2>2 DEF HalfGranted
  <2>4. GrantWillShow'
    BY <1>3, <1>4, <2>1, <2>2 DEF GrantWillShow, ToDo
  <2>5. EmptyWillShow'
    BY <1>2, <1>4, <2>1 DEF EmptyWillShow, InProgress
  <2>6. CountHolds'
    <3> SUFFICES ASSUME NEW g \in Handlers, Revoking(g, "flag")'
                 PROVE  Granted = {}
      BY <1>4 DEF CountHolds
    <3>1. CASE g = h
      BY <1>2, <2>1, <3>1 DEF Revoking
    <3>2. CASE g # h
      BY <2>1, <3>2 DEF CountHolds, Revoking
    <3> QED
      BY <3>1, <3>2
  <2> QED
    BY <2>1, <2>3, <2>4, <2>5, <2>6
<1> QED
  BY <1>4, <1>5 DEF SharingInv, UncrossedInv

LEMMA MarkPrivateKeeps ==
    ASSUME SharingInv, NEW h \in Handlers, MarkPrivate(h)
    PROVE  SharingInv'
<1>1. /\ Put(h, Idle) /\ visibility' = "PRIVATE" /\ Revoking(h, "flag")
      /\ UNCHANGED <<life, parent, role, owner, acls, requests>>
  BY DEF MarkPrivate, Done, tree
<1>2. SharingTypeOK' /\ Granted' = Granted
  BY <1>1, PutType DEF SharingInv, SharingTypeOK, Granted
<1>3. ASSUME crossed' = FALSE
      PROVE  Apart' /\ GrantWillShow' /\ EmptyWillShow' /\ HalfGranted' /\ CountHolds'
  <2>1. /\ Apart /\ CountHolds /\ Apart'
        /\ request'[h] = Idle /\ \A g \in Handlers : g # h => request'[g] = request[g]
    BY <1>1, <1>3, UncrossedStep
  <2>2. Granted' = {}
    BY <1>1, <1>2, <2>1 DEF CountHolds
  <2>3. \A g \in Handlers : request'[g].op # "grant"
    <3> TAKE g \in Handlers
    <3>1. request[g].op # "grant"
      BY <1>1, <2>1 DEF Apart, InProgress, Revoking
    <3> QED
      BY <2>1, <3>1 DEF Idle
  <2> QED
    BY <1>1, <2>1, <2>2, <2>3 DEF GrantWillShow, EmptyWillShow, HalfGranted, CountHolds
<1> QED
  BY <1>2, <1>3 DEF SharingInv, UncrossedInv

-----------------------------------------------------------------------------
(* The theorems *)

LEMMA Initially == SharingInit => SharingInv
<1> SUFFICES ASSUME SharingInit
             PROVE  SharingInv
  OBVIOUS
<1>1. SharingTypeOK
  <2>1. life \in [Teams -> {"unborn", "live", "gone"}] /\ parent \in Placings
    BY DEF SharingInit
  <2>2. role \in [Teams -> [Users -> Roles]]
    BY SharingAssumption DEF SharingInit, Roles
  <2>3. acls \in Seq(Rows \cup {None})
    <3>1. acls \in Seq(Rows)
      BY SharingAssumption DEF SharingInit
    <3> QED
      BY <3>1
  <2>4. request \in [Handlers -> {Idle} \cup Pending] /\ requests \in 0..MaxRequests
    BY SharingAssumption DEF SharingInit
  <2> QED
    BY <2>1, <2>2, <2>3, <2>4, SharingAssumption DEF SharingInit, SharingTypeOK
<1>2. \A h \in Handlers : request[h].op = "idle"
  BY DEF SharingInit, Idle
<1>3. UncrossedInv
  BY <1>2 DEF SharingInit, UncrossedInv, Apart, GrantWillShow, EmptyWillShow, HalfGranted, CountHolds,
              InProgress, Revoking
<1> QED
  BY <1>1, <1>3 DEF SharingInv

LEMMA Step == SharingInv /\ [SharingNext]_sharingVars => SharingInv'
<1> SUFFICES ASSUME SharingInv, [SharingNext]_sharingVars
             PROVE  SharingInv'
  OBVIOUS
<1>1. ASSUME NEW h \in Handlers, Serve(h)
      PROVE  SharingInv'
  BY <1>1, AsksKeep, AskGrantKeeps, DeleteAclKeeps, TeamWritesKeep, CreateAclKeeps,
     MarkSharedKeeps, CountAclsKeeps, MarkPrivateKeeps DEF Serve
<1>2. CASE \/ \E t \in Teams, u \in Users : Add(t, u)
           \/ \E a \in DOMAIN acls, l \in Levels : Relevel(a, l)
           \/ \E u \in Users : TransferOwnership(u)
  BY <1>2, SingleWritesKeep
<1>3. CASE UNCHANGED sharingVars
  <2>1. SharingTypeOK'
    BY <1>3 DEF SharingInv, SharingTypeOK, sharingVars, tree, project
  <2>2. UncrossedInv'
    BY <1>3, NoRequest DEF sharingVars, project, Granted
  <2> QED
    BY <2>1, <2>2 DEF SharingInv
<1> QED
  BY <1>1, <1>2, <1>3 DEF SharingNext

\* The invariant the others rest on: as long as no grant and no revocation have
\* been in progress together, a project whose flag and grants disagree has a
\* request in progress that will make them agree, and a revocation that has
\* counted no grants is still right when it writes.  projects.ts, POST and
\* DELETE acl.
THEOREM SharingInvariance == SharingSpec => []SharingInv
  BY Initially, Step, PTL DEF SharingSpec

\* The state and the requests in progress keep their types.
THEOREM SharingTypeCorrect == SharingSpec => []SharingTypeOK
<1>1. SharingInv => SharingTypeOK
  BY DEF SharingInv
<1> QED
  BY <1>1, SharingInvariance, PTL

\* With nobody sharing, and no grant ever in progress together with a
\* revocation, the project is SHARED exactly if somebody has been given access.
\* projects.ts, POST and DELETE acl.
THEOREM VisibilityTold == SharingSpec => []VisibilityFollows
<1>1. SharingInv => VisibilityFollows
  <2> SUFFICES ASSUME SharingInv, ~Sharing, ~crossed
               PROVE  visibility = "SHARED" <=> Granted # {}
    BY DEF VisibilityFollows
  <2>1. \A h \in Handlers : request[h].op # "grant" /\ request[h].op # "revoke"
    BY DEF Sharing
  <2>2. GrantWillShow /\ EmptyWillShow /\ visibility \in {"PRIVATE", "SHARED"}
    BY DEF SharingInv, UncrossedInv, SharingTypeOK
  <2> QED
    BY <2>1, <2>2 DEF GrantWillShow, EmptyWillShow, ToDo, InProgress
<1> QED
  BY <1>1, SharingInvariance, PTL

-----------------------------------------------------------------------------
(* What the team routes may break *)

\* What a request was allowed to go on with.
Informed(q) ==
    /\ q.op = "delete" => q.seen = <<{}, {}>>
    /\ q.op \in {"member", "none"} /\ q.user \in q.seen => Cardinality(q.seen) > 1

InformedInv == \A h \in Handlers : Informed(request[h])

LEMMA PutInformed ==
    ASSUME SharingInv, InformedInv, NEW h \in Handlers, NEW q, Put(h, q), Informed(q)
    PROVE  InformedInv'
<1> SUFFICES ASSUME NEW g \in Handlers
             PROVE  Informed(request'[g])
  BY DEF InformedInv
<1>1. request' = [request EXCEPT ![h] = q] /\ request \in [Handlers -> {Idle} \cup Pending]
  BY DEF Put, SharingInv, SharingTypeOK
<1>2. CASE g = h
  BY <1>1, <1>2
<1>3. CASE g # h
  BY <1>1, <1>3 DEF InformedInv
<1> QED
  BY <1>2, <1>3

LEMMA ManageInformed ==
    ASSUME SharingInv, InformedInv, NEW h \in Handlers, NEW t \in Teams, ManageTeam(h, t)
    PROVE  InformedInv'
<1>1. ASSUME NEW to \in Teams \cup {None}, AskReparent(h, t, to)
      PROVE  InformedInv'
  <2> DEFINE q == [op |-> "reparent", team |-> t, to |-> to, seen |-> parent]
  <2>1. Informed(q)
    BY DEF Informed
  <2> QED
    BY <1>1, <2>1, PutInformed DEF AskReparent, Ask
<1>2. ASSUME NEW u \in Users, NEW to \in Teams \cup {None}, AskCreate(h, t, u, to)
      PROVE  InformedInv'
  <2> DEFINE q == [op |-> "create", team |-> t, user |-> u, to |-> to]
  <2>1. Informed(q)
    BY DEF Informed
  <2> QED
    BY <1>2, <2>1, PutInformed DEF AskCreate, Ask
<1>3. CASE AskDelete(h, t)
  <2> DEFINE q == [op |-> "delete", team |-> t, seen |-> References(t)]
  <2>1. Informed(q)
    BY <1>3 DEF Informed, AskDelete
  <2> QED
    BY <1>3, <2>1, PutInformed DEF AskDelete, Ask
<1>4. ASSUME NEW u \in Users, NEW to \in Roles, AskMembership(h, t, u, to)
      PROVE  InformedInv'
  <2> DEFINE q == [op |-> to, team |-> t, user |-> u, seen |-> Owners(t)]
  <2>1. Informed(q)
    BY <1>4 DEF Informed, AskMembership, MayStepDown, Roles
  <2> QED
    BY <1>4, <2>1, PutInformed DEF AskMembership, Ask
<1> QED
  BY <1>1, <1>2, <1>3, <1>4 DEF ManageTeam

LEMMA ServeInformed ==
    ASSUME SharingInv, InformedInv, NEW h \in Handlers, Serve(h)
    PROVE  InformedInv'
<1>1. Informed(Idle)
  BY DEF Informed, Idle
<1>2. ASSUME NEW r \in Grants, AskGrant(h, r)
      PROVE  InformedInv'
  <2> DEFINE q == [op |-> "grant", grant |-> r, todo |-> {"row", "flag"}]
  <2>1. Informed(q)
    BY DEF Informed
  <2> QED
    BY <1>2, <2>1, PutInformed DEF AskGrant, Ask
<1>3. ASSUME NEW a \in DOMAIN acls, DeleteAcl(h, a)
      PROVE  InformedInv'
  <2> DEFINE q == [op |-> "revoke", step |-> "count"]
  <2>1. Informed(q)
    BY DEF Informed
  <2> QED
    BY <1>3, <2>1, PutInformed DEF DeleteAcl
<1>4. ASSUME NEW part \in {"row", "flag"}, ToDo(h, part), Wrote(h, part)
      PROVE  InformedInv'
  <2> DEFINE q == IF request[h].todo = {part} THEN Idle
                  ELSE [request[h] EXCEPT !.todo = @ \ {part}]
  <2>1. request[h] \in GrantRequests
    BY <1>4, GrantType DEF SharingInv, ToDo
  <2>2. Informed(q)
    BY <1>1, <2>1 DEF Informed, GrantRequests
  <2> QED
    BY <1>4, <2>2, PutInformed DEF Wrote
<1>5. CASE CountAcls(h)
  <2> DEFINE q == IF Granted = {} THEN [request[h] EXCEPT !.step = "flag"] ELSE Idle
  <2>1. request[h] \in RevokeRequests
    BY <1>5, RevokeType DEF SharingInv, CountAcls, Revoking
  <2>2. Informed(q)
    BY <1>1, <2>1 DEF Informed, RevokeRequests
  <2> QED
    BY <1>5, <2>2, PutInformed DEF CountAcls
<1>6. CASE Done(h)
  BY <1>1, <1>6, PutInformed DEF Done
<1> QED
  BY <1>2, <1>3, <1>4, <1>5, <1>6, ManageInformed
     DEF Serve, Create, Reparent, Delete, ChangeMembership, CreateAcl, MarkShared, MarkPrivate

LEMMA InformedStep == SharingInv /\ InformedInv /\ [SharingNext]_sharingVars => InformedInv'
<1> SUFFICES ASSUME SharingInv, InformedInv, [SharingNext]_sharingVars
             PROVE  InformedInv'
  OBVIOUS
<1>1. CASE UNCHANGED request
  BY <1>1 DEF InformedInv
<1> QED
  BY <1>1, ServeInformed DEF SharingNext, Add, Relevel, TransferOwnership, sharingVars

\* Who deletes a team, and who may leave it without an owner.
LEMMA TeamSteps ==
    ASSUME SharingInv, InformedInv, [SharingNext]_sharingVars, NEW t \in Teams, live(t)
    PROVE  /\ life'[t] = "gone" => \E h \in Handlers : Delete(h) /\ request[h].team = t
           /\ Owners(t) # {} /\ life'[t] = "live" /\ Owners(t)' = {}
                => \E h \in Handlers : /\ ChangeMembership(h) /\ request[h].team = t
                                       /\ request[h].op # "owner"
                                       /\ request[h].user \in Owners(t)
                                       /\ \A u \in Owners(t) : u = request[h].user
<1>1. TreeType
  BY DEF SharingInv, SharingTypeOK, TreeType
<1>2. CASE UNCHANGED <<life, role>>
  BY <1>2 DEF live, Owners
<1>3. ASSUME NEW h \in Handlers, Create(h), ~UNCHANGED tree
      PROVE  life'[t] = "live" /\ Owners(t) \subseteq Owners(t)'
  <2>1. request[h] \in {Idle} \cup Pending
    BY DEF SharingInv, SharingTypeOK
  <2>2. request[h] \in [op : {"create"}, team : Teams, user : Users, to : Teams \cup {None}]
    BY <1>3, <2>1 DEF Create, Pending, Idle
  <2>3. /\ life' = [life EXCEPT ![request[h].team] = "live"]
        /\ role' = [role EXCEPT ![request[h].team][request[h].user] = "owner"]
    BY <1>3 DEF Create
  <2>4. request[h].team \in Teams /\ request[h].user \in Users
    BY <2>2
  <2>5. life'[t] = "live"
    BY <1>1, <2>3, <2>4 DEF live, TreeType
  <2>6. \A u \in Users : role[t][u] = "owner" => role'[t][u] = "owner"
    BY <1>1, <2>3, <2>4 DEF TreeType
  <2> QED
    BY <2>5, <2>6 DEF Owners
<1>4. ASSUME NEW h \in Handlers, Delete(h)
      PROVE  \/ life'[t] = "gone" /\ request[h].team = t
             \/ life'[t] = "live" /\ Owners(t)' = Owners(t)
  <2>1. CASE request[h].team = t
    BY <1>1, <1>4, <2>1 DEF Delete, TreeType
  <2>2. CASE request[h].team # t
    BY <1>1, <1>4, <2>2 DEF Delete, TreeType, live, Owners
  <2> QED
    BY <2>1, <2>2
<1>5. ASSUME NEW h \in Handlers, ChangeMembership(h)
      PROVE  /\ life'[t] = "live"
             /\ Owners(t) # {} /\ Owners(t)' = {}
                  => /\ request[h].team = t /\ request[h].op # "owner"
                     /\ request[h].user \in Owners(t)
                     /\ \A u \in Owners(t) : u = request[h].user
  <2>1. request[h] \in {Idle} \cup Pending
    BY DEF SharingInv, SharingTypeOK
  <2>2. request[h] \in [op : Roles, team : Teams, user : Users, seen : SUBSET Users]
    BY <1>5, <2>1 DEF ChangeMembership, Pending, Idle, Roles
  <2>3. request[h].team \in Teams /\ request[h].user \in Users
    BY <2>2
  <2>4. life'[t] = "live"
    BY <1>5 DEF ChangeMembership, live
  <2>5. role' = role \/ role' = [role EXCEPT ![request[h].team][request[h].user] = request[h].op]
    BY <1>5 DEF ChangeMembership
  <2>6. \A u \in Users : role[t][u] = "owner" /\ role'[t][u] # "owner"
                         => /\ request[h].team = t /\ request[h].user = u
                            /\ request[h].op # "owner"
    BY <1>1, <2>3, <2>5 DEF TreeType
  <2> QED
    BY <2>4, <2>6 DEF Owners
<1>6. ASSUME NEW s \in Teams, NEW u \in Users, Add(s, u)
      PROVE  life'[t] = "live" /\ Owners(t) \subseteq Owners(t)'
  <2>1. \A v \in Users : role[t][v] = "owner" => role'[t][v] = "owner"
    BY <1>1, <1>6 DEF Add, TreeType
  <2> QED
    BY <1>6, <2>1 DEF Add, live, Owners
<1>7. ASSUME NEW h \in Handlers, Serve(h)
      PROVE  UNCHANGED <<life, role>> \/ Create(h) \/ Delete(h) \/ ChangeMembership(h)
  <2>1. ASSUME NEW s \in Teams, ManageTeam(h, s)
        PROVE  UNCHANGED <<life, role>>
    BY <2>1 DEF ManageTeam, AskReparent, AskCreate, AskDelete, AskMembership, Ask, tree
  <2>2. ASSUME NEW r \in Grants, AskGrant(h, r)
        PROVE  UNCHANGED <<life, role>>
    BY <2>2 DEF AskGrant, Ask, tree
  <2>3. ASSUME NEW a \in DOMAIN acls, DeleteAcl(h, a)
        PROVE  UNCHANGED <<life, role>>
    BY <2>3 DEF DeleteAcl, tree
  <2>4. CASE CreateAcl(h) \/ MarkShared(h) \/ CountAcls(h) \/ MarkPrivate(h)
    BY <2>4 DEF CreateAcl, MarkShared, CountAcls, MarkPrivate, tree
  <2>5. CASE Reparent(h)
    BY <2>5 DEF Reparent
  <2> QED
    BY <1>7, <2>1, <2>2, <2>3, <2>4, <2>5 DEF Serve
<1>8. ASSUME NEW h \in Handlers, Create(h), UNCHANGED tree
      PROVE  UNCHANGED <<life, role>>
  BY <1>8 DEF tree
<1>9. \/ UNCHANGED <<life, role>>
      \/ \E h \in Handlers : Serve(h)
      \/ \E s \in Teams, u \in Users : Add(s, u)
  BY DEF SharingNext, Relevel, TransferOwnership, sharingVars, tree
<1> QED
  BY <1>2, <1>3, <1>4, <1>5, <1>6, <1>7, <1>8, <1>9

\* The requests in progress have been allowed to go on.
LEMMA InformedInvariance == SharingSpec => []InformedInv
<1>1. SharingInit => InformedInv
  BY DEF SharingInit, InformedInv, Informed, Idle
<1> QED
  BY <1>1, InformedStep, SharingInvariance, PTL DEF SharingSpec

\* A team is deleted with sub-teams or grants that refer to it only when they
\* came about after the check, for any tree and any number of requests in
\* progress.  teams.ts, DELETE.
THEOREM DeletionChecked == SharingSpec => NothingReferredToIsDeleted
<1>1. SharingInv /\ InformedInv /\ [SharingNext]_sharingVars
      => [\A t \in Teams : live(t) /\ life'[t] = "gone" /\ References(t) # <<{}, {}>>
            => \E h \in Handlers : /\ request[h].op = "delete" /\ request[h].team = t
                                   /\ request'[h] = Idle /\ request[h].seen # References(t)]_life
  <2> SUFFICES ASSUME SharingInv, InformedInv, [SharingNext]_sharingVars, NEW t \in Teams, live(t),
                      life'[t] = "gone", References(t) # <<{}, {}>>
               PROVE  \E h \in Handlers : /\ request[h].op = "delete" /\ request[h].team = t
                                          /\ request'[h] = Idle /\ request[h].seen # References(t)
    OBVIOUS
  <2>1. PICK h \in Handlers : Delete(h) /\ request[h].team = t
    BY TeamSteps
  <2>2. request[h].seen = <<{}, {}>> /\ request[h].op = "delete"
    BY <2>1 DEF InformedInv, Informed, Delete
  <2>3. request'[h] = Idle
    BY <2>1 DEF Delete, Done, Put, SharingInv, SharingTypeOK
  <2> QED
    BY <2>1, <2>2, <2>3
<1> QED
  BY <1>1, SharingInvariance, InformedInvariance, PTL DEF SharingSpec, NothingReferredToIsDeleted

\* A team loses its last owner only to a request whose count of the owners was
\* out of date when it wrote, for any number of owners and of requests in
\* progress.  teams.ts, PATCH and DELETE members.
THEOREM LastOwnerKept == SharingSpec => LastOwnerLostOnlyToRace
<1>1. SharingInv /\ InformedInv /\ [SharingNext]_sharingVars => [OwnerlessOnlyToRace]_role
  <2> SUFFICES ASSUME SharingInv, InformedInv, [SharingNext]_sharingVars, NEW t \in Teams, live(t),
                      Owners(t) # {}, life'[t] = "live", Owners(t)' = {}
               PROVE  \E h \in Handlers : /\ request[h].op \in {"member", "none"}
                                          /\ request[h].team = t /\ request'[h] = Idle
                                          /\ request[h].seen # Owners(t)
    BY DEF OwnerlessOnlyToRace
  <2>1. PICK h \in Handlers : /\ ChangeMembership(h) /\ request[h].team = t
                              /\ request[h].op # "owner" /\ request[h].user \in Owners(t)
                              /\ \A u \in Owners(t) : u = request[h].user
    BY TeamSteps
  <2>2. request[h].op \in {"member", "none"}
    BY <2>1 DEF ChangeMembership, Roles
  <2>3. request'[h] = Idle
    BY <2>1 DEF ChangeMembership, Done, Put, SharingInv, SharingTypeOK
  <2>4. Owners(t) = {request[h].user}
    BY <2>1
  <2>5. Cardinality(Owners(t)) = 1
    BY <2>4, FS_Singleton
  <2>6. request[h].seen # Owners(t)
    BY <2>1, <2>2, <2>5 DEF InformedInv, Informed
  <2> QED
    BY <2>1, <2>2, <2>3, <2>6
<1> QED
  BY <1>1, SharingInvariance, InformedInvariance, PTL DEF SharingSpec, LastOwnerLostOnlyToRace

-----------------------------------------------------------------------------
(* What is below a team, and the chain above it *)

\* C has, with a team, the teams below it; and, with a team, its parent.
Downwards(C) == \A t \in Teams : live(t) /\ parent[t] \in C => t \in C
Upwards(C) == \A t \in C : parent[t] # None => parent[t] \in C

\* What Below gathers is the least set of teams with what it starts from and all below.
BelowIsLeast ==
    \A S \in SUBSET Teams :
        /\ S \subseteq Below(S) /\ Below(S) \in SUBSET Teams /\ Downwards(Below(S))
        /\ \A C \in SUBSET Teams : S \subseteq C /\ Downwards(C) => Below(S) \subseteq C

\* What AncestorChain gathers is the least set of teams with t and all above.
ChainIsLeast ==
    \A t \in Teams :
        /\ t \in AncestorChain(t) /\ AncestorChain(t) \in SUBSET Teams /\ Upwards(AncestorChain(t))
        /\ \A C \in SUBSET Teams : t \in C /\ Upwards(C) => AncestorChain(t) \subseteq C

\* After as many rounds as there are teams, nothing is left to gather.
LEMMA BelowLeast == SharingTypeOK => BelowIsLeast
<1> SUFFICES ASSUME SharingTypeOK, NEW S \in SUBSET Teams
             PROVE  /\ S \subseteq Below(S) /\ Below(S) \in SUBSET Teams /\ Downwards(Below(S))
                    /\ \A C \in SUBSET Teams : S \subseteq C /\ Downwards(C) => Below(S) \subseteq C
  BY DEF BelowIsLeast
<1> DEFINE F == [B \in SUBSET Teams |-> {t \in Teams : live(t) /\ parent[t] \in B}]
           R == CHOOSE r : r = [n \in Nat |->
                    IF n = 0 THEN S ELSE r[n - 1] \cup {t \in Teams : live(t) /\ parent[t] \in r[n - 1]}]
<1>1. Below(S) = R[Cardinality(Teams)]
  BY DEF Below
<1>2. F \in [SUBSET Teams -> SUBSET Teams] /\ IsFiniteSet(Teams)
  BY SharingAssumption
<1>3. R = [n \in Nat |->
              IF n = 0 THEN S ELSE R[n - 1] \cup {t \in Teams : live(t) /\ parent[t] \in R[n - 1]}]
  <2>1. PICK g \in [Nat -> SUBSET Teams] : Rounds(S, F, g)
    <3> HIDE DEF F
    <3> QED
      BY <1>2, RoundsExist
  <2>2. g = [n \in Nat |->
               IF n = 0 THEN S ELSE g[n - 1] \cup {t \in Teams : live(t) /\ parent[t] \in g[n - 1]}]
    <3>1. \A n \in Nat \ {0} : F[g[n - 1]] = {t \in Teams : live(t) /\ parent[t] \in g[n - 1]}
      OBVIOUS
    <3>2. g = [n \in Nat |-> IF n = 0 THEN S ELSE g[n - 1] \cup F[g[n - 1]]]
      BY <2>1 DEF Rounds
    <3> HIDE DEF F
    <3> QED
      BY <3>1, <3>2
  <2> QED
    BY <2>2, Zenon
<1>4. /\ R[0] = S
      /\ \A n \in Nat : R[n + 1] = R[n] \cup {t \in Teams : live(t) /\ parent[t] \in R[n]}
  <2> HIDE DEF R
  <2>1. ASSUME NEW n \in Nat
        PROVE  R[n + 1] = R[n] \cup {t \in Teams : live(t) /\ parent[t] \in R[n]}
    <3>1. n + 1 \in Nat /\ n + 1 # 0 /\ (n + 1) - 1 = n
      OBVIOUS
    <3> QED
      BY <3>1, <1>3
  <2>2. R[0] = S
    BY <1>3
  <2> QED
    BY <2>1, <2>2
<1> HIDE DEF R
<1>5. \A n \in Nat : R[n] \in SUBSET Teams
  <2> DEFINE Part == {n \in Nat : R[n] \in SUBSET Teams}
  <2>1. 0 \in Part /\ \A n \in Nat : n \in Part => n + 1 \in Part
    BY <1>4
  <2>2. \A n \in Nat : n \in Part
    <3> HIDE DEF Part
    <3> QED
      BY <2>1, EveryNumber
  <2> QED
    BY <2>2
<1>6. R \in [Nat -> SUBSET Teams] /\ \A n \in Nat : R[n + 1] = R[n] \cup F[R[n]]
  <2>1. R = [n \in Nat |-> R[n]]
    BY <1>3
  <2> QED
    BY <1>4, <1>5, <2>1
<1>7. /\ S \subseteq R[Cardinality(Teams)] /\ F[R[Cardinality(Teams)]] \subseteq R[Cardinality(Teams)]
      /\ \A C \in SUBSET Teams :
            S \subseteq C /\ (\A B \in SUBSET C : F[B] \subseteq C) => R[Cardinality(Teams)] \subseteq C
  <2> HIDE DEF F
  <2> QED
    BY <1>2, <1>4, <1>6, Gathered
<1>8. Below(S) \in SUBSET Teams
  BY <1>1, <1>2, <1>5, FS_CardinalityType
<1>9. Downwards(Below(S))
  BY <1>1, <1>7, <1>8 DEF Downwards
<1>10. ASSUME NEW C \in SUBSET Teams, S \subseteq C, Downwards(C)
       PROVE  Below(S) \subseteq C
  <2>1. \A B \in SUBSET C : F[B] \subseteq C
    BY <1>10 DEF Downwards
  <2> HIDE DEF F
  <2> QED
    BY <1>1, <1>7, <1>10, <2>1
<1> QED
  BY <1>1, <1>7, <1>8, <1>9, <1>10

\* The same, climbing.
LEMMA ChainLeast == SharingTypeOK => ChainIsLeast
<1> SUFFICES ASSUME SharingTypeOK, NEW t \in Teams
             PROVE  /\ t \in AncestorChain(t) /\ AncestorChain(t) \in SUBSET Teams
                    /\ Upwards(AncestorChain(t))
                    /\ \A C \in SUBSET Teams : t \in C /\ Upwards(C) => AncestorChain(t) \subseteq C
  BY DEF ChainIsLeast
<1> DEFINE F == [B \in SUBSET Teams |-> {parent[s] : s \in B} \ {None}]
           R == CHOOSE r : r = [n \in Nat |->
                    IF n = 0 THEN {t} ELSE r[n - 1] \cup ({parent[s] : s \in r[n - 1]} \ {None})]
<1>1. AncestorChain(t) = R[Cardinality(Teams)]
  BY DEF AncestorChain
<1>2. F \in [SUBSET Teams -> SUBSET Teams] /\ IsFiniteSet(Teams)
  BY SharingAssumption DEF SharingTypeOK, Placings
<1>3. R = [n \in Nat |-> IF n = 0 THEN {t} ELSE R[n - 1] \cup ({parent[s] : s \in R[n - 1]} \ {None})]
  <2>1. PICK g \in [Nat -> SUBSET Teams] : Rounds({t}, F, g)
    <3> HIDE DEF F
    <3>1. {t} \in SUBSET Teams
      OBVIOUS
    <3> QED
      BY <1>2, <3>1, RoundsExist
  <2>2. g = [n \in Nat |-> IF n = 0 THEN {t} ELSE g[n - 1] \cup ({parent[s] : s \in g[n - 1]} \ {None})]
    <3>1. \A n \in Nat \ {0} : F[g[n - 1]] = {parent[s] : s \in g[n - 1]} \ {None}
      OBVIOUS
    <3>2. g = [n \in Nat |-> IF n = 0 THEN {t} ELSE g[n - 1] \cup F[g[n - 1]]]
      BY <2>1 DEF Rounds
    <3> HIDE DEF F
    <3> QED
      BY <3>1, <3>2
  <2> QED
    BY <2>2, Zenon
<1>4. R[0] = {t} /\ \A n \in Nat : R[n + 1] = R[n] \cup ({parent[s] : s \in R[n]} \ {None})
  <2> HIDE DEF R
  <2>1. ASSUME NEW n \in Nat
        PROVE  R[n + 1] = R[n] \cup ({parent[s] : s \in R[n]} \ {None})
    <3>1. n + 1 \in Nat /\ n + 1 # 0 /\ (n + 1) - 1 = n
      OBVIOUS
    <3> QED
      BY <3>1, <1>3
  <2>2. R[0] = {t}
    BY <1>3
  <2> QED
    BY <2>1, <2>2
<1> HIDE DEF R
<1>5. \A n \in Nat : R[n] \in SUBSET Teams
  <2> DEFINE Part == {n \in Nat : R[n] \in SUBSET Teams}
  <2>1. 0 \in Part
    BY <1>4
  <2>2. ASSUME NEW n \in Nat, n \in Part PROVE n + 1 \in Part
    BY <2>2, <1>4 DEF SharingTypeOK, Placings
  <2>3. \A n \in Nat : n \in Part
    <3> HIDE DEF Part
    <3> QED
      BY <2>1, <2>2, EveryNumber
  <2> QED
    BY <2>3
<1>6. R \in [Nat -> SUBSET Teams] /\ \A n \in Nat : R[n + 1] = R[n] \cup F[R[n]]
  <2>1. R = [n \in Nat |-> R[n]]
    BY <1>3
  <2> QED
    BY <1>4, <1>5, <2>1
<1>7. /\ t \in R[Cardinality(Teams)] /\ F[R[Cardinality(Teams)]] \subseteq R[Cardinality(Teams)]
      /\ \A C \in SUBSET Teams :
            t \in C /\ (\A B \in SUBSET C : F[B] \subseteq C) => R[Cardinality(Teams)] \subseteq C
  <2> HIDE DEF F
  <2>1. /\ R[0] \subseteq R[Cardinality(Teams)] /\ F[R[Cardinality(Teams)]] \subseteq R[Cardinality(Teams)]
        /\ \A C \in SUBSET Teams :
              R[0] \subseteq C /\ (\A B \in SUBSET C : F[B] \subseteq C) => R[Cardinality(Teams)] \subseteq C
    BY <1>2, <1>6, Gathered
  <2> QED
    BY <2>1, <1>4
<1>8. AncestorChain(t) \in SUBSET Teams
  BY <1>1, <1>2, <1>5, FS_CardinalityType
<1>9. Upwards(AncestorChain(t))
  <2>1. F[AncestorChain(t)] = {parent[s] : s \in AncestorChain(t)} \ {None}
    BY <1>8
  <2>2. F[AncestorChain(t)] \subseteq AncestorChain(t)
    <3> HIDE DEF F
    <3> QED
      BY <1>1, <1>7
  <2> QED
    BY <2>1, <2>2 DEF Upwards
<1>10. ASSUME NEW C \in SUBSET Teams, t \in C, Upwards(C)
       PROVE  AncestorChain(t) \subseteq C
  <2>1. \A B \in SUBSET C : F[B] \subseteq C
    BY <1>10 DEF Upwards
  <2> HIDE DEF F
  <2> QED
    BY <1>1, <1>7, <1>10, <2>1
<1> QED
  BY <1>1, <1>7, <1>8, <1>9, <1>10

\* Only a team that is there has a parent, and its parent is there.
PlacedLive == \A t \in Teams : parent[t] # None => live(t) /\ live(parent[t])

\* Climbing from s meets S just if descending from S meets s.
LEMMA ClimbsWhereDescends ==
    ASSUME SharingTypeOK, PlacedLive, NEW S \in SUBSET Teams, NEW s \in Teams
    PROVE  s \in Below(S) <=> AncestorChain(s) \cap S # {}
<1>1. /\ S \subseteq Below(S) /\ Below(S) \in SUBSET Teams /\ Downwards(Below(S))
      /\ \A C \in SUBSET Teams : S \subseteq C /\ Downwards(C) => Below(S) \subseteq C
  BY BelowLeast DEF BelowIsLeast
<1>2. \A t \in Teams :
        /\ t \in AncestorChain(t) /\ AncestorChain(t) \in SUBSET Teams /\ Upwards(AncestorChain(t))
        /\ \A C \in SUBSET Teams : t \in C /\ Upwards(C) => AncestorChain(t) \subseteq C
  BY ChainLeast DEF ChainIsLeast
<1>3. None \notin Teams
  BY SharingAssumption
<1>4. s \in Below(S) => AncestorChain(s) \cap S # {}
  <2> DEFINE C == {t \in Teams : AncestorChain(t) \cap S # {}}
  <2>1. S \subseteq C
    BY <1>2
  <2>2. ASSUME NEW t \in Teams, live(t), parent[t] \in C PROVE t \in C
    <3>1. parent[t] \in Teams /\ parent[t] # None
      BY <2>2, <1>3
    <3>2. parent[t] \in AncestorChain(t)
      BY <1>2, <3>1 DEF Upwards
    <3>3. AncestorChain(parent[t]) \subseteq AncestorChain(t)
      BY <1>2, <3>1, <3>2
    <3> QED
      BY <2>2, <3>3
  <2>3. Downwards(C)
    <3> HIDE DEF C
    <3> QED
      BY <2>2 DEF Downwards
  <2>4. Below(S) \subseteq C
    <3>1. C \in SUBSET Teams
      OBVIOUS
    <3> HIDE DEF C
    <3> QED
      BY <1>1, <2>1, <2>3, <3>1
  <2> QED
    BY <2>4
<1>5. AncestorChain(s) \cap S # {} => s \in Below(S)
  <2> SUFFICES ASSUME NEW a \in AncestorChain(s), a \in S PROVE s \in Below(S)
    OBVIOUS
  <2> DEFINE C == {t \in Teams : t \in Below(S) => s \in Below(S)}
  <2>1. s \in C /\ C \in SUBSET Teams
    OBVIOUS
  <2>2. ASSUME NEW t \in C, parent[t] # None PROVE parent[t] \in C
    <3>1. live(t) /\ live(parent[t])
      BY <2>2 DEF PlacedLive
    <3> QED
      BY <2>2, <3>1, <1>1 DEF Downwards, live
  <2>3. AncestorChain(s) \subseteq C
    <3>1. Upwards(C)
      <4> HIDE DEF C
      <4> QED
        BY <2>2 DEF Upwards
    <3> HIDE DEF C
    <3> QED
      BY <1>2, <2>1, <3>1
  <2> QED
    BY <1>1, <2>3
<1> QED
  BY <1>4, <1>5

-----------------------------------------------------------------------------
(* The tree under the requests *)

\* A team that is being created is not there yet, and nobody else creates it; one
\* that is being deleted has been there.
CreatesNew ==
    \A h \in Handlers : request[h].op = "create"
        => /\ life[request[h].team] = "unborn"
           /\ \A g \in Handlers : request[g].op = "create" /\ request[g].team = request[h].team => g = h
DeletesBorn == \A h \in Handlers : request[h].op = "delete" => life[request[h].team] # "unborn"

\* A re-parenting saw its new parent outside of a set that had the team and, with
\* any team, those below it.
Outside(q) ==
    \E C \in SUBSET Teams : /\ q.team \in C /\ q.to \notin C
                           /\ \A t \in Teams : q.seen[t] \in C => t \in C
ParentWasOutside == \A h \in Handlers : request[h].op = "reparent" => Outside(request[h])

\* What is always true of the tree and of the requests about it.
TreeInv == PlacedLive /\ CreatesNew /\ DeletesBorn /\ ParentWasOutside

\* What a step does to the tree and to the requests that are about it.
LEMMA TreeActions ==
    ASSUME SharingInv, [SharingNext]_sharingVars
    PROVE  \/ UNCHANGED <<life, parent, request>>
           \/ \E h \in Handlers :
                \/ /\ UNCHANGED <<life, parent>>
                   /\ request'[h].op \notin {"create", "reparent", "delete"}
                   /\ \A g \in Handlers : g # h => request'[g] = request[g]
                \/ \E t \in Teams, to \in Teams \cup {None} : AskReparent(h, t, to)
                \/ \E t \in Teams, u \in Users, to \in Teams \cup {None} : AskCreate(h, t, u, to)
                \/ \E t \in Teams : AskDelete(h, t)
                \/ Create(h) \/ Reparent(h) \/ Delete(h)
<1>1. CASE UNCHANGED sharingVars
  BY <1>1 DEF sharingVars, tree
<1>2. CASE \E t \in Teams, u \in Users : Add(t, u)
  BY <1>2 DEF Add
<1>3. CASE \E a \in DOMAIN acls, l \in Levels : Relevel(a, l)
  BY <1>3 DEF Relevel, tree
<1>4. CASE \E u \in Users : TransferOwnership(u)
  BY <1>4 DEF TransferOwnership, tree
<1>5. ASSUME NEW h \in Handlers, Serve(h)
      PROVE  \/ /\ UNCHANGED <<life, parent>>
                /\ request'[h].op \notin {"create", "reparent", "delete"}
                /\ \A g \in Handlers : g # h => request'[g] = request[g]
             \/ \E t \in Teams, to \in Teams \cup {None} : AskReparent(h, t, to)
             \/ \E t \in Teams, u \in Users, to \in Teams \cup {None} : AskCreate(h, t, u, to)
             \/ \E t \in Teams : AskDelete(h, t)
             \/ Create(h) \/ Reparent(h) \/ Delete(h)
  <2>1. ASSUME NEW q, Put(h, q)
        PROVE  request'[h] = q /\ \A g \in Handlers : g # h => request'[g] = request[g]
    <3>1. request' = [request EXCEPT ![h] = q] /\ request \in [Handlers -> {Idle} \cup Pending]
      BY <2>1 DEF Put, SharingInv, SharingTypeOK
    <3> QED
      BY <3>1
  <2>2. ASSUME NEW t \in Teams, NEW u \in Users, NEW to \in Roles, AskMembership(h, t, u, to)
        PROVE  /\ UNCHANGED <<life, parent>>
               /\ request'[h].op \notin {"create", "reparent", "delete"}
               /\ \A g \in Handlers : g # h => request'[g] = request[g]
    <3> DEFINE q == [op |-> to, team |-> t, user |-> u, seen |-> Owners(t)]
    <3>1. Put(h, q) /\ q.op \notin {"create", "reparent", "delete"} /\ UNCHANGED <<life, parent>>
      BY <2>2 DEF AskMembership, Ask, Roles, tree
    <3> QED
      BY <2>1, <3>1
  <2>3. ASSUME NEW g \in Grants, AskGrant(h, g)
        PROVE  /\ UNCHANGED <<life, parent>>
               /\ request'[h].op \notin {"create", "reparent", "delete"}
               /\ \A k \in Handlers : k # h => request'[k] = request[k]
    <3> DEFINE q == [op |-> "grant", grant |-> g, todo |-> {"row", "flag"}]
    <3>1. Put(h, q) /\ UNCHANGED <<life, parent>>
      BY <2>3 DEF AskGrant, Ask, tree
    <3> QED
      BY <2>1, <3>1
  <2>4. ASSUME NEW a \in DOMAIN acls, DeleteAcl(h, a)
        PROVE  /\ UNCHANGED <<life, parent>>
               /\ request'[h].op \notin {"create", "reparent", "delete"}
               /\ \A g \in Handlers : g # h => request'[g] = request[g]
    <3> DEFINE q == [op |-> "revoke", step |-> "count"]
    <3>1. Put(h, q) /\ UNCHANGED <<life, parent>>
      BY <2>4 DEF DeleteAcl, tree
    <3> QED
      BY <2>1, <3>1
  <2>5. ASSUME NEW part \in {"row", "flag"}, ToDo(h, part), Wrote(h, part)
        PROVE  /\ request'[h].op \notin {"create", "reparent", "delete"}
               /\ \A g \in Handlers : g # h => request'[g] = request[g]
    <3> DEFINE q == IF request[h].todo = {part} THEN Idle ELSE [request[h] EXCEPT !.todo = @ \ {part}]
    <3>1. request[h] \in GrantRequests
      BY <2>5, GrantType DEF SharingInv, ToDo
    <3>2. Put(h, q) /\ q.op \in {"idle", "grant"}
      BY <2>5, <3>1 DEF Wrote, GrantRequests, Idle
    <3> QED
      BY <2>1, <3>2
  <2>6. CASE CountAcls(h)
    <3> DEFINE q == IF Granted = {} THEN [request[h] EXCEPT !.step = "flag"] ELSE Idle
    <3>1. request[h] \in RevokeRequests
      BY <2>6, RevokeType DEF SharingInv, CountAcls, Revoking
    <3>2. Put(h, q) /\ q.op \in {"idle", "revoke"} /\ UNCHANGED <<life, parent>>
      BY <2>6, <3>1 DEF CountAcls, RevokeRequests, Idle, tree
    <3> QED
      BY <2>1, <3>2
  <2>7. ASSUME Done(h)
        PROVE  /\ request'[h].op \notin {"create", "reparent", "delete"}
               /\ \A g \in Handlers : g # h => request'[g] = request[g]
    BY <2>1, <2>7 DEF Done, Idle
  <2>8. CASE CreateAcl(h) \/ MarkShared(h)
    BY <2>5, <2>8 DEF CreateAcl, MarkShared, tree
  <2>9. CASE MarkPrivate(h) \/ ChangeMembership(h)
    BY <2>7, <2>9 DEF MarkPrivate, ChangeMembership, tree
  <2> QED
    BY <1>5, <2>2, <2>3, <2>4, <2>6, <2>8, <2>9 DEF Serve, ManageTeam
<1> QED
  BY <1>1, <1>2, <1>3, <1>4, <1>5 DEF SharingNext

\* What is known of a request about the tree by its operation.
LEMMA TreeRequests ==
    ASSUME SharingInv, NEW h \in Handlers
    PROVE  /\ request[h].op = "create" => request[h].team \in Teams /\ request[h].to \in Teams \cup {None}
           /\ request[h].op = "reparent"
                => /\ request[h].team \in Teams /\ request[h].to \in Teams \cup {None}
                   /\ request[h].seen \in Placings
           /\ request[h].op = "delete" => request[h].team \in Teams
<1>1. request[h] \in {Idle} \cup Pending
  BY DEF SharingInv, SharingTypeOK
<1>2. CASE request[h].op = "create"
  <2>1. request[h] \in [op : {"create"}, team : Teams, user : Users, to : Teams \cup {None}]
    BY <1>1, <1>2 DEF Pending, Idle, Roles
  <2> QED
    BY <1>2, <2>1
<1>3. CASE request[h].op = "reparent"
  <2>1. request[h] \in [op : {"reparent"}, team : Teams, to : Teams \cup {None}, seen : Placings]
    BY <1>1, <1>3 DEF Pending, Idle, Roles
  <2> QED
    BY <1>3, <2>1
<1>4. CASE request[h].op = "delete"
  <2>1. request[h] \in [op : {"delete"}, team : Teams, seen : (SUBSET Teams) \X (SUBSET Nat)]
    BY <1>1, <1>4 DEF Pending, Idle, Roles
  <2> QED
    BY <1>4, <2>1
<1> QED
  BY <1>2, <1>3, <1>4

\* A handler that takes or drops a request leaves those of the others.
LEMMA PutOthers ==
    ASSUME SharingInv, NEW h \in Handlers, NEW q, Put(h, q)
    PROVE  request'[h] = q /\ \A g \in Handlers : g # h => request'[g] = request[g]
<1>1. request' = [request EXCEPT ![h] = q] /\ request \in [Handlers -> {Idle} \cup Pending]
  BY DEF Put, SharingInv, SharingTypeOK
<1> QED
  BY <1>1

\* Requests that are asked for leave the tree as it is; what they hold fits it.
LEMMA AsksFitTree ==
    ASSUME SharingInv, TreeInv, BelowIsLeast, NEW h \in Handlers,
           \/ \E t \in Teams, to \in Teams \cup {None} : AskReparent(h, t, to)
           \/ \E t \in Teams, u \in Users, to \in Teams \cup {None} : AskCreate(h, t, u, to)
           \/ \E t \in Teams : AskDelete(h, t)
    PROVE  TreeInv'
<1>1. PlacedLive /\ CreatesNew /\ DeletesBorn /\ ParentWasOutside
  BY DEF TreeInv
<1>2. ASSUME NEW t \in Teams, NEW to \in Teams \cup {None}, AskReparent(h, t, to)
      PROVE  TreeInv'
  <2> DEFINE q == [op |-> "reparent", team |-> t, to |-> to, seen |-> parent]
  <2>1. request'[h] = q /\ (\A g \in Handlers : g # h => request'[g] = request[g])
        /\ UNCHANGED <<life, parent>>
    BY <1>2, PutOthers DEF AskReparent, Ask, tree
  <2>2. Outside(q)
    <3> DEFINE C == Below({t})
    <3>1. t \in C /\ C \in SUBSET Teams /\ Downwards(C)
      BY DEF BelowIsLeast
    <3>2. to \notin C
      BY <1>2 DEF AskReparent, GetDescendantTeamIds
    <3>3. \A s \in Teams : parent[s] \in C => s \in C
      BY <1>1, <3>1, SharingAssumption DEF Downwards, PlacedLive
    <3> HIDE DEF C
    <3> QED
      BY <3>1, <3>2, <3>3 DEF Outside
  <2>3. ParentWasOutside'
    BY <1>1, <2>1, <2>2 DEF ParentWasOutside
  <2>4. CreatesNew' /\ DeletesBorn' /\ PlacedLive'
    BY <1>1, <2>1 DEF CreatesNew, DeletesBorn, PlacedLive, live
  <2> QED
    BY <2>3, <2>4 DEF TreeInv
<1>3. ASSUME NEW t \in Teams, NEW u \in Users, NEW to \in Teams \cup {None}, AskCreate(h, t, u, to)
      PROVE  TreeInv'
  <2> DEFINE q == [op |-> "create", team |-> t, user |-> u, to |-> to]
  <2>1. request'[h] = q /\ (\A g \in Handlers : g # h => request'[g] = request[g])
        /\ UNCHANGED <<life, parent>>
    BY <1>3, PutOthers DEF AskCreate, Ask, tree
  <2>2. ParentWasOutside' /\ DeletesBorn' /\ PlacedLive'
    BY <1>1, <2>1 DEF ParentWasOutside, DeletesBorn, PlacedLive, live
  <2>3. CreatesNew'
    <3>1. life[t] = "unborn" /\ \A g \in Handlers : request[g].op = "create" => request[g].team # t
      BY <1>3 DEF AskCreate
    <3>2. \A g \in Handlers : request'[g].op = "create" /\ g # h
              => request[g].op = "create" /\ request'[g].team = request[g].team /\ request[g].team # t
      BY <2>1, <3>1
    <3> QED
      BY <1>1, <2>1, <3>1, <3>2 DEF CreatesNew
  <2> QED
    BY <2>2, <2>3 DEF TreeInv
<1>4. ASSUME NEW t \in Teams, AskDelete(h, t)
      PROVE  TreeInv'
  <2> DEFINE q == [op |-> "delete", team |-> t, seen |-> References(t)]
  <2>1. request'[h] = q /\ (\A g \in Handlers : g # h => request'[g] = request[g])
        /\ UNCHANGED <<life, parent>>
    BY <1>4, PutOthers DEF AskDelete, Ask, tree
  <2>2. life[t] # "unborn"
    BY <1>4 DEF AskDelete, MayManage, live
  <2> QED
    BY <1>1, <2>1, <2>2 DEF TreeInv, CreatesNew, DeletesBorn, ParentWasOutside, PlacedLive, live
<1> QED
  BY <1>2, <1>3, <1>4

\* A write leaves what the other requests hold.
LEMMA WritesFitTree ==
    ASSUME SharingInv, TreeInv, NEW h \in Handlers, Create(h) \/ Reparent(h) \/ Delete(h)
    PROVE  TreeInv'
<1>1. PlacedLive /\ CreatesNew /\ DeletesBorn /\ ParentWasOutside
  BY DEF TreeInv
<1>2. request'[h] = Idle /\ (\A g \in Handlers : g # h => request'[g] = request[g])
  BY PutOthers DEF Create, Reparent, Delete, Done
<1>3. TreeType
  BY DEF SharingInv, SharingTypeOK, TreeType
<1>4. ParentWasOutside'
  BY <1>1, <1>2 DEF ParentWasOutside, Idle
<1>5. CASE Create(h)
  <2>1. request[h].team \in Teams /\ request[h].to \in Teams \cup {None} /\ request[h].op = "create"
    BY <1>5, TreeRequests DEF Create
  <2>2. CASE UNCHANGED tree
    BY <1>1, <1>2, <1>4, <2>2 DEF TreeInv, CreatesNew, DeletesBorn, PlacedLive, live, tree, Idle
  <2>3. CASE /\ MayBeParent(request[h].to)
             /\ life' = [life EXCEPT ![request[h].team] = "live"]
             /\ parent' = [parent EXCEPT ![request[h].team] = request[h].to]
    <3>1. PlacedLive'
      BY <1>1, <1>3, <2>1, <2>3 DEF PlacedLive, live, MayBeParent, TreeType, Placings
    <3>2. \A g \in Handlers : request'[g].op = "create"
              => /\ request'[g] = request[g] /\ request[g].team \in Teams
                 /\ request[g].team # request[h].team /\ life[request[g].team] = "unborn"
      BY <1>1, <1>2, <2>1, TreeRequests DEF Idle, CreatesNew
    <3>3. CreatesNew'
      <4>1. \A t \in Teams : t # request[h].team => life'[t] = life[t]
        BY <1>3, <2>1, <2>3 DEF TreeType
      <4> QED
        BY <1>1, <3>2, <4>1 DEF CreatesNew
    <3>4. DeletesBorn'
      BY <1>1, <1>2, <1>3, <2>1, <2>3 DEF DeletesBorn, TreeType, Idle
    <3> QED
      BY <1>4, <3>1, <3>3, <3>4 DEF TreeInv
  <2> QED
    BY <1>5, <2>2, <2>3 DEF Create
<1>6. CASE Reparent(h)
  <2>1. request[h].team \in Teams /\ request[h].to \in Teams \cup {None}
    BY <1>6, TreeRequests DEF Reparent
  <2>2. PlacedLive'
    BY <1>1, <1>3, <1>6, <2>1 DEF Reparent, PlacedLive, live, MayBeParent, TreeType, Placings
  <2> QED
    BY <1>1, <1>2, <1>4, <1>6, <2>2 DEF TreeInv, CreatesNew, DeletesBorn, Reparent, Idle
<1>7. CASE Delete(h)
  <2>1. request[h].team \in Teams /\ request[h].op = "delete" /\ life[request[h].team] # "unborn"
    BY <1>1, <1>7, TreeRequests DEF Delete, DeletesBorn
  <2>2. PlacedLive'
    BY <1>1, <1>3, <1>7, <2>1 DEF Delete, PlacedLive, live, TreeType, Placings
  <2>3. life' = [life EXCEPT ![request[h].team] = "gone"]
    BY <1>7 DEF Delete
  <2>4. \A g \in Handlers : request'[g].op = "create"
            => /\ request'[g] = request[g] /\ request[g].team \in Teams
               /\ life[request[g].team] = "unborn" /\ life'[request[g].team] = "unborn"
    BY <1>1, <1>2, <1>3, <2>1, <2>3, TreeRequests DEF Idle, CreatesNew, TreeType
  <2>5. CreatesNew'
    BY <1>1, <2>4 DEF CreatesNew
  <2>6. \A g \in Handlers : request'[g].op = "delete"
            => /\ request'[g] = request[g] /\ request[g].team \in Teams
               /\ life[request[g].team] # "unborn"
    BY <1>1, <1>2, TreeRequests DEF Idle, DeletesBorn
  <2>7. DeletesBorn'
    BY <1>3, <2>1, <2>3, <2>6 DEF DeletesBorn, TreeType
  <2> QED
    BY <1>4, <2>2, <2>5, <2>7 DEF TreeInv
<1> QED
  BY <1>5, <1>6, <1>7

\* TreeInv is inductive, given that Below is what it should be.
LEMMA TreeStep == SharingInv /\ BelowIsLeast /\ TreeInv /\ [SharingNext]_sharingVars => TreeInv'
<1> SUFFICES ASSUME SharingInv, BelowIsLeast, TreeInv, [SharingNext]_sharingVars PROVE TreeInv'
  OBVIOUS
<1>1. CASE UNCHANGED <<life, parent, request>>
  BY <1>1 DEF TreeInv, PlacedLive, CreatesNew, DeletesBorn, ParentWasOutside, live
<1>2. ASSUME NEW h \in Handlers, UNCHANGED <<life, parent>>,
             request'[h].op \notin {"create", "reparent", "delete"},
             \A g \in Handlers : g # h => request'[g] = request[g]
      PROVE  TreeInv'
  <2>1. \A g \in Handlers : request'[g].op \in {"create", "reparent", "delete"} => request'[g] = request[g]
    BY <1>2
  <2> QED
    BY <1>2, <2>1 DEF TreeInv, PlacedLive, CreatesNew, DeletesBorn, ParentWasOutside, live
<1> QED
  BY <1>1, <1>2, TreeActions, AsksFitTree, WritesFitTree

\* So it holds throughout.
LEMMA TreeInvariance == SharingSpec => [](SharingInv /\ TreeInv /\ BelowIsLeast)
<1>1. SharingInit => TreeInv
  <2> SUFFICES ASSUME SharingInit PROVE TreeInv
    OBVIOUS
  <2>1. PlacedLive
    BY DEF SharingInit, PlacedLive
  <2>2. CreatesNew /\ DeletesBorn /\ ParentWasOutside
    BY DEF SharingInit, CreatesNew, DeletesBorn, ParentWasOutside, Idle
  <2> QED
    BY <2>1, <2>2 DEF TreeInv
<1>2. SharingInv => BelowIsLeast
  BY BelowLeast DEF SharingInv
<1> QED
  BY <1>1, <1>2, TreeStep, SharingInvariance, PTL DEF SharingSpec

-----------------------------------------------------------------------------
(* Who may approve, and cycles *)

\* For any tree, cycles included, any grants and memberships: the users found by
\* climbing from the grants are those found by descending from the users' teams.
LEMMA ClimbersAreDescenders ==
    ASSUME SharingTypeOK, PlacedLive PROVE ApproversAreEditors
<1> SUFFICES ASSUME NEW u \in Users
             PROVE  GetProjectAccess(u) \in {"OWNER", "EDIT"}
                    <=> u \in GetEligibleApprovers.userIds \/ GetEligibleApprovers.orgWideEdit
  BY DEF ApproversAreEditors
<1> DEFINE Joined == {t \in Teams : role[t][u] # "none"}
           Editing == {s \in Teams : EditGrants(s) # {}}
           Matching == {acls[a] : a \in GrantsTo(u) \cup GrantsTo(Org)
                                       \cup UNION {GrantsTo(t) : t \in GetEffectiveTeamIds(u)}}
<1>1. GetEffectiveTeamIds(u) = Below(Joined)
  BY DEF GetEffectiveTeamIds
<1>2. \A s \in Teams : s \in Below(Joined) <=> \E t \in AncestorChain(s) : t \in Teams /\ role[t][u] # "none"
  <2>1. \A s \in Teams : s \in Below(Joined) <=> AncestorChain(s) \cap Joined # {}
    <3>1. Joined \in SUBSET Teams
      OBVIOUS
    <3> HIDE DEF Joined
    <3> QED
      BY <3>1, ClimbsWhereDescends
  <2> QED
    BY <2>1
<1>3. Below(Joined) \subseteq Teams /\ \A s \in Teams : AncestorChain(s) \subseteq Teams
  <2>1. Joined \in SUBSET Teams
    OBVIOUS
  <2> HIDE DEF Joined
  <2> QED
    BY <2>1, BelowLeast, ChainLeast DEF BelowIsLeast, ChainIsLeast
<1>4. u \in GetEligibleApprovers.userIds
        <=> \/ u = owner \/ EditGrants(u) # {}
            \/ \E s \in Editing : \E t \in AncestorChain(s) : role[t][u] # "none"
  BY DEF GetEligibleApprovers, GetTeamMemberUserIds
<1>5. GetEligibleApprovers.orgWideEdit <=> EditGrants(Org) # {}
  BY DEF GetEligibleApprovers
<1>6. (\E s \in Editing : \E t \in AncestorChain(s) : role[t][u] # "none")
        <=> \E s \in Below(Joined) : EditGrants(s) # {}
  BY <1>2, <1>3
<1>7. (\E g \in Matching : g.level = "EDIT")
        <=> \/ EditGrants(u) # {} \/ EditGrants(Org) # {}
            \/ \E s \in Below(Joined) : EditGrants(s) # {}
  BY <1>1 DEF EditGrants
<1>8. GetProjectAccess(u) \in {"OWNER", "EDIT"} <=> u = owner \/ \E g \in Matching : g.level = "EDIT"
  <2>1. GetProjectAccess(u) =
            CASE u = owner -> "OWNER"
              [] u # owner /\ (\E g \in Matching : g.level = "EDIT") -> "EDIT"
              [] u # owner /\ Matching # {} /\ (\A g \in Matching : g.level = "READ") -> "READ"
              [] OTHER -> "none"
    BY DEF GetProjectAccess
  <2> HIDE DEF Matching
  <2> QED
    BY <2>1
<1> QED
  BY <1>4, <1>5, <1>6, <1>7, <1>8

\* Who may approve a change is who may edit: climbing and descending agree, on any
\* tree and for any number of teams, users and grants.  access.ts.
THEOREM ApproversEdit == SharingSpec => []ApproversAreEditors
<1>1. SharingInv /\ TreeInv => ApproversAreEditors
  BY ClimbersAreDescenders DEF SharingInv, TreeInv
<1> QED
  BY <1>1, TreeInvariance, PTL

\* A set that is closed downwards has what is below its parts.
LEMMA BelowWithin ==
    ASSUME BelowIsLeast, BelowIsLeast', NEW t \in Teams
    PROVE  /\ \A C \in SUBSET Teams : t \in C /\ Downwards(C)' => Below({t})' \subseteq C
           /\ t \in Below({t}) /\ Below({t}) \in SUBSET Teams /\ Downwards(Below({t}))
  BY DEF BelowIsLeast

\* A new team has nothing below it, and one that goes takes its place out of the tree.
LEMMA NoCycleByOthers ==
    ASSUME SharingInv, TreeInv, BelowIsLeast, BelowIsLeast', Acyclic, NEW h \in Handlers,
           Create(h) \/ Delete(h)
    PROVE  Acyclic'
<1>1. TreeType /\ PlacedLive /\ CreatesNew
  BY DEF SharingInv, SharingTypeOK, TreeType, TreeInv
<1> SUFFICES ASSUME NEW t \in Teams, parent'[t] \in Below({t})' PROVE FALSE
  BY DEF Acyclic
<1>2. /\ \A C \in SUBSET Teams : t \in C /\ Downwards(C)' => Below({t})' \subseteq C
      /\ t \in Below({t}) /\ Below({t}) \in SUBSET Teams /\ Downwards(Below({t}))
  BY BelowWithin
<1>3. parent[t] \notin Below({t})
  BY DEF Acyclic
<1>4. None \notin Teams
  BY SharingAssumption
<1>5. CASE Create(h) /\ ~UNCHANGED tree
  <2>0. PICK c \in Teams : c = request[h].team
    BY <1>5, TreeRequests DEF Create
  <2>1. c \in Teams /\ request[h].to \in Teams \cup {None} /\ life[c] = "unborn"
    BY <1>1, <1>5, <2>0, TreeRequests DEF Create, CreatesNew
  <2>2. /\ MayBeParent(request[h].to)
        /\ life' = [life EXCEPT ![c] = "live"]
        /\ parent' = [parent EXCEPT ![c] = request[h].to]
    BY <1>5, <2>0 DEF Create
  <2>3. request[h].to # c /\ \A s \in Teams : parent[s] # c
    BY <1>1, <1>4, <2>1, <2>2 DEF MayBeParent, PlacedLive, live
  <2>4. parent'[c] # c /\ \A s \in Teams \ {c} : parent'[s] = parent[s] /\ life'[s] = life[s]
    BY <1>1, <2>1, <2>2, <2>3 DEF TreeType, Placings
  <2>5. CASE t = c
    <3>1. Downwards({c})'
      BY <2>3, <2>4 DEF Downwards
    <3>2. Below({t})' \subseteq {c}
      BY <1>2, <2>1, <2>5, <3>1
    <3> QED
      BY <2>4, <2>5, <3>2
  <2>6. CASE t # c
    <3> DEFINE B == Below({t}) \cup {c}
    <3>1. \A s \in Teams : live(s)' /\ parent'[s] \in B => s \in B
      BY <1>2, <2>3, <2>4 DEF Downwards, live
    <3>2. B \in SUBSET Teams /\ t \in B
      BY <1>2, <2>1
    <3>3. Below({t})' \subseteq B
      <4> HIDE DEF B
      <4> QED
        BY <1>2, <3>1, <3>2 DEF Downwards
    <3> QED
      BY <1>3, <2>3, <2>4, <2>6, <3>3
  <2> QED
    BY <2>5, <2>6
<1>6. CASE Delete(h) \/ UNCHANGED tree
  <2>1. \A s \in Teams : /\ parent'[s] \in {parent[s], None}
                         /\ live(s)' => live(s)
    BY <1>1, <1>6 DEF Delete, TreeType, live, tree
  <2>2. PICK B \in SUBSET Teams : B = Below({t})
    BY <1>2
  <2>3. t \in B /\ \A s \in Teams : live(s)' /\ parent'[s] \in B => s \in B
    BY <1>2, <1>4, <2>1, <2>2 DEF Downwards, live
  <2>4. Below({t})' \subseteq B
    BY <1>2, <2>3 DEF Downwards
  <2> QED
    BY <1>3, <1>4, <2>1, <2>2, <2>4
<1> QED
  BY <1>5, <1>6

\* A re-parenting under the tree it looked at closes no cycle.
LEMMA NoCycleBySight ==
    ASSUME SharingInv, TreeInv, BelowIsLeast, BelowIsLeast', Acyclic, NEW h \in Handlers,
           Reparent(h), request[h].seen = parent
    PROVE  Acyclic'
<1> DEFINE m == request[h].team
<1>1. TreeType /\ PlacedLive /\ m \in Teams /\ UNCHANGED life
  BY TreeRequests DEF SharingInv, SharingTypeOK, TreeType, TreeInv, Reparent
<1>2. PICK C \in SUBSET Teams : m \in C /\ request[h].to \notin C /\ \A s \in Teams : parent[s] \in C => s \in C
  BY DEF TreeInv, ParentWasOutside, Outside, Reparent
<1>3. parent' \in {parent, [parent EXCEPT ![m] = request[h].to]}
  BY DEF Reparent
<1>4. CASE parent' = parent
  <2>1. \A t \in Teams : Below({t})' \subseteq Below({t})
    <3> SUFFICES ASSUME NEW t \in Teams PROVE Below({t})' \subseteq Below({t})
      OBVIOUS
    <3> DEFINE B == Below({t})
    <3>1. /\ \A D \in SUBSET Teams : t \in D /\ Downwards(D)' => Below({t})' \subseteq D
          /\ t \in B /\ B \in SUBSET Teams /\ Downwards(B)
      BY BelowWithin
    <3>2. \A s \in Teams : live(s)' /\ parent'[s] \in B => s \in B
      BY <1>1, <1>4, <3>1 DEF Downwards, live
    <3> HIDE DEF B
    <3>3. Below({t})' \subseteq B
      BY <3>1, <3>2 DEF Downwards
    <3> QED
      BY <3>3 DEF B
  <2> QED
    BY <1>4, <2>1 DEF Acyclic
<1>5. CASE parent' = [parent EXCEPT ![m] = request[h].to]
  <2> SUFFICES ASSUME NEW t \in Teams, parent'[t] \in Below({t})' PROVE FALSE
    BY DEF Acyclic
  <2>1. parent'[m] = request[h].to /\ \A s \in Teams \ {m} : parent'[s] = parent[s]
    BY <1>1, <1>5 DEF TreeType, Placings
  <2>2. /\ \A D \in SUBSET Teams : t \in D /\ Downwards(D)' => Below({t})' \subseteq D
        /\ t \in Below({t}) /\ Below({t}) \in SUBSET Teams /\ Downwards(Below({t}))
    BY BelowWithin
  <2>3. parent[t] \notin Below({t}) /\ None \notin Teams
    BY SharingAssumption DEF Acyclic
  <2> HIDE DEF m
  <2>4. CASE t \in C
    <3> DEFINE B == Below({t}) \cap C
    <3>1. \A s \in Teams : live(s)' /\ parent'[s] \in B => s \in B
      BY <1>1, <1>2, <2>1, <2>2 DEF Downwards, live
    <3>2. t \in B /\ B \in SUBSET Teams
      BY <2>2, <2>4
    <3>3. Below({t})' \subseteq B
      <4> HIDE DEF B
      <4> QED
        BY <2>2, <3>1, <3>2 DEF Downwards
    <3> QED
      BY <1>2, <2>1, <2>3, <3>3
  <2>5. CASE t \notin C
    <3> DEFINE B == Below({t}) \cup C
    <3>1. \A s \in Teams : live(s)' /\ parent'[s] \in B => s \in B
      BY <1>1, <1>2, <2>1, <2>2 DEF Downwards, live
    <3>2. t \in B /\ B \in SUBSET Teams
      BY <2>2
    <3>3. Below({t})' \subseteq B
      <4> HIDE DEF B
      <4> QED
        BY <2>2, <3>1, <3>2 DEF Downwards
    <3> QED
      BY <1>2, <2>1, <2>3, <2>5, <3>3
  <2> QED
    BY <2>4, <2>5
<1> QED
  BY <1>3, <1>4, <1>5

\* The tree of teams becomes a cycle only by a re-parenting that looked at a tree
\* which has changed since, for any number of teams and requests.  teams.ts, PATCH.
THEOREM CyclesAreRaces == SharingSpec => CycleOnlyByRace
<1>1. SharingInv /\ TreeInv /\ BelowIsLeast /\ BelowIsLeast' /\ [SharingNext]_sharingVars
      => [CycleByRace]_parent
  <2> SUFFICES ASSUME SharingInv, TreeInv, BelowIsLeast, BelowIsLeast', [SharingNext]_sharingVars,
                      Acyclic, ~Acyclic', parent' # parent
               PROVE  \E h \in Handlers : /\ request[h].op = "reparent" /\ request'[h] = Idle
                                          /\ request[h].seen # parent
    BY DEF CycleByRace
  <2>1. PICK h \in Handlers : Create(h) \/ Reparent(h) \/ Delete(h)
    BY TreeActions DEF AskReparent, AskCreate, AskDelete, Ask, tree
  <2>2. Reparent(h)
    BY <2>1, NoCycleByOthers
  <2>3. request[h].seen # parent
    BY <2>2, NoCycleBySight
  <2>4. request'[h] = Idle /\ request[h].op = "reparent"
    BY <2>2, PutOthers DEF Reparent, Done
  <2> QED
    BY <2>3, <2>4
<1> QED
  BY <1>1, TreeInvariance, PTL DEF SharingSpec, CycleOnlyByRace
=============================================================================
