----------------------------- MODULE RunDelivery -----------------------------
(***************************************************************************)
(* What the world is told of a run that ended (worker: webhookDelivery.ts, *)
(* notifications.ts, email.ts), and the allow-list and links it is told by *)
(* (api: routes/webhookDestinations.ts, PUT /jobs/:id/webhooks).  A worker *)
(* reads the links of the job once, posts to each destination on its own,  *)
(* trying again when the failure may pass, and writes one audit event for  *)
(* each; then it mails.  Meanwhile the rows it read may change.            *)
(*                                                                         *)
(* One job and one run.  A destination either accepts a post or does not,  *)
(* and its answer may be lost.  Payloads, signatures, headers, addresses   *)
(* and reports are left out.                                               *)
(***************************************************************************)
EXTENDS Naturals

CONSTANTS
    Dests,          \* ids a destination may get; a deleted one is not reused
    Clerks,         \* bound: API requests in flight
    Outcomes,       \* how the run may end
    Mailed,         \* outcomes the job's owner is mailed
    MaxAttempts,    \* the posts one delivery may take: the delays and one more
    MaxOrders,      \* bound: API requests in all
    NoOutcome

ASSUME DeliveryAssumption ==
    /\ MaxAttempts \in Nat \ {0} /\ MaxOrders \in Nat
    /\ Mailed \subseteq Outcomes \ {"CANCELLED"} /\ NoOutcome \notin Outcomes
    /\ "mail" \notin Dests

VARIABLES
    dests,      \* destination -> its row
    links,      \* destinations of the job
    clerk,      \* request -> what its handler holds
    orders,     \* requests begun
    outcome,    \* how the run ended
    task,       \* destination -> its delivery
    mail,       \* the mail to the owner
    trail       \* who -> the result of its audit event

deliveryVars == <<dests, links, clerk, orders, outcome, task, mail, trail>>

Results == {"none", "SUCCESS", "FAILURE"}

\* on: the outcomes it is told.
Dest == [state : {"unused", "live", "deleted"}, active : BOOLEAN, on : SUBSET Outcomes]
NoDest == [state |-> "unused", active |-> FALSE, on |-> {}]

\* got: posts it accepted; lost: those whose answer did not come back whole.
TaskOps == {"none", "post", "record", "done", "threw"}
Task == [op : TaskOps, posts : 0..MaxAttempts, got : 0..MaxAttempts, lost : 0..MaxAttempts,
         result : Results]
NoTask == [op |-> "none", posts |-> 0, got |-> 0, lost |-> 0, result |-> "none"]

\* want: the links a PUT is to leave; seen, cleared: those its deleteMany saw, and
\* deleted; row, fields: what a PATCH is to write.
Fields == {"active", "on"}
ClerkOps == {"idle", "patch", "put", "clear", "create"}
Clerk == [op : ClerkOps, dest : Dests \cup {NoOutcome}, want : SUBSET Dests,
          seen : SUBSET Dests, cleared : SUBSET Dests, row : Dest, fields : SUBSET Fields]
NoClerk == [op |-> "idle", dest |-> NoOutcome, want |-> {}, seen |-> {}, cleared |-> {}, row |-> NoDest,
            fields |-> {}]

MailOps == {"none", "send", "record", "complain", "done"}

DeliveryTypeOK ==
    /\ dests \in [Dests -> Dest]
    /\ links \subseteq Dests
    /\ clerk \in [Clerks -> Clerk]
    /\ orders \in 0..MaxOrders
    /\ outcome \in Outcomes \cup {NoOutcome}
    /\ task \in [Dests -> Task]
    /\ mail \in [op : MailOps, sent : BOOLEAN]
    /\ trail \in [Dests \cup {"mail"} -> Results]

\* A deployment in use: some destinations are listed, some of them linked.
DeliveryInit ==
    /\ \E L \in SUBSET Dests :
          /\ dests = [d \in Dests |->
                IF d \in L THEN [NoDest EXCEPT !.state = "live", !.active = TRUE, !.on = Outcomes]
                ELSE NoDest]
          /\ links \in SUBSET L
    /\ clerk = [k \in Clerks |-> NoClerk] /\ orders = 0
    /\ outcome = NoOutcome
    /\ task = [d \in Dests |-> NoTask]
    /\ mail = [op |-> "none", sent |-> FALSE]
    /\ trail = [w \in Dests \cup {"mail"} |-> "none"]

Listed(d) == dests[d].state = "live"
Attachable(d) == Listed(d) /\ dests[d].active
RunVars == <<outcome, task, mail, trail>>

Serve(k, r) ==
    /\ clerk[k] = NoClerk /\ orders < MaxOrders
    /\ clerk' = [clerk EXCEPT ![k] = r]
    /\ orders' = orders + 1
Reply(k) == clerk' = [clerk EXCEPT ![k] = NoClerk]
Serving(k, op) == clerk[k].op = op

-----------------------------------------------------------------------------
(* The allow-list.                                                         *)

\* POST: one insert.
ListDest(d) ==
    /\ dests[d].state = "unused" /\ orders < MaxOrders
    /\ \E on \in SUBSET Outcomes :
          dests' = [dests EXCEPT ![d] = [state |-> "live", active |-> TRUE, on |-> on]]
    /\ orders' = orders + 1
    /\ UNCHANGED <<links, clerk, RunVars>>

\* The fields F of the row old, as new has them.
Merge(old, new, F) ==
    [old EXCEPT !.active = IF "active" \in F THEN new.active ELSE @,
                !.on = IF "on" \in F THEN new.on ELSE @]

\* PATCH of some fields finds the row.
BeginRelist(k, d, new, F) ==
    /\ Listed(d)
    /\ Serve(k, [NoClerk EXCEPT !.op = "patch", !.dest = d, !.row = Merge(dests[d], new, F), !.fields = F])
    /\ UNCHANGED <<dests, links, RunVars>>

\* The update writes the fields of the request only; 404 if the row is gone.
Relist(k) ==
    LET c == clerk[k] IN
    /\ Serving(k, "patch")
    /\ Reply(k)
    /\ dests' = IF Listed(c.dest)
                THEN [dests EXCEPT ![c.dest] = Merge(@, c.row, c.fields)] ELSE dests
    /\ UNCHANGED <<links, orders, RunVars>>

\* DELETE takes the links along.
Delist(d) ==
    /\ Listed(d)
    /\ dests' = [dests EXCEPT ![d].state = "deleted"]
    /\ links' = links \ {d}
    /\ UNCHANGED <<clerk, orders, RunVars>>

-----------------------------------------------------------------------------
(* The links of the job.                                                   *)

\* PUT /jobs/:id/webhooks counts the destinations asked for that are active.
BeginPut(k, S) ==
    /\ \A d \in S : Attachable(d)
    /\ Serve(k, [NoClerk EXCEPT !.op = "put", !.want = S])
    /\ UNCHANGED <<dests, links, RunVars>>

\* The transaction's deleteMany sees the links committed when it begins.
SeeLinks(k) ==
    /\ Serving(k, "put")
    /\ clerk' = [clerk EXCEPT ![k].op = "clear", ![k].seen = links]
    /\ UNCHANGED <<dests, links, orders, RunVars>>

\* It waits for a transaction that deleted one of them, and passes over what
\* that one deleted; what that one added it does not see.
ClearLinks(k) ==
    /\ Serving(k, "clear")
    /\ \A o \in Clerks \ {k} : clerk[o].cleared \cap clerk[k].seen = {}
    /\ clerk' = [clerk EXCEPT ![k].op = "create", ![k].cleared = clerk[k].seen \cap links]
    /\ UNCHANGED <<dests, links, orders, RunVars>>

\* createMany and the commit: a link that is there already (unique), or whose
\* destination is gone (foreign key), undoes the transaction.
CreateLinks(k) ==
    LET c == clerk[k]
        kept == links \ c.cleared IN
    /\ Serving(k, "create")
    /\ Reply(k)
    /\ links' = IF c.want \cap kept = {} /\ \A d \in c.want : Listed(d) THEN kept \cup c.want ELSE links
    /\ UNCHANGED <<dests, orders, RunVars>>

-----------------------------------------------------------------------------
(* Deliveries.                                                             *)

\* Linked, active, and told of this outcome: read at once.
Eligible(o) == {d \in links : Attachable(d) /\ o \in dests[d].on}

RunEnds(o) ==
    /\ outcome = NoOutcome
    /\ outcome' = o
    /\ task' = [d \in Dests |-> IF d \in Eligible(o)
                                THEN [NoTask EXCEPT !.op = "post"] ELSE NoTask]
    /\ UNCHANGED <<dests, links, clerk, orders, mail, trail>>

TaskAt(d, op) == task[d].op = op
SetTask(d, t) ==
    /\ task' = [task EXCEPT ![d] = t]
    /\ UNCHANGED <<dests, links, clerk, orders, outcome, mail>>

\* After a failure that may pass there is another post, unless it was the last.
AfterFailure(t) ==
    IF t.posts < MaxAttempts THEN t ELSE [t EXCEPT !.op = "record", !.result = "FAILURE"]

Posted(d) == [task[d] EXCEPT !.posts = @ + 1]

\* The destination accepts it and the whole answer comes back.
Delivered(d) ==
    /\ TaskAt(d, "post")
    /\ SetTask(d, [Posted(d) EXCEPT !.got = @ + 1, !.op = "record", !.result = "SUCCESS"])
    /\ UNCHANGED trail

\* It accepts it, but the answer takes too long, or breaks off.
AnswerLost(d) ==
    /\ TaskAt(d, "post")
    /\ SetTask(d, AfterFailure([Posted(d) EXCEPT !.got = @ + 1, !.lost = @ + 1]))
    /\ UNCHANGED trail

\* It does not get it, or is not ready for it (5xx, 408, 429).
NotDelivered(d) ==
    /\ TaskAt(d, "post")
    /\ SetTask(d, AfterFailure(Posted(d)))
    /\ UNCHANGED trail

\* It refuses it for good.
Rejected(d) ==
    /\ TaskAt(d, "post")
    /\ SetTask(d, [Posted(d) EXCEPT !.op = "record", !.result = "FAILURE"])
    /\ UNCHANGED trail

\* The event of a delivery, written among the posts: one that cannot be written
\* is a failure of the post.
RecordAmongPosts(d) ==
    /\ TaskAt(d, "record")
    /\ \/ /\ trail' = [trail EXCEPT ![d] = task[d].result]
          /\ SetTask(d, [task[d] EXCEPT !.op = "done"])
       \/ UNCHANGED trail /\ SetTask(d, AfterFailure([task[d] EXCEPT !.op = "post"]))

\* Written after the posts, or not: then the delivery throws.
RecordDelivery(d) ==
    /\ TaskAt(d, "record")
    /\ \/ /\ trail' = [trail EXCEPT ![d] = task[d].result]
          /\ SetTask(d, [task[d] EXCEPT !.op = "done"])
       \/ UNCHANGED trail /\ SetTask(d, [task[d] EXCEPT !.op = "threw"])

-----------------------------------------------------------------------------
(* The mail.                                                               *)

SetMail(m) ==
    /\ mail' = m
    /\ UNCHANGED <<dests, links, clerk, orders, outcome, task>>

\* Once the deliveries are through, or one threw; the others then go on.
BeginMail ==
    /\ outcome \in Mailed /\ mail.op = "none"
    /\ (\A d \in Dests : task[d].op \in {"none", "done", "threw"}) \/ (\E d \in Dests : TaskAt(d, "threw"))
    /\ SetMail([mail EXCEPT !.op = "send"])
    /\ UNCHANGED trail

\* The report is made and the mail handed over, or one of the two fails, also
\* because no server is configured.
SendMail ==
    /\ mail.op = "send"
    /\ SetMail([op |-> "record", sent |-> TRUE]) \/ SetMail([mail EXCEPT !.op = "complain"])
    /\ UNCHANGED trail

\* Sending and its event share a try: an event that cannot be written is
\* answered by one of a failure.
RecordMail ==
    /\ mail.op \in {"record", "complain"}
    /\ \/ /\ trail' = [trail EXCEPT !["mail"] = IF mail.op = "record" THEN "SUCCESS" ELSE "FAILURE"]
          /\ SetMail([mail EXCEPT !.op = "done"])
       \/ /\ UNCHANGED trail
          /\ SetMail([mail EXCEPT !.op = IF mail.op = "record" THEN "complain" ELSE "done"])

\* The worker dies: the run has ended, and nobody delivers the rest again.
LoseWorker ==
    /\ outcome # NoOutcome
    /\ \E d \in Dests : task[d].op \in {"post", "record"}
    /\ task' = [d \in Dests |-> IF TaskAt(d, "none") THEN task[d] ELSE [task[d] EXCEPT !.op = "done"]]
    /\ mail' = [mail EXCEPT !.op = "done"]
    /\ UNCHANGED <<dests, links, clerk, orders, outcome, trail>>

-----------------------------------------------------------------------------
Administer ==
    \/ \E k \in Clerks :
          \/ Relist(k) \/ SeeLinks(k) \/ ClearLinks(k) \/ CreateLinks(k)
          \/ \E S \in SUBSET Dests : BeginPut(k, S)
          \/ \E d \in Dests, F \in SUBSET Fields, a \in BOOLEAN, on \in SUBSET Outcomes :
                BeginRelist(k, d, [active |-> a, on |-> on], F)
    \/ \E d \in Dests : ListDest(d) \/ Delist(d)

Deliver ==
    \/ \E d \in Dests :
          Delivered(d) \/ AnswerLost(d) \/ NotDelivered(d) \/ Rejected(d) \/ RecordDelivery(d)
    \/ \E o \in Outcomes : RunEnds(o)
    \/ BeginMail \/ SendMail \/ RecordMail \/ LoseWorker

DeliveryNext == Administer \/ Deliver

DeliverySpec == DeliveryInit /\ [][DeliveryNext]_deliveryVars

-----------------------------------------------------------------------------
(* Properties.                                                             *)

\* The audit trail tells what happened: a success was accepted; a destination
\* got the run again only after an answer was lost, and no failure is recorded
\* of one whose answer came, however the event itself fared
\* (webhookDelivery.ts:192-196); a mail recorded as sent was.
DeliveredAsRecorded ==
    /\ \A d \in Dests :
          /\ trail[d] = "SUCCESS" => task[d].got > 0
          /\ task[d].got <= task[d].lost + 1
          /\ trail[d] = "FAILURE" => task[d].got = task[d].lost
    /\ trail["mail"] = "SUCCESS" => mail.sent
=============================================================================
