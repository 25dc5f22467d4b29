------------------------ MODULE NotificationSettings ------------------------
(***************************************************************************)
(* Who is told of a job's runs, as its editors see and save it: the saved  *)
(* mailing lists (api: routes/mailingLists.ts) or the webhook destinations *)
(* attached to the job, and the two dialogs that replace the whole set     *)
(* (frontend: JobNotificationsDialog.tsx, JobWebhooksDialog.tsx; api:      *)
(* PUT /jobs/:id/notifications and /webhooks).  A dialog shows what its    *)
(* query brought, which a browser keeps from one opening to the next;      *)
(* an answer that differs from the last one sets its checkboxes anew.  The *)
(* other query, for the items there are to choose from, is taken to be up  *)
(* to date.                                                                *)
(*                                                                         *)
(* One job, and one of the two kinds of items; the other settings of the   *)
(* dialogs are left out.  How two PUTs of destinations interleave in the   *)
(* database is in RunDelivery; an editor has one save under way at a time. *)
(***************************************************************************)
EXTENDS Naturals, FiniteSets

CONSTANTS
    Editors,            \* users who may edit the job, each in one browser
    Administrators,
    Items,              \* ids a list or destination may get, each once
    MaxCalls,           \* bound: the dialogs opened and the requests that change something
    NotLoaded

ASSUME SettingsAssumption ==
    /\ IsFiniteSet(Items) /\ Administrators \subseteq Editors
    /\ MaxCalls \in Nat /\ \A S \in SUBSET Items : S # NotLoaded

VARIABLES
    topic,      \* which of the two kinds
    item,       \* item -> its row
    attached,   \* items attached to the job
    calls,      \* dialogs opened and changes requested
    shown,      \* editor -> the attached items the browser was last told of
    fetching,   \* editors whose query for them is under way
    dialog      \* editor -> the dialog

settingsVars == <<topic, item, attached, calls, shown, fetching, dialog>>

Item == [state : {"unused", "live", "deleted"}, owner : Editors, active : BOOLEAN]

\* unchecked: what was shown as attached and the editor took out since the checkboxes
\* were last set.  want, base, dropped: what a save sent, and what was shown and
\* unchecked by then.
Dialog == [open : BOOLEAN, selected : SUBSET Items, unchecked : SUBSET Items,
           saving : BOOLEAN, want : SUBSET Items, base : {NotLoaded} \cup SUBSET Items,
           dropped : SUBSET Items]
Fresh == [open |-> FALSE, selected |-> {}, unchecked |-> {}, saving |-> FALSE, want |-> {},
          base |-> {}, dropped |-> {}]

SettingsTypeOK ==
    /\ topic \in {"lists", "destinations"}
    /\ item \in [Items -> Item]
    /\ attached \subseteq Items
    /\ calls \in 0..MaxCalls
    /\ shown \in [Editors -> {NotLoaded} \cup SUBSET Items]
    /\ fetching \subseteq Editors
    /\ dialog \in [Editors -> Dialog]

FirstItems == {i \in Item : i.state # "deleted" /\ i.active}
\* Some items are there, and some of them attached.
SettingsInit ==
    /\ topic \in {"lists", "destinations"}
    /\ item \in [Items -> FirstItems]
    /\ attached \in SUBSET {i \in Items : item[i].state = "live"}
    /\ calls = 0
    /\ shown = [e \in Editors |-> NotLoaded]
    /\ fetching = {}
    /\ dialog = [e \in Editors |-> Fresh]

There(i) == item[i].state = "live"
CanManage(e, i) == e \in Administrators \/ (topic = "lists" /\ item[i].owner = e)

\* GET /mailing-lists: one's own.  GET /webhook-destinations: the active ones, and
\* all for an administrator.
Offered(e) ==
    {i \in Items : There(i) /\ IF topic = "lists" THEN item[i].owner = e
                              ELSE item[i].active \/ e \in Administrators}

\* What a PUT counts: lists of one's own, any for an administrator; destinations
\* that are active.
Accepted(e, S) ==
    \A i \in S : There(i) /\ IF topic = "lists" THEN CanManage(e, i) ELSE item[i].active

Call == calls < MaxCalls /\ calls' = calls + 1
BrowserVars == <<shown, fetching, dialog>>

-----------------------------------------------------------------------------
(* Lists and destinations.                                                 *)

AddItem(e, i) ==
    /\ item[i].state = "unused" /\ item[i].owner = e
    /\ topic = "destinations" => e \in Administrators
    /\ item' = [item EXCEPT ![i].state = "live"]
    /\ Call
    /\ UNCHANGED <<topic, attached, BrowserVars>>

\* Whoever may manage it deletes it, and no job has it any more.
DeleteItem(e, i) ==
    /\ There(i) /\ CanManage(e, i)
    /\ item' = [item EXCEPT ![i].state = "deleted"]
    /\ attached' = attached \ {i}
    /\ Call
    /\ UNCHANGED <<topic, BrowserVars>>

\* A destination is switched off or on; links to it stay.
SwitchItem(e, i) ==
    /\ topic = "destinations" /\ There(i) /\ CanManage(e, i)
    /\ item' = [item EXCEPT ![i].active = ~@]
    /\ Call
    /\ UNCHANGED <<topic, attached, BrowserVars>>

-----------------------------------------------------------------------------
(* The dialog.                                                             *)

Known(e) == IF shown[e] = NotLoaded THEN {} ELSE shown[e]

Checkboxes(e, S) == [dialog EXCEPT ![e].selected = S, ![e].unchecked = {}]

\* The checkboxes start from what the browser has, if anything, and the query is
\* asked again.
Open(e) ==
    /\ ~dialog[e].open
    /\ dialog' = [Checkboxes(e, Known(e)) EXCEPT ![e].open = TRUE]
    /\ fetching' = fetching \cup {e}
    /\ Call
    /\ UNCHANGED <<topic, item, attached, shown>>

\* The window gets the focus again: so it is.
Focus(e) ==
    /\ dialog[e].open /\ e \notin fetching
    /\ fetching' = fetching \cup {e}
    /\ UNCHANGED <<topic, item, attached, calls, shown, dialog>>

\* Only for one's own.
SeedOffered(e) == attached \cap Offered(e)
\* The checkboxes for what is attached: for all of it, whoever owns it.
Seed(e) == attached

\* The attached items arrive: an answer that differs sets the checkboxes anew, and
\* one that has them in another order counts as different.
LandAttached(e) ==
    /\ e \in fetching
    /\ fetching' = fetching \ {e}
    /\ shown' = [shown EXCEPT ![e] = attached]
    /\ \/ /\ shown[e] # attached \/ Cardinality(attached) > 1
          /\ dialog' = IF dialog[e].open THEN Checkboxes(e, Seed(e)) ELSE dialog
       \/ shown[e] = attached /\ UNCHANGED dialog
    /\ UNCHANGED <<topic, item, attached, calls>>

\* A browser drops an answer nobody looked at for a while.
Forget(e) ==
    /\ ~dialog[e].open /\ e \notin fetching /\ shown[e] # NotLoaded
    /\ shown' = [shown EXCEPT ![e] = NotLoaded]
    /\ UNCHANGED <<topic, item, attached, calls, fetching, dialog>>

\* The dialog for lists also offers what is attached, the one for destinations does not.
Choosable(e) == Offered(e) \cup (IF topic = "lists" THEN Known(e) ELSE {})

Tick(e, i) ==
    /\ dialog[e].open /\ i \in Choosable(e)
    /\ dialog' = IF i \in dialog[e].selected
                 THEN [dialog EXCEPT ![e].selected = @ \ {i}, ![e].unchecked = @ \cup ({i} \cap Known(e))]
                 ELSE [dialog EXCEPT ![e].selected = @ \cup {i}, ![e].unchecked = @ \ {i}]
    /\ UNCHANGED <<topic, item, attached, calls, shown, fetching>>

\* A dialog that is closed forgets its checkboxes; a save goes on.
Close(e) ==
    /\ dialog[e].open
    /\ dialog' = [Checkboxes(e, {}) EXCEPT ![e].open = FALSE]
    /\ UNCHANGED <<topic, item, attached, calls, shown, fetching>>

\* Save sends the checkboxes, whether or not the answer is there yet; the button
\* waits for the answer to the save only.  PUT counts what was sent; a 400 leaves
\* all as it was.
Save(e) ==
    /\ dialog[e].open /\ ~dialog[e].saving
    /\ Accepted(e, dialog[e].selected)
    /\ Call
    /\ dialog' = [dialog EXCEPT ![e].saving = TRUE, ![e].want = dialog[e].selected,
                                ![e].base = shown[e], ![e].dropped = dialog[e].unchecked]
    /\ UNCHANGED <<topic, item, attached, shown, fetching>>

\* Nothing is remembered of a save that has its answer.
Done(e) == [dialog EXCEPT ![e].saving = FALSE, ![e].want = {}, ![e].base = {}, ![e].dropped = {}]

\* It replaces the set, or fails if one of the items has gone since.  Then the
\* dialog closes, and the query is asked again.
WriteSave(e) ==
    /\ dialog[e].saving
    /\ IF \A i \in dialog[e].want : There(i)
       THEN /\ attached' = dialog[e].want
            /\ dialog' = [Done(e) EXCEPT ![e].open = FALSE, ![e].selected = {}, ![e].unchecked = {}]
            /\ fetching' = IF dialog[e].open THEN fetching \cup {e} ELSE fetching
       ELSE attached' = attached /\ dialog' = Done(e) /\ UNCHANGED fetching
    /\ UNCHANGED <<topic, item, calls, shown>>

-----------------------------------------------------------------------------
SettingsNext ==
    \E e \in Editors :
       \/ Open(e) \/ Focus(e) \/ LandAttached(e) \/ Forget(e) \/ Close(e)
       \/ Save(e) \/ WriteSave(e)
       \/ \E i \in Items : AddItem(e, i) \/ DeleteItem(e, i) \/ SwitchItem(e, i) \/ Tick(e, i)

SettingsSpec == SettingsInit /\ [][SettingsNext]_settingsVars

-----------------------------------------------------------------------------
(* Properties.                                                             *)

\* The items the save of e takes away.
Saves(e) == dialog[e].saving /\ ~dialog'[e].saving
Removed == attached \ attached'

\* An editor who saves what the last answer showed, and nothing has changed since,
\* takes away only what they unchecked, whoever owns it
\* (JobNotificationsDialog.tsx:101-105).
UncheckedOnly ==
    [][\A e \in Editors : Saves(e) /\ dialog[e].base = attached => Removed \subseteq dialog[e].dropped]_settingsVars

\* JobNotificationsDialog.tsx:101-105: an attached list "owned by someone else must
\* not silently vanish from the selection ... and stays selected unless explicitly
\* unchecked".
ForeignListsStay ==
    [][\A e \in Editors : Saves(e) =>
         \A i \in Removed : topic = "lists" /\ item[i].owner # e => i \in dialog[e].dropped]_settingsVars
=============================================================================
