----------------------------- MODULE MCServices -----------------------------
(***************************************************************************)
(* The parts around the runs that share no state, on small instances in    *)
(* one run: accounts, keys, costs, the delivery of results, the settings   *)
(* of who is told, of a destination and of schedules, the dialog of a      *)
(* prompt, usage reports, the audit trail, the status of components, the   *)
(* making of PDFs, and the text of a run.                                  *)
(* They do not affect one another, so a behaviour is of one part, while    *)
(* the others rest in their first state.                                   *)
(***************************************************************************)
EXTENDS Accounts, ApiKeys, CostRates, RunDelivery, UsageReports, AuditTrail, ComponentStatus,
        RunText, PdfRenderer, NotificationSettings, WebhookDestinations, ScheduleForm,
        PromptDialog

VARIABLE part   \* the part whose behaviour this is

EmailOf == [u \in Ids |-> IF u = "root" THEN "boot" ELSE "ann"]
HeaderOf == [e \in AuditEvents |-> CASE e = "e1" -> 6 [] e = "e2" -> 5 [] e = "e3" -> 13]
TextOf == [e \in AuditEvents |-> CASE e = "e1" -> <<4, 1, 1>> [] e = "e2" -> <<1, 1, 1>> [] e = "e3" -> <<1>>]
LossyTimings == [type : {"ONE_TIME"}, at : {2}] \cup [type : {"RECURRING"}, interval : {"every_n_hours"}, minute : {30}]
ClockOf == <<"1:30", "1:30">>

Parts == {"accounts", "keys", "rates", "delivery", "reports", "audit", "status", "text", "pdf",
          "settings", "destination", "form", "prompt"}

\* Which id a session has, and who would own a destination, makes no difference.
InOrder ==
    /\ LET s == CHOOSE s \in Sids : TRUE IN
          \A other \in Sids \ {s} : sess[other].state # "unused" => sess[s].user = "root"
    /\ topic = "destinations" => \A i \in Items : item[i].owner \in Administrators

\* Each part in its first states, or in one of them while another part moves.
Init ==
    /\ part \in Parts
    /\ AccountInit
    /\ part # "accounts" => users = [u \in Ids |-> Unused]
    /\ KeyInit
    /\ RateInit
    /\ part # "rates" => \A r \in CostedRuns : costing[r].agent = CHOOSE a \in Agents : TRUE
    /\ DeliveryInit
    /\ part # "delivery" => dests = [d \in Dests |-> NoDest]
    /\ ReportInit
    /\ part # "reports" => period = CHOOSE p \in Periods : TRUE
    /\ AuditInit
    /\ part # "audit" => forward = "off"
    /\ StatusInit
    /\ part # "status" => reachable = "up"
    /\ TextInit /\ RendererInit
    /\ SettingsInit
    /\ part # "settings" =>
          topic = "lists" /\ attached = {} /\ item = [i \in Items |-> CHOOSE x \in FirstItems : x.state = "unused"]
    /\ DestinationInit
    /\ FormInit
    /\ \A s \in Schedules :
          IF part = "form" THEN schedules[s] # NoSchedule /\ schedules[s].timing \in LossyTimings
          ELSE schedules[s] = NoSchedule
    /\ DialogInit
    /\ InOrder

OthersRest ==
    /\ UNCHANGED part
    /\ part # "accounts" => UNCHANGED accountVars
    /\ part # "keys" => UNCHANGED keyVars
    /\ part # "rates" => UNCHANGED rateVars
    /\ part # "delivery" => UNCHANGED deliveryVars
    /\ part # "reports" => UNCHANGED reportVars
    /\ part # "audit" => UNCHANGED auditVars
    /\ part # "status" => UNCHANGED statusVars
    /\ part # "text" => UNCHANGED result
    /\ part # "pdf" => UNCHANGED rendererVars
    /\ part # "settings" => UNCHANGED settingsVars
    /\ part # "destination" => UNCHANGED destinationVars
    /\ part # "form" => UNCHANGED formVars
    /\ part # "prompt" => UNCHANGED dialogVars

\* Requests and the delivery of the one run do not affect one another once the
\* delivery has read its rows: the clerks rest from then on.
DeliveryApart ==
    \/ outcome = NoOutcome /\ Administer
    \/ (outcome = NoOutcome => \A k \in Clerks : clerk[k] = NoClerk) /\ Deliver

Next ==
    \/ part = "accounts" /\ AccountNext /\ OthersRest
    \/ part = "keys" /\ KeyNext /\ OthersRest
    \/ part = "rates" /\ RateNext /\ OthersRest
    \/ part = "delivery" /\ DeliveryApart /\ OthersRest
    \/ part = "reports" /\ ReportNext /\ OthersRest
    \/ part = "audit" /\ AuditNext /\ OthersRest
    \/ part = "status" /\ StatusNext /\ OthersRest
    \/ part = "text" /\ TextNext /\ OthersRest
    \/ part = "pdf" /\ RendererNext /\ OthersRest
    \/ part = "settings" /\ SettingsNext /\ OthersRest
    \/ part = "destination" /\ DestinationNext /\ OthersRest
    \/ part = "form" /\ FormNext /\ OthersRest
    \/ part = "prompt" /\ DialogNext /\ OthersRest

vars == <<part, accountVars, keyVars, rateVars, deliveryVars, reportVars, auditVars, statusVars, result,
          rendererVars, settingsVars, destinationVars, formVars, dialogVars>>
Spec == Init /\ [][Next]_vars

\* The variables of the part that moves keep their types.
TypeOK ==
    /\ part = "accounts" => AccountTypeOK
    /\ part = "keys" => KeyTypeOK
    /\ part = "rates" => RateTypeOK
    /\ part = "delivery" => DeliveryTypeOK
    /\ part = "reports" => ReportTypeOK
    /\ part = "audit" => AuditTypeOK
    /\ part = "status" => StatusTypeOK
    /\ part = "pdf" => RendererTypeOK
    /\ part = "settings" => SettingsTypeOK
    /\ part = "destination" => DestinationTypeOK
    /\ part = "form" => FormTypeOK
    /\ part = "prompt" => DialogTypeOK

\* No dialog sends what its user neither saw nor chose: a save of the lists and
\* destinations drops only unchecked ones, an edit starts from the saved schedule, a
\* new version keeps what was not typed of one version; and the dialog of a prompt
\* shows what is stored once its calls are answered.
DialogsKeepTheRest == UncheckedOnly /\ EditStartsFromSaved /\ DraftKeepsOneVersion /\ []SettledShowsStored
=============================================================================
