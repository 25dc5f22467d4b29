------------------------ MODULE WebhookDestinations ------------------------
(***************************************************************************)
(* How a webhook destination is told of a run (api:                        *)
(* routes/webhookDestinations.ts; worker: deliverOne; shared:              *)
(* webhookPayloadTemplate.ts, webhookDeliveryHeaders.ts): the settings of  *)
(* its payload, its signing secret, and the body and signature that come   *)
(* of them, in a test and in a delivery.  Handlers read, then write; each  *)
(* write is followed by an audit event, and when that fails the            *)
(* administrator gets no answer.                                           *)
(*                                                                         *)
(* One destination.  Whom it is told of and when is in RunDelivery; names, *)
(* addresses and headers are left out, templates are those whose rendering *)
(* is JSON.                                                                *)
(***************************************************************************)
EXTENDS Naturals

CONSTANTS
    Templates,          \* templates that render to JSON
    Patches,            \* bound: PATCH requests in flight
    MaxSettings,        \* bound: requests that set something
    NoTemplate,         \* null
    NoSend

ASSUME DestinationAssumption ==
    /\ MaxSettings \in Nat
    /\ NoTemplate \notin Templates /\ NoSend \notin Templates

VARIABLES
    dest,       \* the row
    patching,   \* PATCH request -> what its handler holds
    settings,   \* requests that set something, so far
    givenOut,       \* the secrets given out in an answer
    sending     \* the row as a test or a delivery read it

destinationVars == <<dest, patching, settings, givenOut, sending>>

Payload == [custom : BOOLEAN, template : Templates \cup {NoTemplate}]
PayloadFields == {"custom", "template"}

\* Secrets are numbered as they are generated.
DestRow == [state : {"unused", "live", "deleted"}, payload : Payload, sign : BOOLEAN,
            secret : 0..MaxSettings]
Patching == [busy : BOOLEAN, seen : Payload, new : Payload, fields : SUBSET PayloadFields]
Plain == [custom |-> FALSE, template |-> NoTemplate]
NoPatch == [busy |-> FALSE, seen |-> Plain, new |-> Plain, fields |-> {}]
Sent == [body : Templates \cup {NoTemplate}, key : 0..MaxSettings, test : BOOLEAN]

DestinationTypeOK ==
    /\ dest \in DestRow
    /\ patching \in [Patches -> Patching]
    /\ settings \in 0..MaxSettings
    /\ givenOut \subseteq 1..MaxSettings
    /\ sending \in Sent \cup {NoSend}

DestinationInit ==
    /\ dest = [state |-> "unused", payload |-> Plain, sign |-> TRUE, secret |-> 0]
    /\ patching = [k \in Patches |-> NoPatch]
    /\ settings = 0 /\ givenOut = {} /\ sending = NoSend

Setting == settings < MaxSettings /\ settings' = settings + 1

\* The answer that has the secret, unless the audit event could not be written.
GiveOut(s) == givenOut' = givenOut \/ givenOut' = givenOut \cup {s}

-----------------------------------------------------------------------------
(* The settings.                                                           *)

EffectivePayloadConfigIsValid(p) == ~p.custom \/ p.template # NoTemplate

\* POST.
CreateDestination(p, sign) ==
    /\ dest.state = "unused" /\ EffectivePayloadConfigIsValid(p)
    /\ Setting
    /\ dest' = [state |-> "live", payload |-> p, sign |-> sign, secret |-> settings']
    /\ GiveOut(settings')
    /\ UNCHANGED <<patching, sending>>

\* The fields F of old, as new has them.
Merged(old, new, F) ==
    [custom |-> IF "custom" \in F THEN new.custom ELSE old.custom,
     template |-> IF "template" \in F THEN new.template ELSE old.template]

\* A check of what the request says, and no more.
EffectiveInRequest(old, new, F) == Merged(Plain, new, F)

\* What the row would be.
Effective(old, new, F) == Merged(old, new, F)

\* PATCH finds the row and checks what it would be.
BeginPatchPayload(k, new, F) ==
    /\ ~patching[k].busy /\ dest.state = "live"
    /\ EffectivePayloadConfigIsValid(Effective(dest.payload, new, F))
    /\ Setting
    /\ patching' = [patching EXCEPT ![k] = [busy |-> TRUE, seen |-> dest.payload, new |-> new, fields |-> F]]
    /\ UNCHANGED <<dest, givenOut, sending>>

\* It writes the fields of the request, whatever the row is by now; 404 if it is gone.
WritePayload(k) ==
    /\ patching[k].busy
    /\ patching' = [patching EXCEPT ![k] = NoPatch]
    /\ dest' = IF dest.state = "live"
               THEN [dest EXCEPT !.payload = Merged(@, patching[k].new, patching[k].fields)] ELSE dest
    /\ UNCHANGED <<settings, givenOut, sending>>

\* PATCH of signPayload reads nothing it depends on.
SwitchSigning ==
    /\ dest.state = "live"
    /\ Setting
    /\ dest' = [dest EXCEPT !.sign = ~@]
    /\ UNCHANGED <<patching, givenOut, sending>>

\* POST /:id/rotate-secret.
RotateSecret ==
    /\ dest.state = "live"
    /\ Setting
    /\ dest' = [dest EXCEPT !.secret = settings']
    /\ GiveOut(settings')
    /\ UNCHANGED <<patching, sending>>

DeleteDestination ==
    /\ dest.state = "live"
    /\ dest' = [dest EXCEPT !.state = "deleted"]
    /\ UNCHANGED <<patching, settings, givenOut, sending>>

-----------------------------------------------------------------------------
(* Sending.                                                                *)

\* The template's rendering, or the fixed shape: also when there is no template.
Body == IF dest.payload.custom THEN dest.payload.template ELSE NoTemplate
\* The secret the signature is made with; 0 for none.
SigningKey == IF dest.sign THEN dest.secret ELSE 0

\* The row is read once; what is sent, again and again in a delivery, comes from it.
\* A delivery is of a destination that is there.
Compose(test) ==
    /\ sending = NoSend /\ dest.state = "live"
    /\ sending' = [body |-> Body, key |-> SigningKey, test |-> test]
    /\ UNCHANGED <<dest, patching, settings, givenOut>>

\* The last attempt has its answer, and the test or delivery its event.
SendEnds ==
    /\ sending # NoSend
    /\ sending' = NoSend
    /\ UNCHANGED <<dest, patching, settings, givenOut>>

-----------------------------------------------------------------------------
DestinationNext ==
    \/ \E p \in Payload, sign \in BOOLEAN : CreateDestination(p, sign)
    \/ \E k \in Patches :
          \/ WritePayload(k)
          \/ \E F \in SUBSET PayloadFields \ {{}} : \E new \in Payload :
                Merged(Plain, new, F) = new /\ BeginPatchPayload(k, new, F)
    \/ SwitchSigning \/ RotateSecret \/ DeleteDestination
    \/ \E test \in BOOLEAN : Compose(test)
    \/ SendEnds

DestinationSpec == DestinationInit /\ [][DestinationNext]_destinationVars

-----------------------------------------------------------------------------
(* Properties.                                                             *)

\* A row comes to ask for a template it does not have only by a PATCH whose check
\* saw another row than the one it wrote to (webhookDestinations.ts:50-58).
TemplateLostOnlyToRace ==
    [][EffectivePayloadConfigIsValid(dest.payload) /\ ~EffectivePayloadConfigIsValid(dest'.payload) =>
         \E k \in Patches : patching[k].busy /\ ~patching'[k].busy /\ patching[k].seen # dest.payload]_destinationVars

\* webhookDelivery.ts:128-130: "customPayloadEnabled without a usable template
\* shouldn't be reachable - the API validates the effective state on every
\* POST/PATCH".
TemplateThere == EffectivePayloadConfigIsValid(dest.payload)
=============================================================================
