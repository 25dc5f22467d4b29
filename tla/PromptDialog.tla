---------------------------- MODULE PromptDialog ----------------------------
(***************************************************************************)
(* A prompt as the dialog of one editor shows and changes it (frontend:    *)
(* PromptDetailDialog.tsx; api: routes/prompts.ts).  The dialog shows what *)
(* its query fetched; its five mutations write to the API, and each makes  *)
(* the query ask again when it succeeds.  They run beside one another,     *)
(* beside a fetch under way, and go on when the dialog is closed; others   *)
(* change the prompt meanwhile.                                            *)
(*                                                                         *)
(* Name, description and tags are one text, and so are the variables of a  *)
(* version; that an emptied description is not sent is left out, and so is *)
(* the comparison of versions, which changes nothing.  A GET reads all at  *)
(* one moment.  Versions are stored newest last.                           *)
(***************************************************************************)
EXTENDS Naturals, Sequences

CONSTANTS
    MaxHistory,     \* bound: versions of the prompt
    MaxDoings,      \* bound: what the user types, clicks and sends, and others change
    CallIds,        \* calls that may be under way at once
    NotFetched      \* promptQuery.data is undefined

ASSUME DialogAssumption == MaxHistory \in Nat \ {0, 1} /\ MaxDoings \in Nat

VARIABLES
    detail,     \* the prompt as stored
    fetched,    \* promptQuery.data
    asking,     \* the fetch under way, and what it read
    panel,      \* whether the dialog is open, editingMeta, and the text it edits
    draft,      \* the new version: addingVersion, newVersionContent, newVersionVariables
    mutation,   \* call -> what it is, if it is under way
    doings,     \* what was typed, clicked, sent and changed so far
    drifted     \* history: a change that no fetch was asked after

dialogVars == <<detail, fetched, asking, panel, draft, mutation, doings, drifted>>

Texts == {"first", "ours", "theirs"}
PromptVersion == [content : Texts, variables : Texts]
Histories == {s \in Seq(PromptVersion) : Len(s) \in 1..MaxHistory}
Detail == [there : BOOLEAN, meta : Texts, favorite : BOOLEAN, versions : Histories]

\* typed: history: what the user typed since the draft was opened; base: from which version.
Draft == [adding : BOOLEAN, content : Texts \cup {""}, variables : Texts,
          typed : SUBSET {"content", "variables"}, base : PromptVersion]
NoDraft == [adding |-> FALSE, content |-> "", variables |-> "first", typed |-> {},
            base |-> [content |-> "first", variables |-> "first"]]
Panel == [open : BOOLEAN, editing : BOOLEAN, meta : Texts \cup {""}]
NoPanel == [open |-> FALSE, editing |-> FALSE, meta |-> ""]

\* own: the dialog that sent it is still there.
CallOf(of, Body) == [stage : {"sent", "ok", "failed"}, own : BOOLEAN, of : of, body : Body]
NoCall == [stage |-> "idle"]
MutationCall == {NoCall} \cup CallOf({"meta"}, Texts) \cup CallOf({"version", "restore"}, PromptVersion)
                \cup CallOf({"favorite", "delete"}, BOOLEAN)

Fetch == [stage : {"none", "asked"}] \cup [stage : {"read"}, data : Detail]
NoFetch == [stage |-> "none"]

DialogTypeOK ==
    /\ detail \in Detail /\ fetched \in Detail \cup {NotFetched}
    /\ asking \in Fetch /\ panel \in Panel /\ draft \in Draft
    /\ mutation \in [CallIds -> MutationCall]
    /\ doings \in 0..MaxDoings /\ drifted \in BOOLEAN

DialogInit ==
    /\ detail = [there |-> TRUE, meta |-> "first", favorite |-> FALSE,
                 versions |-> [i \in 1..(MaxHistory - 1) |-> [content |-> "first", variables |-> "first"]]]
    /\ fetched = NotFetched /\ asking = NoFetch /\ draft = NoDraft
    /\ panel = NoPanel
    /\ mutation = [c \in CallIds |-> NoCall] /\ doings = 0 /\ drifted = TRUE

Doing == doings < MaxDoings /\ doings' = doings + 1
Loaded == panel.open /\ fetched # NotFetched
Newest(d) == d.versions[Len(d.versions)]

-----------------------------------------------------------------------------
(* The query.                                                              *)

\* A fetch under way serves whoever mounts, and the first one is not given up for another.
Refetch == asking' = [stage |-> "asked"] /\ drifted' = FALSE
RefetchIfIdle == IF asking = NoFetch THEN Refetch ELSE UNCHANGED <<asking, drifted>>
\* invalidateQueries: what is not shown is only marked as stale.
Invalidate ==
    IF panel.open /\ (asking = NoFetch \/ fetched # NotFetched) THEN Refetch ELSE UNCHANGED asking /\ drifted' = TRUE

OpenDetail ==
    /\ ~panel.open
    /\ panel' = [open |-> TRUE, editing |-> FALSE, meta |-> IF fetched = NotFetched THEN "" ELSE fetched.meta]
    /\ RefetchIfIdle
    /\ UNCHANGED <<detail, fetched, draft, mutation, doings>>

\* The calls of a dialog that is gone go on without it.
Disowned == [c \in CallIds |-> IF mutation[c] = NoCall THEN NoCall ELSE [mutation[c] EXCEPT !.own = FALSE]]
Unmount == panel' = NoPanel /\ draft' = NoDraft

CloseDetail ==
    /\ panel.open /\ Unmount /\ mutation' = Disowned
    /\ UNCHANGED <<detail, fetched, asking, doings, drifted>>

\* The window gets the focus again.
Refocus ==
    /\ panel.open /\ RefetchIfIdle
    /\ UNCHANGED <<detail, fetched, panel, draft, mutation, doings>>

ReadDetail ==
    /\ asking.stage = "asked" /\ detail.there /\ asking' = [stage |-> "read", data |-> detail]
    /\ UNCHANGED <<detail, fetched, panel, draft, mutation, doings, drifted>>

FetchFails ==
    /\ asking # NoFetch /\ asking' = NoFetch /\ drifted' = TRUE
    /\ UNCHANGED <<detail, fetched, panel, draft, mutation, doings>>

\* Data that differ, if only in what is left out here, set the edited text anew.
LandDetail ==
    /\ asking.stage = "read"
    /\ fetched' = asking.data /\ asking' = NoFetch
    /\ \/ panel.open /\ panel' = [panel EXCEPT !.meta = asking.data.meta]
       \/ (fetched = asking.data \/ ~panel.open) /\ UNCHANGED panel
    /\ UNCHANGED <<detail, draft, mutation, doings, drifted>>

\* A browser drops what nobody looked at for a while.
ForgetDetail ==
    /\ ~panel.open /\ asking = NoFetch /\ fetched' = NotFetched
    /\ UNCHANGED <<detail, asking, panel, draft, mutation, doings, drifted>>

-----------------------------------------------------------------------------
(* What the user edits.                                                    *)

EditMeta(editing) ==
    /\ Loaded /\ Doing /\ panel' = [panel EXCEPT !.editing = editing]
    /\ UNCHANGED <<detail, fetched, asking, draft, mutation, drifted>>

TypeMeta ==
    /\ Loaded /\ Doing /\ panel.editing /\ panel' = [panel EXCEPT !.meta = "ours"]
    /\ UNCHANGED <<detail, fetched, asking, draft, mutation, drifted>>

\* "Save as new version" starts from the newest version shown.
OpenDraft ==
    /\ Loaded /\ Doing /\ ~draft.adding
    /\ draft' = [adding |-> TRUE, content |-> Newest(fetched).content, variables |-> Newest(fetched).variables,
                 typed |-> {}, base |-> Newest(fetched)]
    /\ UNCHANGED <<detail, fetched, asking, panel, mutation, drifted>>

TypeContent ==
    /\ Loaded /\ Doing /\ draft.adding
    /\ draft' = [draft EXCEPT !.content = "ours", !.typed = @ \cup {"content"}]
    /\ UNCHANGED <<detail, fetched, asking, panel, mutation, drifted>>

TypeVariables ==
    /\ Loaded /\ Doing /\ draft.adding
    /\ draft' = [draft EXCEPT !.variables = "ours", !.typed = @ \cup {"variables"}]
    /\ UNCHANGED <<detail, fetched, asking, panel, mutation, drifted>>

CancelDraft ==
    /\ Loaded /\ Doing /\ draft.adding /\ draft' = [draft EXCEPT !.adding = FALSE]
    /\ UNCHANGED <<detail, fetched, asking, panel, mutation, drifted>>

-----------------------------------------------------------------------------
(* The mutations.                                                          *)

InFlight(m) == \E c \in CallIds : mutation[c] # NoCall /\ mutation[c].of = m /\ mutation[c].own
Send(c, m, body) ==
    /\ Loaded /\ Doing /\ mutation[c] = NoCall
    /\ mutation' = [mutation EXCEPT ![c] = [stage |-> "sent", own |-> TRUE, of |-> m, body |-> body]]
    /\ UNCHANGED <<detail, fetched, asking, panel, draft, drifted>>

\* A button waits for the dialog's own call of its kind, but the star does not.
SaveMeta(c) == panel.editing /\ panel.meta # "" /\ ~InFlight("meta") /\ Send(c, "meta", panel.meta)
SaveVersion(c) ==
    /\ draft.adding /\ draft.content # "" /\ ~InFlight("version")
    /\ Send(c, "version", [content |-> draft.content, variables |-> draft.variables])
RestoreVersion(c, i) ==
    /\ fetched # NotFetched /\ i < Len(fetched.versions) /\ ~InFlight("restore")
    /\ Send(c, "restore", fetched.versions[i])
ToggleFavorite(c) == fetched # NotFetched /\ Send(c, "favorite", ~fetched.favorite)
DeletePrompt(c) == ~InFlight("delete") /\ Send(c, "delete", FALSE)

\* What the API makes of it.
Written(m, body) ==
    CASE m = "meta" -> [detail EXCEPT !.meta = body]
      [] m \in {"version", "restore"} -> [detail EXCEPT !.versions = Append(@, body)]
      [] m = "favorite" -> [detail EXCEPT !.favorite = body]
      [] m = "delete" -> [detail EXCEPT !.there = FALSE]

Replied(c, stage) == mutation' = [mutation EXCEPT ![c].stage = stage]

\* The answer may be lost, which the dialog takes for a failure.
WriteMutation(c) ==
    /\ mutation[c].stage = "sent" /\ detail.there
    /\ mutation[c].of \in {"version", "restore"} => Len(detail.versions) < MaxHistory
    /\ detail' = Written(mutation[c].of, mutation[c].body)
    /\ \/ Replied(c, "ok") /\ UNCHANGED drifted
       \/ Replied(c, "failed") /\ drifted' = TRUE
    /\ UNCHANGED <<fetched, asking, panel, draft, doings>>

\* The prompt is gone, a job uses it, too many saves at once, or the request got lost.
Turned(c) ==
    /\ mutation[c].stage = "sent" /\ Replied(c, "failed")
    /\ UNCHANGED <<detail, fetched, asking, panel, draft, doings, drifted>>

\* onSuccess, whatever the dialog shows by now: the call of an earlier dialog leaves
\* this one as it is.
MutationSucceeds(c) ==
    /\ mutation[c].stage = "ok" /\ mutation[c].of # "delete"
    /\ mutation' = [mutation EXCEPT ![c] = NoCall]
    /\ Invalidate
    /\ panel' = IF mutation[c].own /\ mutation[c].of = "meta" THEN [panel EXCEPT !.editing = FALSE] ELSE panel
    /\ draft' = IF mutation[c].own /\ mutation[c].of = "version"
                THEN [draft EXCEPT !.adding = FALSE, !.content = ""] ELSE draft
    /\ UNCHANGED <<detail, fetched, doings>>

\* A deletion closes the dialog that is open by now.
DeletionSucceeds(c) ==
    /\ mutation[c].stage = "ok" /\ mutation[c].of = "delete"
    /\ Invalidate /\ Unmount
    /\ mutation' = [Disowned EXCEPT ![c] = NoCall]
    /\ UNCHANGED <<detail, fetched, doings>>

\* A failure is shown, and leaves all as it is.
MutationFails(c) ==
    /\ mutation[c].stage = "failed" /\ mutation' = [mutation EXCEPT ![c] = NoCall]
    /\ UNCHANGED <<detail, fetched, asking, panel, draft, doings, drifted>>

\* Somebody else writes.
OthersWrite ==
    /\ Doing /\ detail.there
    /\ \/ detail' = Written("meta", "theirs")
       \/ detail' = Written("delete", FALSE)
       \/ Len(detail.versions) < MaxHistory
          /\ detail' = Written("version", [content |-> "theirs", variables |-> "theirs"])
    /\ drifted' = TRUE
    /\ UNCHANGED <<fetched, asking, panel, draft, mutation>>

DialogNext ==
    \/ OpenDetail \/ CloseDetail \/ Refocus \/ ReadDetail \/ FetchFails \/ LandDetail \/ ForgetDetail
    \/ \E editing \in BOOLEAN : EditMeta(editing)
    \/ TypeMeta \/ OpenDraft \/ TypeContent \/ TypeVariables \/ CancelDraft
    \/ OthersWrite
    \/ \E c \in CallIds :
          \/ SaveMeta(c) \/ SaveVersion(c) \/ ToggleFavorite(c) \/ DeletePrompt(c)
          \/ \E i \in 1..MaxHistory : RestoreVersion(c, i)
          \/ WriteMutation(c) \/ Turned(c) \/ MutationSucceeds(c) \/ DeletionSucceeds(c) \/ MutationFails(c)

DialogSpec == DialogInit /\ [][DialogNext]_dialogVars

-----------------------------------------------------------------------------
(* Properties.                                                             *)

\* Nothing is under way, and a fetch was asked after whatever changed.
Settled == Loaded /\ asking = NoFetch /\ (\A c \in CallIds : mutation[c] = NoCall) /\ ~drifted

\* Then the dialog shows the prompt as it is stored, whatever this user sent and in
\* whatever order answers and fetches came.
SettledShowsStored == Settled => fetched = detail

\* A version that is saved takes what the user did not type from one version: content
\* and variables that belong together.
DraftKeepsOneVersion ==
    [][\A c \in CallIds : mutation[c] = NoCall /\ mutation'[c] # NoCall /\ mutation'[c].of = "version" =>
          /\ "content" \in draft.typed \/ mutation'[c].body.content = draft.base.content
          /\ "variables" \in draft.typed \/ mutation'[c].body.variables = draft.base.variables]_dialogVars
=============================================================================
