------------------------ MODULE ClassificationLabels ------------------------
(***************************************************************************)
(* Classification labels and the projects marked with them (api:           *)
(* routes/classificationLabels.ts, routes/projects.ts).  One label at most *)
(* is the default.  "Clear the default, set the new one" is a transaction  *)
(* at SERIALIZABLE: it works on the snapshot it took, and PostgreSQL       *)
(* aborts it when another such transaction, or a write to a row it writes, *)
(* committed in between.  The handler tries again, a bounded number of     *)
(* times.  Everything else is a single statement after reads of its own.   *)
(* Texts, colours and the order of the labels are left out.                *)
(***************************************************************************)
EXTENDS Naturals

CONSTANTS
    LabelIds,       \* ids a label may get; a deleted one is not reused
    Projects,       \* ids a project may get; likewise
    Editors,        \* bound: requests in flight
    MaxAborts,      \* MAX_SERIALIZATION_RETRIES
    MaxLabelEdits,       \* bound: requests in all
    NoLabel

ASSUME LabelAssumption == MaxAborts \in Nat \ {0} /\ MaxLabelEdits \in Nat /\ NoLabel \notin LabelIds

VARIABLES
    labels,     \* label -> its row
    marks,      \* project -> its state and its label
    edit,       \* request -> what its handler holds
    labelEdits       \* requests begun

labelVars == <<labels, marks, edit, labelEdits>>

States == {"unused", "live", "deleted"}
LabelRow == [state : States, isDefault : BOOLEAN]
Mark == [state : States, label : LabelIds \cup {NoLabel}]

\* seen: the defaults of its snapshot; stale: another commit touched what it
\* read or writes; aborts: transactions aborted so far; project: the one it is about.
EditOps == {"idle", "begin", "commit", "text", "retire", "mark", "create"}
Edit == [op : EditOps, label : LabelIds \cup {NoLabel}, fresh : BOOLEAN, seen : SUBSET LabelIds,
         stale : BOOLEAN, aborts : 0..MaxAborts, project : Projects \cup {NoLabel}]
NoEdit == [op |-> "idle", label |-> NoLabel, fresh |-> FALSE, seen |-> {},
           stale |-> FALSE, aborts |-> 0, project |-> NoLabel]

LabelTypeOK ==
    /\ labels \in [LabelIds -> LabelRow]
    /\ marks \in [Projects -> Mark]
    /\ edit \in [Editors -> Edit]
    /\ labelEdits \in 0..MaxLabelEdits

LiveLabels == {l \in LabelIds : labels[l].state = "live"}
Defaults == {l \in LiveLabels : labels[l].isDefault}
Unlabelled(l) == labels[l].state = "unused"

LabelInit ==
    /\ labels = [l \in LabelIds |-> [state |-> "unused", isDefault |-> FALSE]]
    /\ marks = [p \in Projects |-> [state |-> "unused", label |-> NoLabel]]
    /\ edit = [e \in Editors |-> NoEdit]
    /\ labelEdits = 0

In(e, op) == edit[e].op = op
LeaveEdit(e) == [edit EXCEPT ![e] = NoEdit]
Enter(e, r) ==
    /\ edit[e] = NoEdit /\ labelEdits < MaxLabelEdits
    /\ edit' = [edit EXCEPT ![e] = r]
    /\ labelEdits' = labelEdits + 1

\* A write to the rows W, in a transaction of its own, spoils the open
\* transactions that write one of them too.
Spoil(h, W) ==
    [e \in Editors |->
        IF h[e].op = "commit" /\ (h[e].seen \cup {h[e].label}) \cap W # {}
        THEN [h[e] EXCEPT !.stale = TRUE] ELSE h[e]]

-----------------------------------------------------------------------------
(* The default.                                                            *)

\* POST or PATCH with isDefault; a PATCH has found its row.
BeginDefault(e, l) ==
    /\ labels[l].state # "deleted"
    /\ Enter(e, [NoEdit EXCEPT !.op = "begin", !.label = l, !.fresh = Unlabelled(l)])
    /\ UNCHANGED <<labels, marks>>

Snapshot(e) ==
    /\ In(e, "begin")
    /\ edit' = [edit EXCEPT ![e].op = "commit", ![e].seen = Defaults, ![e].stale = FALSE]
    /\ UNCHANGED <<labels, marks, labelEdits>>

\* A transaction at READ COMMITTED has nothing to fear from another.
Undisturbed(e) == TRUE

Serializable(e) == ~edit[e].stale

\* The id of a new label is its own; a PATCH finds its row or answers 404.
Settable(e) == IF edit[e].fresh THEN Unlabelled(edit[e].label) ELSE edit[e].label \in LiveLabels

\* The commit spoils every other open transaction: both read all the defaults
\* and both change what they are.
CommitDefault(e) ==
    /\ In(e, "commit") /\ Serializable(e) /\ Settable(e)
    /\ labels' = [l \in LabelIds |->
            IF l = edit[e].label THEN [state |-> "live", isDefault |-> TRUE]
            ELSE IF l \in edit[e].seen THEN [labels[l] EXCEPT !.isDefault = FALSE]
            ELSE labels[l]]
    /\ edit' = [o \in Editors |->
            IF o = e THEN NoEdit
            ELSE IF In(o, "commit") THEN [edit[o] EXCEPT !.stale = TRUE] ELSE edit[o]]
    /\ UNCHANGED <<marks, labelEdits>>

AbortDefault(e) ==
    /\ In(e, "commit") /\ ~Serializable(e)
    /\ edit' = IF edit[e].aborts + 1 < MaxAborts
               THEN [edit EXCEPT ![e].op = "begin", ![e].aborts = @ + 1]
               ELSE LeaveEdit(e)
    /\ UNCHANGED <<labels, marks, labelEdits>>

LoseTarget(e) ==
    /\ In(e, "commit") /\ Serializable(e) /\ ~Settable(e)
    /\ edit' = LeaveEdit(e)
    /\ UNCHANGED <<labels, marks, labelEdits>>

-----------------------------------------------------------------------------
(* Labels that are not to be the default.                                  *)

\* POST without isDefault.
AddLabel(l) ==
    /\ Unlabelled(l) /\ labelEdits < MaxLabelEdits
    /\ labels' = [labels EXCEPT ![l].state = "live"]
    /\ labelEdits' = labelEdits + 1
    /\ UNCHANGED <<marks, edit>>

\* PATCH without isDefault: or, as here, with false; it found its row.
BeginText(e, l) ==
    /\ l \in LiveLabels
    /\ Enter(e, [NoEdit EXCEPT !.op = "text", !.label = l])
    /\ UNCHANGED <<labels, marks>>

WriteText(e) ==
    LET l == edit[e].label IN
    /\ In(e, "text")
    /\ IF l \in LiveLabels
       THEN /\ \E d \in {FALSE, labels[l].isDefault} : labels' = [labels EXCEPT ![l].isDefault = d]
            /\ edit' = Spoil(LeaveEdit(e), {l})
       ELSE edit' = LeaveEdit(e) /\ UNCHANGED labels
    /\ UNCHANGED <<marks, labelEdits>>

\* DELETE counts the projects with the label.
BeginRetire(e, l) ==
    /\ l \in LiveLabels /\ \A p \in Projects : marks[p].label # l
    /\ Enter(e, [NoEdit EXCEPT !.op = "retire", !.label = l])
    /\ UNCHANGED <<labels, marks>>

\* The deletion itself counts nothing: it clears the marking of a project that
\* got the label meanwhile (SetNull).
Retire(e) ==
    LET l == edit[e].label IN
    /\ In(e, "retire")
    /\ IF l \in LiveLabels
       THEN /\ labels' = [labels EXCEPT ![l] = [state |-> "deleted", isDefault |-> FALSE]]
            /\ marks' = [p \in Projects |-> IF marks[p].label = l
                                            THEN [marks[p] EXCEPT !.label = NoLabel] ELSE marks[p]]
            /\ edit' = Spoil(LeaveEdit(e), {l})
       ELSE edit' = LeaveEdit(e) /\ UNCHANGED <<labels, marks>>
    /\ UNCHANGED labelEdits

-----------------------------------------------------------------------------
(* Projects.                                                               *)

\* POST /projects without a label takes the default, if it finds one.
BeginProject(e, p) ==
    /\ marks[p].state = "unused"
    /\ \E l \in IF Defaults = {} THEN {NoLabel} ELSE Defaults :
          Enter(e, [NoEdit EXCEPT !.op = "create", !.label = l, !.project = p])
    /\ UNCHANGED <<labels, marks>>

\* A label that is gone refuses the row (foreign key).
WriteProject(e) ==
    LET p == edit[e].project
        l == edit[e].label IN
    /\ In(e, "create")
    /\ edit' = LeaveEdit(e)
    /\ marks' = IF marks[p].state = "unused" /\ l \in LiveLabels \cup {NoLabel}
                THEN [marks EXCEPT ![p] = [state |-> "live", label |-> l]] ELSE marks
    /\ UNCHANGED <<labels, labelEdits>>

\* PATCH /projects/:id, and POST with a label: one statement, of any label.
MarkProject(p, l) ==
    /\ marks[p].state # "deleted" /\ l \in LiveLabels \cup {NoLabel} /\ labelEdits < MaxLabelEdits
    /\ marks' = [marks EXCEPT ![p] = [state |-> "live", label |-> l]]
    /\ labelEdits' = labelEdits + 1
    /\ UNCHANGED <<labels, edit>>

DeleteProject(p) ==
    /\ marks[p].state = "live"
    /\ marks' = [marks EXCEPT ![p] = [state |-> "deleted", label |-> NoLabel]]
    /\ UNCHANGED <<labels, edit, labelEdits>>

-----------------------------------------------------------------------------
LabelNext ==
    \/ \E e \in Editors :
          \/ Snapshot(e) \/ CommitDefault(e) \/ AbortDefault(e) \/ LoseTarget(e)
          \/ WriteText(e) \/ Retire(e) \/ WriteProject(e)
          \/ \E l \in LabelIds : BeginDefault(e, l) \/ BeginText(e, l) \/ BeginRetire(e, l)
          \/ \E p \in Projects : BeginProject(e, p)
    \/ \E l \in LabelIds : AddLabel(l) \/ \E p \in Projects : MarkProject(p, l)
    \/ \E p \in Projects : MarkProject(p, NoLabel) \/ DeleteProject(p)

LabelSpec == LabelInit /\ [][LabelNext]_labelVars

-----------------------------------------------------------------------------
(* Properties.                                                             *)

\* Whatever is made the default at the same time, also while there is none yet
\* and no row to lock, two labels are never the default together
\* (withSerializableRetry).
OneDefaultLabel == \A a, b \in Defaults : a = b
=============================================================================
