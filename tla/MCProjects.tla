----------------------------- MODULE MCProjects -----------------------------
(***************************************************************************)
(* What belongs to a project, in parts that share no state, on small       *)
(* instances in one run: the people who reach it, its prompts and pins, its*)
(* label, its jobs' attachments, and the evidence of a run.  They do not   *)
(* affect one another, so a behaviour is of one part, while the others rest*)
(* in their first state.                                                   *)
(***************************************************************************)
EXTENDS ProjectSharing, PromptLibrary, ClassificationLabels, AttachmentQuota, EvidenceStaging, TLC

VARIABLE part   \* the part whose behaviour this is

\* The founder alone, or everybody, owns a team.
OwnedByOneOrAll ==
    {[v \in Users |-> IF v \in all THEN "owner" ELSE "none"] : all \in {{Founder}, Users}}
EditForAll == [grantee : Users \cup Teams \cup {Org}, level : {"EDIT"}]
EditForOneTeam == {<<[grantee |-> t, level |-> "EDIT"]>> : t \in Teams}
SizeOfFile == [f \in FileIds |-> IF f \in {1, 2} THEN 1 ELSE 2]
Symmetry == Permutations(Teams) \cup Permutations(Handlers)

Parts == {"sharing", "library", "labels", "quota", "evidence"}

TreeRests ==
    /\ acls = CHOOSE a \in InitialAcls : TRUE
    /\ \A t \in Teams : life[t] = "live" => acls[1].grantee = t /\ role[t][Founder] = "owner"
                                        /\ \A u \in Users \ {Founder} : role[t][u] = "none"

Init ==
    /\ part \in Parts
    /\ SharingInit /\ LibraryInit /\ LabelInit /\ QuotaInit /\ EvidenceInit
    /\ part # "sharing" => TreeRests
    /\ part # "evidence" => attached = {}

OthersRest ==
    /\ UNCHANGED part
    /\ part # "sharing" => UNCHANGED sharingVars
    /\ part # "library" => UNCHANGED libraryVars
    /\ part # "labels" => UNCHANGED labelVars
    /\ part # "quota" => UNCHANGED quotaVars
    /\ part # "evidence" => UNCHANGED evidenceVars

Next ==
    \/ part = "sharing" /\ SharingNext /\ OthersRest
    \/ part = "library" /\ LibraryNext /\ OthersRest
    \/ part = "labels" /\ LabelNext /\ OthersRest
    \/ part = "quota" /\ QuotaNext /\ OthersRest
    \/ part = "evidence" /\ EvidenceNext /\ OthersRest

vars == <<part, sharingVars, libraryVars, labelVars, quotaVars, evidenceVars>>
Spec == Init /\ [][Next]_vars

\* The variables of the part that moves keep their types.
TypeOK ==
    /\ part = "sharing" => SharingTypeOK
    /\ part = "library" => LibraryTypeOK
    /\ part = "labels" => LabelTypeOK
    /\ part = "quota" => QuotaTypeOK
    /\ part = "evidence" => EvidenceTypeOK
=============================================================================
