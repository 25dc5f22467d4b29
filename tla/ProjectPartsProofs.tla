------------------------- MODULE ProjectPartsProofs -------------------------
(***************************************************************************)
(* What is kept about the parts of a project: the evidence of a run, the   *)
(* labels, the space of attachments and the prompts, each for any values   *)
(* of its constants, and at the end what MCProjects composes of them and   *)
(* of sharing.                                                             *)
(***************************************************************************)
EXTENDS MCProjects, ProjectSharingProofs

-----------------------------------------------------------------------------
(***************************************************************************)
(* Evidence: EvidenceMatchesRequest and StagingRemoved for any             *)
(* attachments, attempts and budgets. Between requests the visible rows    *)
(* are those of the last one (Kept); while a swap is open they can be put  *)
(* back (Restorable).                                                      *)
(***************************************************************************)

\* Which flags go with which place, and where a worker can be on a run that ended.
FlagsFollow ==
    /\ prepared => pc \in {"swapped", "catch"} /\ ~invoked
    /\ pc = "swapped" => prepared
    /\ invoked => pc \in {"dispatched", "agent", "catch", "settle"}
    /\ pc \in {"dispatched", "agent"} => invoked
    /\ invoked => ~cut
    /\ pc # "idle" => attempt # 0
    /\ Terminal /\ ~overtaken => ~Unasked

\* What an attempt that has not asked anything yet knows and staged; the reaper may
\* have removed some of it.
Staged ==
    /\ pc \in {"idle", "load"} => sections = {}
    /\ text <= attempt
    /\ pc \in {"load", "extract", "start"} => prevText = text /\ text < attempt
    /\ pc \in {"extract", "start"} =>
          /\ rows["pending"] \subseteq {attempt} \X sections /\ rows["previous"] = {}
          /\ ~overtaken => rows["pending"] = {attempt} \X sections
    /\ pc = "swapped" => /\ text = attempt
                         /\ rows["searchable"] \subseteq {attempt} \X sections
                         /\ ~overtaken => rows["searchable"] = {attempt} \X sections

\* An open swap can be undone: the previous rows are those seen before it.
Restorable ==
    prepared => /\ prevText < attempt /\ (~cut => text = attempt)
                /\ rows["previous"] \subseteq {prevText} \X Docs
                /\ ~cut /\ ~overtaken => rows["previous"] = {sent} \X asked /\ prevText = sent

\* Otherwise what is visible is what the last request was given.
Kept ==
    ~prepared /\ ~cut /\ ~overtaken => rows["searchable"] = {sent} \X asked /\ text = sent

\* Without a rejected call or such a reaper, hidden rows are gone by the time an outcome
\* is written.
Cleared ==
    faults = 0 /\ ~overtaken =>
        /\ pc \in {"swapped", "dispatched"} => rows["pending"] = {}
        /\ pc \in {"agent", "settle"} \/ (pc = "catch" /\ invoked) \/ Terminal =>
              rows["pending"] = {} /\ rows["previous"] = {}

EvidenceInv ==
    /\ EvidenceTypeOK
    /\ FlagsFollow
    /\ NeverMixed
    /\ Staged
    /\ Restorable
    /\ Kept
    /\ Cleared

-----------------------------------------------------------------------------
LEMMA EvidenceStart == EvidenceInit => EvidenceInv
<1> SUFFICES ASSUME EvidenceInit PROVE EvidenceInv
  OBVIOUS
<1> USE DEF EvidenceInit
<1>1. EvidenceTypeOK
  <2>1. {queued, prepared, invoked, inSweep, cut, overtaken} \subseteq BOOLEAN
    BY Zenon
  <2> QED
    BY <2>1 DEF EvidenceTypeOK, Kind
<1>2. FlagsFollow
  BY DEF FlagsFollow, Terminal, Unasked
<1>3. NeverMixed /\ Kept
  BY DEF NeverMixed, Kept, Kind
<1>4. Staged /\ Restorable /\ Cleared
  BY DEF Staged, Restorable, Cleared, Terminal
<1> QED
  BY <1>1, <1>2, <1>3, <1>4 DEF EvidenceInv

LEMMA EvidenceStep == EvidenceInv /\ [EvidenceNext]_evidenceVars => EvidenceInv'
<1> SUFFICES ASSUME EvidenceInv, [EvidenceNext]_evidenceVars PROVE EvidenceInv'
  OBVIOUS
<1> USE DEF EvidenceInv, Kind, dbVars, laneVars, reapVars, budgetVars, Unasked
<1>1. ASSUME EditAttachments PROVE EvidenceInv'
  BY <1>1 DEF EditAttachments, EvidenceTypeOK, FlagsFollow, NeverMixed, Staged, Restorable, Kept,
         Cleared, Row, Terminal
<1>2. ASSUME Pickup PROVE EvidenceInv'
  BY <1>2 DEF Pickup, EvidenceTypeOK, FlagsFollow, NeverMixed, Staged, Restorable, Kept, Cleared,
         Row, Terminal
<1>3. ASSUME CancelQueued PROVE EvidenceInv'
  BY <1>3 DEF CancelQueued, WithoutStaging, EvidenceTypeOK, FlagsFollow, NeverMixed, Staged,
         Restorable, Kept, Cleared, Row, Terminal
<1>4. ASSUME StartAttempt PROVE EvidenceInv'
  BY <1>4 DEF StartAttempt, WithoutStaging, EvidenceTypeOK, FlagsFollow, NeverMixed, Staged,
         Restorable, Kept, Cleared, Row, Terminal
<1>5. ASSUME NEW d \in Docs, Extract(d) PROVE EvidenceInv'
  <2>1. (EvidenceTypeOK /\ FlagsFollow)'
    BY <1>5 DEF Extract, StagedRows, EvidenceTypeOK, FlagsFollow, Row, Terminal
  <2>2. (NeverMixed /\ Staged)'
    BY <1>5 DEF Extract, StagedRows, EvidenceTypeOK, FlagsFollow, NeverMixed, Staged, Restorable
  <2>3. (Restorable /\ Kept)'
    BY <1>5 DEF Extract, StagedRows, EvidenceTypeOK, FlagsFollow, NeverMixed, Staged, Restorable, Kept
  <2>4. Cleared'
    BY <1>5 DEF Extract, StagedRows, EvidenceTypeOK, FlagsFollow, Staged, Cleared, Terminal
  <2> QED
    BY <2>1, <2>2, <2>3, <2>4
<1>6. ASSUME FailBeforeSend PROVE EvidenceInv'
  BY <1>6 DEF FailBeforeSend, Raise, EvidenceTypeOK, FlagsFollow, NeverMixed, Staged, Restorable,
         Kept, Cleared, Row, Terminal
<1>7. ASSUME Extracted PROVE EvidenceInv'
  BY <1>7 DEF Extracted, EvidenceTypeOK, FlagsFollow, NeverMixed, Staged, Restorable, Kept, Cleared,
         Row, Terminal
<1>8. ASSUME PrepareSwap PROVE EvidenceInv'
  <2>1. (EvidenceTypeOK /\ FlagsFollow)'
    BY <1>8 DEF PrepareSwap, SwappedRows, EvidenceTypeOK, FlagsFollow, Row, Terminal
  <2>2. (NeverMixed /\ Staged)'
    BY <1>8 DEF PrepareSwap, SwappedRows, EvidenceTypeOK, FlagsFollow, NeverMixed, Staged,
           Restorable
  <2>3. (Restorable /\ Kept)'
    BY <1>8 DEF PrepareSwap, SwappedRows, EvidenceTypeOK, FlagsFollow, NeverMixed, Staged,
           Restorable, Kept
  <2>4. Cleared'
    BY <1>8 DEF PrepareSwap, SwappedRows, EvidenceTypeOK, FlagsFollow, Staged, Cleared, Terminal
  <2> QED
    BY <2>1, <2>2, <2>3, <2>4
<1>9. ASSUME SwapAnswerLost PROVE EvidenceInv'
  <2>1. (EvidenceTypeOK /\ FlagsFollow)'
    BY <1>9 DEF SwapAnswerLost, SwappedRows, Raise, CallError, EvidenceTypeOK, FlagsFollow, Row, Terminal
  <2>2. (NeverMixed /\ Staged)'
    BY <1>9 DEF SwapAnswerLost, SwappedRows, Raise, CallError, EvidenceTypeOK, FlagsFollow, NeverMixed, Staged,
           Restorable
  <2>3. (Restorable /\ Kept)'
    BY <1>9 DEF SwapAnswerLost, SwappedRows, Raise, CallError, EvidenceTypeOK, FlagsFollow, NeverMixed, Staged,
           Restorable, Kept
  <2>4. Cleared'
    BY <1>9 DEF SwapAnswerLost, SwappedRows, Raise, CallError, EvidenceTypeOK, FlagsFollow, Staged, Cleared,
           Terminal
  <2> QED
    BY <2>1, <2>2, <2>3, <2>4
<1>10. ASSUME AbortBeforeSend PROVE EvidenceInv'
  <2>1. (EvidenceTypeOK /\ FlagsFollow)'
    BY <1>10 DEF AbortBeforeSend, RestoredRows, Raise, CallError, EvidenceTypeOK, FlagsFollow, Row, Terminal
  <2>2. (NeverMixed /\ Staged)'
    BY <1>10 DEF AbortBeforeSend, RestoredRows, Raise, CallError, EvidenceTypeOK, FlagsFollow, NeverMixed,
           Staged, Restorable
  <2>3. (Restorable /\ Kept)'
    BY <1>10 DEF AbortBeforeSend, RestoredRows, Raise, CallError, EvidenceTypeOK, FlagsFollow, NeverMixed,
           Staged, Restorable, Kept
  <2>4. Cleared'
    BY <1>10 DEF AbortBeforeSend, RestoredRows, Raise, CallError, EvidenceTypeOK, FlagsFollow, Staged, Cleared,
           Terminal
  <2> QED
    BY <2>1, <2>2, <2>3, <2>4
<1>11. ASSUME Send PROVE EvidenceInv'
  <2>1. (EvidenceTypeOK /\ FlagsFollow)'
    BY <1>11 DEF Send, EvidenceTypeOK, FlagsFollow, Row, Terminal
  <2>2. (NeverMixed /\ Staged)'
    BY <1>11 DEF Send, EvidenceTypeOK, FlagsFollow, NeverMixed, Staged, Restorable
  <2>3. (Restorable /\ Kept)'
    BY <1>11 DEF Send, EvidenceTypeOK, FlagsFollow, NeverMixed, Staged, Restorable, Kept
  <2>4. Cleared'
    BY <1>11 DEF Send, EvidenceTypeOK, FlagsFollow, Staged, Cleared, Terminal
  <2> QED
    BY <2>1, <2>2, <2>3, <2>4
<1>12. ASSUME DropPrevious PROVE EvidenceInv'
  <2>1. (EvidenceTypeOK /\ FlagsFollow)'
    BY <1>12 DEF DropPrevious, EvidenceTypeOK, FlagsFollow, Row, Terminal
  <2>2. (NeverMixed /\ Staged)'
    BY <1>12 DEF DropPrevious, EvidenceTypeOK, FlagsFollow, NeverMixed, Staged, Restorable
  <2>3. (Restorable /\ Kept)'
    BY <1>12 DEF DropPrevious, EvidenceTypeOK, FlagsFollow, NeverMixed, Staged, Restorable, Kept
  <2>4. Cleared'
    BY <1>12 DEF DropPrevious, EvidenceTypeOK, FlagsFollow, Staged, Cleared, Terminal
  <2> QED
    BY <2>1, <2>2, <2>3, <2>4
<1>13. ASSUME Succeed PROVE EvidenceInv'
  BY <1>13 DEF Succeed, Leave, EvidenceTypeOK, FlagsFollow, NeverMixed, Staged, Restorable, Kept,
         Cleared, Row, Terminal
<1>14. ASSUME AgentFails PROVE EvidenceInv'
  BY <1>14 DEF AgentFails, Raise, EvidenceTypeOK, FlagsFollow, NeverMixed, Staged, Restorable, Kept,
         Cleared, Row, Terminal
<1>15. ASSUME Rollback PROVE EvidenceInv'
  <2>1. (EvidenceTypeOK /\ FlagsFollow)'
    BY <1>15 DEF Rollback, RestoredRows, EvidenceTypeOK, FlagsFollow, Row, Terminal
  <2>2. (NeverMixed /\ Staged)'
    BY <1>15 DEF Rollback, RestoredRows, EvidenceTypeOK, FlagsFollow, NeverMixed, Staged, Restorable
  <2>3. (Restorable /\ Kept)'
    BY <1>15 DEF Rollback, RestoredRows, EvidenceTypeOK, FlagsFollow, NeverMixed, Staged,
           Restorable, Kept
  <2>4. Cleared'
    BY <1>15 DEF Rollback, RestoredRows, EvidenceTypeOK, FlagsFollow, Staged, Cleared, Terminal
  <2> QED
    BY <2>1, <2>2, <2>3, <2>4
<1>16. ASSUME ClearStaging PROVE EvidenceInv'
  <2>1. (EvidenceTypeOK /\ FlagsFollow)'
    BY <1>16 DEF ClearStaging, WithoutStaging, EvidenceTypeOK, FlagsFollow, Row, Terminal
  <2>2. (NeverMixed /\ Staged)'
    BY <1>16 DEF ClearStaging, WithoutStaging, EvidenceTypeOK, FlagsFollow, NeverMixed, Staged,
           Restorable
  <2>3. (Restorable /\ Kept)'
    BY <1>16 DEF ClearStaging, WithoutStaging, EvidenceTypeOK, FlagsFollow, NeverMixed, Staged,
           Restorable, Kept
  <2>4. Cleared'
    BY <1>16 DEF ClearStaging, WithoutStaging, EvidenceTypeOK, FlagsFollow, Staged, Cleared,
           Terminal
  <2> QED
    BY <2>1, <2>2, <2>3, <2>4
<1>17. ASSUME Settle PROVE EvidenceInv'
  <2>1. {queued', prepared', invoked', inSweep', cut', overtaken'} \subseteq BOOLEAN
    BY <1>17, Zenon DEF Settle, Leave, EvidenceTypeOK
  <2>2. {text', prevText', attempt', made', sent', edits', crashes', faults'} \subseteq Nat
    BY <1>17 DEF Settle, Leave, EvidenceTypeOK
  <2>3. status' \in Outcomes \/ status' = status
    BY <1>17 DEF Settle
  <2>4. EvidenceTypeOK'
    BY <1>17, <2>1, <2>2, <2>3 DEF Settle, Outcomes, Leave, EvidenceTypeOK
  <2>5. FlagsFollow'
    BY <1>17 DEF Settle, Leave, FlagsFollow
  <2>6. (NeverMixed /\ Staged)'
    BY <1>17 DEF Settle, Leave, NeverMixed, Staged
  <2>7. (Restorable /\ Kept)'
    BY <1>17 DEF Settle, Leave, FlagsFollow, Restorable, Kept, EvidenceTypeOK
  <2>8. Cleared'
    BY <1>17 DEF Settle, Leave, Cleared, FlagsFollow, EvidenceTypeOK, Terminal
  <2> QED
    BY <2>4, <2>5, <2>6, <2>7, <2>8
<1>18. ASSUME Fault PROVE EvidenceInv'
  <2> DEFINE InTry == pc \in {"extract", "start", "swapped", "dispatched", "agent"}
  <2>1. PICK db \in {dbVars} \cup Committed : status' = db[1] /\ rows' = db[2] /\ text' = db[3]
    BY <1>18 DEF Fault
  <2>2. /\ faults' = faults + 1
        /\ UNCHANGED <<attached, sent, asked, inSweep, overtaken, edits, crashes>>
    BY <1>18 DEF Fault
  <2>3. CASE InTry
    <3>1. /\ UNCHANGED <<queued, made, attempt, listed, sections, prepared, invoked, prevText, cut>>
          /\ pc' = "catch" /\ err' \in {"cancelled", "transient"}
      BY <1>18, <2>3 DEF Fault, Raise, CallError
    <3>2. \/ status' = status /\ rows' = rows /\ text' = text
          \/ /\ pc = "extract" /\ status' = status /\ text' = text
             /\ \E d \in listed \cap attached : rows' = StagedRows(d)
          \/ /\ pc = "dispatched" /\ status' = status /\ text' = text
             /\ rows' = [rows EXCEPT !["previous"] = {}]
          \/ pc = "agent" /\ status' = "SUCCESS" /\ rows' = rows /\ text' = text
      BY <2>1, <2>3 DEF Committed
    <3>3. EvidenceTypeOK'
      BY <2>2, <2>3, <3>1, <3>2 DEF StagedRows, EvidenceTypeOK, FlagsFollow, Row
    <3>4. FlagsFollow'
      BY <2>2, <2>3, <3>1, <3>2 DEF FlagsFollow, Terminal
    <3>5. (NeverMixed /\ Staged)'
      BY <2>2, <2>3, <3>1, <3>2 DEF StagedRows, NeverMixed, Staged, EvidenceTypeOK
    <3>6. (Restorable /\ Kept)'
      BY <2>2, <2>3, <3>1, <3>2 DEF StagedRows, FlagsFollow, Restorable, Kept, EvidenceTypeOK
    <3>7. Cleared'
      BY <2>2 DEF Cleared, EvidenceTypeOK
    <3> QED
      BY <3>3, <3>4, <3>5, <3>6, <3>7
  <2>4. CASE pc \in {"load", "catch", "settle"}
    <3>1. /\ made' = made + 1 /\ Leave(made + 1 < Attempts)
          /\ cut' = (cut \/ (prepared /\ text' # prevText))
      BY <1>18, <2>4 DEF Fault
    <3>2. \/ status' = status /\ rows' = rows /\ text' = text
          \/ pc = "load" /\ status' = "RUNNING" /\ rows' = rows /\ text' = text
          \/ /\ pc = "load" \/ (pc = "catch" /\ ~invoked /\ ~prepared)
             /\ status' = status /\ rows' = WithoutStaging /\ text' = text
          \/ /\ pc = "catch" /\ prepared
             /\ status' = status /\ rows' = RestoredRows /\ text' = prevText
          \/ pc = "settle" /\ status' \in {"CANCELLED", "FAILED"} /\ rows' = rows /\ text' = text
      BY <2>1, <2>4 DEF Committed, Outcomes
    <3>3. {queued', prepared', invoked', inSweep', cut', overtaken'} \subseteq BOOLEAN
      <4>1. (made + 1 < Attempts) \in BOOLEAN /\ (cut \/ (prepared /\ text' # prevText)) \in BOOLEAN
        BY SMT
      <4>2. {queued, prepared, invoked, inSweep, cut, overtaken} \subseteq BOOLEAN
        BY DEF EvidenceTypeOK
      <4>3. /\ queued' = (made + 1 < Attempts) /\ prepared' = FALSE /\ invoked' = FALSE
            /\ inSweep' = inSweep /\ overtaken' = overtaken
        BY <2>2, <3>1, Zenon DEF Leave
      <4> QED
        BY <3>1, <4>1, <4>2, <4>3, Zenon
    <3>4. {text', prevText', attempt', made', sent', edits', crashes', faults'} \subseteq Nat
      BY <2>2, <3>1, <3>2 DEF Leave, EvidenceTypeOK
    <3>5. EvidenceTypeOK'
      <4>1. rows' \in [Kind -> SUBSET Row]
        BY <3>2 DEF WithoutStaging, RestoredRows, EvidenceTypeOK
      <4> QED
        BY <2>2, <3>1, <3>2, <3>3, <3>4, <4>1 DEF Leave, EvidenceTypeOK
    <3>6. FlagsFollow'
      BY <2>2, <3>1, <3>2 DEF Leave, FlagsFollow, Terminal
    <3>7. (NeverMixed /\ Staged)'
      BY <2>2, <2>4, <3>1, <3>2 DEF Leave, WithoutStaging, RestoredRows, NeverMixed, Staged, Restorable,
             EvidenceTypeOK
    <3>8. (Restorable /\ Kept)'
      BY <2>2, <2>4, <3>1, <3>2 DEF Leave, WithoutStaging, RestoredRows, FlagsFollow, Restorable, Kept,
             EvidenceTypeOK
    <3>9. Cleared'
      BY <2>2 DEF Cleared, EvidenceTypeOK
    <3> QED
      BY <3>5, <3>6, <3>7, <3>8, <3>9
  <2> QED
    BY <1>18, <2>3, <2>4 DEF Fault
<1>19. ASSUME Crash PROVE EvidenceInv'
  <2>1. {queued', prepared', invoked', inSweep', cut', overtaken'} \subseteq BOOLEAN
    BY <1>19, Zenon DEF Crash, Leave, EvidenceTypeOK
  <2>2. {text', prevText', attempt', made', sent', edits', crashes', faults'} \subseteq Nat
    BY <1>19 DEF Crash, Leave, EvidenceTypeOK
  <2>3. EvidenceTypeOK'
    BY <1>19, <2>1, <2>2 DEF Crash, Leave, EvidenceTypeOK
  <2>4. FlagsFollow'
    BY <1>19 DEF Crash, Leave, FlagsFollow, Terminal
  <2>5. (NeverMixed /\ Staged)'
    BY <1>19 DEF Crash, Leave, NeverMixed, Staged
  <2>6. (Restorable /\ Kept)'
    BY <1>19 DEF Crash, Leave, FlagsFollow, Restorable, Kept, EvidenceTypeOK
  <2>7. Cleared'
    BY <1>19 DEF Crash, Leave, Cleared, FlagsFollow, EvidenceTypeOK, Terminal
  <2> QED
    BY <2>3, <2>4, <2>5, <2>6, <2>7
<1>20. ASSUME Reap PROVE EvidenceInv'
  <2>1. (EvidenceTypeOK /\ FlagsFollow)'
    BY <1>20 DEF Reap, WithoutStaging, EvidenceTypeOK, FlagsFollow, Row, Terminal
  <2>2. (NeverMixed /\ Staged)'
    BY <1>20 DEF Reap, WithoutStaging, EvidenceTypeOK, FlagsFollow, NeverMixed, Staged, Restorable
  <2>3. (Restorable /\ Kept)'
    BY <1>20 DEF Reap, WithoutStaging, EvidenceTypeOK, FlagsFollow, NeverMixed, Staged, Restorable, Kept
  <2>4. Cleared'
    BY <1>20 DEF Reap, WithoutStaging, EvidenceTypeOK, FlagsFollow, Staged, Cleared, Terminal
  <2> QED
    BY <2>1, <2>2, <2>3, <2>4
<1>22. ASSUME Sweep PROVE EvidenceInv'
  <2>1. (EvidenceTypeOK /\ FlagsFollow)'
    BY <1>22 DEF Sweep, EvidenceTypeOK, FlagsFollow, Row, Terminal
  <2>2. (NeverMixed /\ Staged)'
    BY <1>22 DEF Sweep, EvidenceTypeOK, FlagsFollow, NeverMixed, Staged, Restorable
  <2>3. (Restorable /\ Kept)'
    BY <1>22 DEF Sweep, EvidenceTypeOK, FlagsFollow, NeverMixed, Staged, Restorable, Kept
  <2>4. Cleared'
    BY <1>22 DEF Sweep, EvidenceTypeOK, FlagsFollow, Staged, Cleared, Terminal
  <2> QED
    BY <2>1, <2>2, <2>3, <2>4
<1>23. ASSUME StartFails PROVE EvidenceInv'
  <2>1. (EvidenceTypeOK /\ FlagsFollow)'
    BY <1>23 DEF StartFails, WithoutStaging, Raise, EvidenceTypeOK, FlagsFollow, Row, Terminal
  <2>2. (NeverMixed /\ Staged)'
    BY <1>23 DEF StartFails, WithoutStaging, Raise, EvidenceTypeOK, FlagsFollow, NeverMixed, Staged, Restorable
  <2>3. (Restorable /\ Kept)'
    BY <1>23 DEF StartFails, WithoutStaging, Raise, EvidenceTypeOK, FlagsFollow, NeverMixed, Staged, Restorable, Kept
  <2>4. Cleared'
    BY <1>23 DEF StartFails, WithoutStaging, Raise, EvidenceTypeOK, FlagsFollow, Staged, Cleared, Terminal
  <2> QED
    BY <2>1, <2>2, <2>3, <2>4
<1>24. ASSUME RollbackAnswerLost PROVE EvidenceInv'
  <2>1. (EvidenceTypeOK /\ FlagsFollow)'
    BY <1>24 DEF RollbackAnswerLost, RestoredRows, Raise, CallError, EvidenceTypeOK, FlagsFollow, Row, Terminal
  <2>2. (NeverMixed /\ Staged)'
    BY <1>24 DEF RollbackAnswerLost, RestoredRows, Raise, CallError, EvidenceTypeOK, FlagsFollow, NeverMixed, Staged, Restorable
  <2>3. (Restorable /\ Kept)'
    BY <1>24 DEF RollbackAnswerLost, RestoredRows, Raise, CallError, EvidenceTypeOK, FlagsFollow, NeverMixed, Staged, Restorable, Kept
  <2>4. Cleared'
    BY <1>24 DEF RollbackAnswerLost, RestoredRows, Raise, CallError, EvidenceTypeOK, FlagsFollow, Staged, Cleared, Terminal
  <2> QED
    BY <2>1, <2>2, <2>3, <2>4
<1>21. CASE UNCHANGED evidenceVars
  BY <1>21 DEF evidenceVars, EvidenceTypeOK, FlagsFollow, NeverMixed, Staged, Restorable, Kept,
         Cleared, Terminal
<1> QED
  BY <1>1, <1>2, <1>3, <1>4, <1>5, <1>6, <1>7, <1>8, <1>9, <1>10, <1>11, <1>12, <1>13, <1>14, <1>15,
         <1>16, <1>17, <1>18, <1>19, <1>20, <1>21, <1>22, <1>23, <1>24 DEF EvidenceNext

-----------------------------------------------------------------------------
\* The rows, flags and phases of a run's evidence satisfy the invariant throughout
\* (processor.ts, from the pickup to the outcome).
THEOREM EvidenceInvariance == EvidenceSpec => []EvidenceInv
BY EvidenceStart, EvidenceStep, PTL DEF EvidenceSpec

\* What a user reads after the end is what the agent was last given, and rows and
\* text never come from two attempts, whatever is cut off or rejected where
\* (processor.ts:252, 269, 509-511).
THEOREM EvidenceIsOfRequest == EvidenceSpec => []EvidenceMatchesRequest
<1>1. EvidenceInv => EvidenceMatchesRequest
  BY DEF EvidenceInv, EvidenceMatchesRequest, FlagsFollow, Kept, Unasked
<1> QED
  BY <1>1, EvidenceInvariance, PTL

\* Unless a call was rejected, no path to the end leaves hidden rows behind
\* (clearPreAgentExtraction and the cleanups of a cancel, a start and the reaper).
THEOREM StagingIsRemoved == EvidenceSpec => []StagingRemoved
<1>1. EvidenceInv => StagingRemoved
  BY DEF EvidenceInv, StagingRemoved, Cleared
<1> QED
  BY <1>1, EvidenceInvariance, PTL

-----------------------------------------------------------------------------
(***************************************************************************)
(* Labels: OneDefaultLabel for any labels, projects, requests in progress  *)
(* and bound of retries. A transaction that was not spoiled has seen every *)
(* default there is: only its own commit adds one, and that spoils the     *)
(* others. A label that is new is not the default.                         *)
(***************************************************************************)

SawDefaults(h) == h.op = "commit" /\ ~h.stale => Defaults \subseteq h.seen
NewIsPlain == \A l \in LabelIds : Unlabelled(l) => ~labels[l].isDefault
LabelInv ==
    /\ LabelTypeOK
    /\ OneDefaultLabel
    /\ NewIsPlain
    /\ \A e \in Editors : SawDefaults(edit[e])

-----------------------------------------------------------------------------
LEMMA NoEditIsEdit == NoEdit \in Edit /\ NoEdit.op = "idle" /\ NoEdit.seen = {}
BY LabelAssumption DEF NoEdit, Edit, EditOps

LEMMA LabelStart == LabelInit => LabelInv
<1> SUFFICES ASSUME LabelInit PROVE LabelInv
  OBVIOUS
<1>1. LabelTypeOK
  BY NoEditIsEdit, LabelAssumption DEF LabelInit, LabelTypeOK, LabelRow, States, Mark
<1>2. Defaults = {} /\ NewIsPlain
  BY DEF LabelInit, Defaults, LiveLabels, NewIsPlain
<1>3. \A e \in Editors : SawDefaults(edit[e])
  BY <1>2 DEF SawDefaults
<1> QED
  BY <1>1, <1>2, <1>3 DEF LabelInv, OneDefaultLabel

\* A request that starts, moves on or ends where no label changes.
LEMMA Moves ==
    ASSUME LabelInv, UNCHANGED labels, marks' \in [Projects -> Mark], labelEdits' \in 0..MaxLabelEdits,
           NEW e \in Editors, NEW h \in Edit, SawDefaults(h), edit' = [edit EXCEPT ![e] = h]
    PROVE  LabelInv'
<1>1. LabelTypeOK /\ Defaults' = Defaults
  BY DEF LabelInv, Defaults, LiveLabels
<1>2. LabelTypeOK'
  BY <1>1 DEF LabelTypeOK
<1>3. OneDefaultLabel' /\ NewIsPlain'
  BY <1>1 DEF LabelInv, OneDefaultLabel, NewIsPlain, Unlabelled
<1>4. \A o \in Editors : SawDefaults(edit[o])'
  <2> SUFFICES ASSUME NEW o \in Editors PROVE SawDefaults(edit'[o])
    BY <1>1 DEF SawDefaults
  <2>1. CASE o = e
    BY <2>1, <1>1 DEF LabelTypeOK
  <2>2. CASE o # e
    BY <2>2, <1>1 DEF LabelTypeOK, LabelInv
  <2> QED
    BY <2>1, <2>2
<1> QED
  BY <1>2, <1>3, <1>4 DEF LabelInv

\* A write of labels that makes none the default, with the requests it spoils.
LEMMA Writes ==
    ASSUME LabelInv, labels' \in [LabelIds -> LabelRow], marks' \in [Projects -> Mark],
           labelEdits' \in 0..MaxLabelEdits, NewIsPlain', Defaults' \subseteq Defaults,
           edit' \in [Editors -> Edit],
           \A o \in Editors : edit'[o].op = "commit" /\ ~edit'[o].stale =>
                edit[o].op = "commit" /\ ~edit[o].stale /\ edit'[o].seen = edit[o].seen
    PROVE  LabelInv'
<1>1. LabelTypeOK'
  BY DEF LabelInv, LabelTypeOK
<1>2. OneDefaultLabel'
  BY DEF LabelInv, OneDefaultLabel
<1>3. \A o \in Editors : SawDefaults(edit[o])'
  BY DEF LabelInv, SawDefaults
<1> QED
  BY <1>1, <1>2, <1>3 DEF LabelInv

\* What a write leaves of the requests: its own is over, others may be spoiled.
LEMMA Spoils ==
    ASSUME LabelInv, NEW e \in Editors, NEW W, edit' = Spoil(LeaveEdit(e), W)
    PROVE  /\ edit' \in [Editors -> Edit]
           /\ \A o \in Editors : edit'[o].op = "commit" /\ ~edit'[o].stale =>
                edit[o].op = "commit" /\ ~edit[o].stale /\ edit'[o].seen = edit[o].seen
<1> DEFINE h == LeaveEdit(e)
<1>1. h \in [Editors -> Edit] /\ h[e] = NoEdit /\ \A o \in Editors \ {e} : h[o] = edit[o]
  BY NoEditIsEdit DEF LabelInv, LabelTypeOK, LeaveEdit
<1> HIDE DEF h
<1>2. \A o \in Editors : edit'[o] \in {h[o], [h[o] EXCEPT !.stale = TRUE]}
  BY DEF Spoil, h
<1>3. ASSUME NEW r \in Edit
      PROVE  [r EXCEPT !.stale = TRUE] \in Edit /\ [r EXCEPT !.stale = TRUE].op = r.op /\ [r EXCEPT !.stale = TRUE].stale
  BY DEF Edit
<1>4. edit' \in [Editors -> Edit]
  BY <1>1, <1>2, <1>3 DEF Spoil, h
<1>5. ASSUME NEW o \in Editors, edit'[o].op = "commit", ~edit'[o].stale
      PROVE  edit[o].op = "commit" /\ ~edit[o].stale /\ edit'[o].seen = edit[o].seen
  <2>1. edit'[o] = h[o]
    <3>1. h[o] \in Edit /\ edit'[o] \in {h[o], [h[o] EXCEPT !.stale = TRUE]}
      BY <1>1, <1>2
    <3>2. edit'[o] # [h[o] EXCEPT !.stale = TRUE]
      BY <1>3, <1>5, <3>1
    <3> QED
      BY <3>1, <3>2
  <2>2. o # e
    BY <2>1, <1>1, <1>5, NoEditIsEdit
  <2> QED
    BY <2>1, <2>2, <1>1, <1>5
<1> QED
  BY <1>4, <1>5

-----------------------------------------------------------------------------
LEMMA EntersSafely ==
    ASSUME LabelInv, NEW e \in Editors, NEW h \in Edit, h.op # "commit", Enter(e, h), UNCHANGED <<labels, marks>>
    PROVE  LabelInv'
<1>1. labelEdits' \in 0..MaxLabelEdits /\ marks' \in [Projects -> Mark]
  BY LabelAssumption DEF Enter, LabelInv, LabelTypeOK
<1>2. SawDefaults(h)
  BY DEF SawDefaults
<1> QED
  BY <1>1, <1>2, Moves DEF Enter

LEMMA LeavesSafely ==
    ASSUME LabelInv, NEW e \in Editors, edit' = LeaveEdit(e), marks' \in [Projects -> Mark],
           UNCHANGED <<labels, labelEdits>>
    PROVE  LabelInv'
<1>1. SawDefaults(NoEdit)
  BY NoEditIsEdit DEF SawDefaults
<1> QED
  BY <1>1, NoEditIsEdit, Moves DEF LeaveEdit, LabelInv, LabelTypeOK

LEMMA SnapshotKeeps == ASSUME LabelInv, NEW e \in Editors, Snapshot(e) PROVE LabelInv'
<1> DEFINE h == [edit[e] EXCEPT !.op = "commit", !.seen = Defaults, !.stale = FALSE]
<1>1. LabelTypeOK /\ edit[e] \in Edit
  BY DEF LabelInv, LabelTypeOK
<1>2. Defaults \subseteq LabelIds
  BY DEF Defaults, LiveLabels
<1>3. h \in Edit /\ h.seen = Defaults
  BY <1>1, <1>2 DEF Edit, EditOps
<1>4. edit' = [edit EXCEPT ![e] = h]
  BY <1>1 DEF Snapshot, LabelTypeOK
<1>5. SawDefaults(h)
  BY <1>3 DEF SawDefaults
<1> HIDE DEF h
<1> QED
  BY <1>1, <1>3, <1>4, <1>5, Moves DEF Snapshot, LabelTypeOK

\* The heart of it: the defaults a commit does not clear are none.
LEMMA CommitKeeps == ASSUME LabelInv, NEW e \in Editors, CommitDefault(e) PROVE LabelInv'
<1> DEFINE l == edit[e].label
           seen == edit[e].seen
<1>1. LabelTypeOK /\ edit[e] \in Edit /\ Defaults \subseteq seen
  BY DEF LabelInv, LabelTypeOK, SawDefaults, CommitDefault, In, Serializable
<1>2. labels' = [x \in LabelIds |-> IF x = l THEN [state |-> "live", isDefault |-> TRUE]
                                   ELSE IF x \in seen THEN [labels[x] EXCEPT !.isDefault = FALSE]
                                   ELSE labels[x]]
  BY DEF CommitDefault
<1>3. labels' \in [LabelIds -> LabelRow]
  <2>1. ASSUME NEW x \in LabelIds PROVE labels'[x] \in LabelRow
    BY <1>1, <1>2 DEF LabelTypeOK, LabelRow, States
  <2> QED
    BY <1>2, <2>1
<1>4. \A x \in LabelIds \ {l} : labels'[x].isDefault => ~(labels'[x].state = "live") /\ labels'[x] = labels[x]
  BY <1>1, <1>2 DEF LabelTypeOK, LabelRow, Defaults, LiveLabels
<1>5. Defaults' \subseteq {l}
  BY <1>4 DEF Defaults, LiveLabels
<1>6. OneDefaultLabel'
  BY <1>5 DEF OneDefaultLabel
<1>7. NewIsPlain'
  BY <1>1, <1>2 DEF LabelInv, LabelTypeOK, LabelRow, NewIsPlain, Unlabelled
<1>8. edit' = [o \in Editors |-> IF o = e THEN NoEdit
                                ELSE IF In(o, "commit") THEN [edit[o] EXCEPT !.stale = TRUE] ELSE edit[o]]
  BY DEF CommitDefault
<1>9. ASSUME NEW o \in Editors PROVE edit'[o] \in Edit /\ (edit'[o].op = "commit" => edit'[o].stale)
  <2>1. CASE o = e
    BY <2>1, <1>8, NoEditIsEdit
  <2>2. CASE o # e /\ In(o, "commit")
    <3>1. edit'[o] = [edit[o] EXCEPT !.stale = TRUE] /\ edit[o] \in Edit
      BY <2>2, <1>8, <1>1 DEF LabelTypeOK
    <3> QED
      BY <3>1 DEF Edit
  <2>3. CASE o # e /\ ~In(o, "commit")
    BY <2>3, <1>8, <1>1 DEF LabelTypeOK, In
  <2> QED
    BY <2>1, <2>2, <2>3
<1>10. edit' \in [Editors -> Edit] /\ \A o \in Editors : SawDefaults(edit[o])'
  BY <1>8, <1>9 DEF SawDefaults
<1>11. LabelTypeOK'
  BY <1>1, <1>3, <1>10 DEF CommitDefault, LabelTypeOK
<1> QED
  BY <1>6, <1>7, <1>10, <1>11 DEF LabelInv

LEMMA AbortKeeps == ASSUME LabelInv, NEW e \in Editors, AbortDefault(e) PROVE LabelInv'
<1> DEFINE h == [edit[e] EXCEPT !.op = "begin", !.aborts = @ + 1]
<1>1. LabelTypeOK /\ edit[e] \in Edit
  BY DEF LabelInv, LabelTypeOK
<1>2. CASE edit[e].aborts + 1 < MaxAborts
  <2>1. edit' = [edit EXCEPT ![e] = h]
    BY <1>1, <1>2 DEF AbortDefault, LabelTypeOK
  <2>2. h \in Edit /\ h.op = "begin"
    <3>1. edit[e].aborts + 1 \in 0..MaxAborts
      BY <1>1, <1>2, LabelAssumption DEF Edit
    <3> QED
      BY <1>1, <3>1 DEF Edit, EditOps
  <2>3. SawDefaults(h)
    BY <2>2 DEF SawDefaults
  <2> HIDE DEF h
  <2> QED
    BY <1>1, <2>1, <2>2, <2>3, Moves DEF AbortDefault, LabelTypeOK
<1>3. CASE ~(edit[e].aborts + 1 < MaxAborts)
  BY <1>1, <1>3, LeavesSafely DEF AbortDefault, LabelTypeOK
<1> QED
  BY <1>2, <1>3

LEMMA AddKeeps == ASSUME LabelInv, NEW l \in LabelIds, AddLabel(l) PROVE LabelInv'
<1>1. LabelTypeOK /\ NewIsPlain
  BY DEF LabelInv
<1>2. labels' = [labels EXCEPT ![l].state = "live"] /\ UNCHANGED <<marks, edit>> /\ ~labels[l].isDefault
  BY <1>1 DEF AddLabel, NewIsPlain
<1>3. labels' \in [LabelIds -> LabelRow] /\ NewIsPlain'
  BY <1>1, <1>2 DEF LabelTypeOK, LabelRow, States, NewIsPlain, Unlabelled
<1>4. Defaults' \subseteq Defaults
  BY <1>1, <1>2 DEF LabelTypeOK, LabelRow, Defaults, LiveLabels
<1>5. labelEdits' \in 0..MaxLabelEdits
  BY <1>1, LabelAssumption DEF AddLabel, LabelTypeOK
<1> QED
  BY <1>1, <1>2, <1>3, <1>4, <1>5, Writes DEF LabelTypeOK

LEMMA TextKeeps == ASSUME LabelInv, NEW e \in Editors, WriteText(e) PROVE LabelInv'
<1> DEFINE l == edit[e].label
<1>1. LabelTypeOK /\ NewIsPlain
  BY DEF LabelInv
<1>2. CASE l \in LiveLabels
  <2>1. PICK d \in {FALSE, labels[l].isDefault} : labels' = [labels EXCEPT ![l].isDefault = d]
    BY <1>2 DEF WriteText
  <2>2. l \in LabelIds /\ labels[l].state = "live" /\ d \in BOOLEAN /\ (d => labels[l].isDefault)
    BY <1>1, <1>2 DEF LiveLabels, LabelTypeOK, LabelRow
  <2>3. edit' = Spoil(LeaveEdit(e), {l}) /\ UNCHANGED <<marks, labelEdits>>
    BY <1>2 DEF WriteText
  <2>4. labels' \in [LabelIds -> LabelRow] /\ NewIsPlain'
    BY <1>1, <2>1, <2>2 DEF LabelTypeOK, LabelRow, NewIsPlain, Unlabelled
  <2>5. Defaults' \subseteq Defaults
    BY <1>1, <2>1, <2>2 DEF LabelTypeOK, LabelRow, Defaults, LiveLabels
  <2> HIDE DEF l
  <2> QED
    BY <1>1, <2>3, <2>4, <2>5, Spoils, Writes DEF LabelTypeOK
<1>3. CASE l \notin LiveLabels
  BY <1>1, <1>3, LeavesSafely DEF WriteText, LabelTypeOK
<1> QED
  BY <1>2, <1>3

LEMMA RetireKeeps == ASSUME LabelInv, NEW e \in Editors, Retire(e) PROVE LabelInv'
<1> DEFINE l == edit[e].label
<1>1. LabelTypeOK /\ NewIsPlain
  BY DEF LabelInv
<1>2. CASE l \in LiveLabels
  <2>1. labels' = [labels EXCEPT ![l] = [state |-> "deleted", isDefault |-> FALSE]] /\ l \in LabelIds
    BY <1>2 DEF Retire, LiveLabels
  <2>2. edit' = Spoil(LeaveEdit(e), {l}) /\ UNCHANGED labelEdits
    BY <1>2 DEF Retire
  <2>3. marks' \in [Projects -> Mark]
    BY <1>1, <1>2 DEF Retire, LabelTypeOK, Mark
  <2>4. labels' \in [LabelIds -> LabelRow] /\ NewIsPlain'
    BY <1>1, <2>1 DEF LabelTypeOK, LabelRow, States, NewIsPlain, Unlabelled
  <2>5. Defaults' \subseteq Defaults
    BY <1>1, <2>1 DEF LabelTypeOK, LabelRow, Defaults, LiveLabels
  <2> HIDE DEF l
  <2> QED
    BY <1>1, <2>2, <2>3, <2>4, <2>5, Spoils, Writes DEF LabelTypeOK
<1>3. CASE l \notin LiveLabels
  BY <1>1, <1>3, LeavesSafely DEF Retire, LabelTypeOK
<1> QED
  BY <1>2, <1>3

\* Projects are marked with labels and mark none of them.
LEMMA ProjectsKeep ==
    ASSUME LabelInv, \/ \E e \in Editors : WriteProject(e)
                     \/ \E p \in Projects : DeleteProject(p) \/ \E l \in LabelIds \cup {NoLabel} : MarkProject(p, l)
    PROVE  LabelInv'
<1>1. LabelTypeOK
  BY DEF LabelInv
<1>2. ASSUME NEW e \in Editors, WriteProject(e) PROVE LabelInv'
  <2>1. edit[e].label \in LabelIds \cup {NoLabel}
    BY <1>1 DEF LabelTypeOK, Edit
  <2>2. marks' \in [Projects -> Mark]
    BY <1>1, <1>2, <2>1 DEF WriteProject, LabelTypeOK, Mark, States
  <2> QED
    BY <1>2, <2>2, LeavesSafely DEF WriteProject
<1>3. ASSUME UNCHANGED <<labels, edit>>, marks' \in [Projects -> Mark], labelEdits' \in 0..MaxLabelEdits
      PROVE  LabelInv'
  <2>1. NewIsPlain' /\ Defaults' = Defaults
    BY <1>3 DEF LabelInv, NewIsPlain, Unlabelled, Defaults, LiveLabels
  <2> QED
    BY <1>1, <1>3, <2>1, Writes DEF LabelTypeOK
<1>4. ASSUME NEW p \in Projects, DeleteProject(p) PROVE LabelInv'
  BY <1>1, <1>3, <1>4 DEF DeleteProject, LabelTypeOK, Mark, States
<1>5. ASSUME NEW p \in Projects, NEW l \in LabelIds \cup {NoLabel}, MarkProject(p, l) PROVE LabelInv'
  BY <1>1, <1>3, <1>5, LabelAssumption DEF MarkProject, LabelTypeOK, Mark, States
<1> QED
  BY <1>2, <1>4, <1>5

LEMMA LabelStep == LabelInv /\ [LabelNext]_labelVars => LabelInv'
<1> SUFFICES ASSUME LabelInv, [LabelNext]_labelVars PROVE LabelInv'
  OBVIOUS
<1>1. ASSUME NEW e \in Editors, NEW l \in LabelIds, BeginDefault(e, l) PROVE LabelInv'
  <2>1. ASSUME NEW f \in BOOLEAN PROVE [NoEdit EXCEPT !.op = "begin", !.label = l, !.fresh = f] \in Edit
    BY NoEditIsEdit DEF Edit, EditOps
  <2> DEFINE h == [NoEdit EXCEPT !.op = "begin", !.label = l, !.fresh = Unlabelled(l)]
  <2>2. Unlabelled(l) \in BOOLEAN
    BY DEF Unlabelled
  <2>3. h \in Edit
    BY <2>1, <2>2
  <2>4. h.op = "begin"
    BY DEF NoEdit
  <2>5. Enter(e, h) /\ UNCHANGED <<labels, marks>>
    BY <1>1 DEF BeginDefault
  <2> HIDE DEF h
  <2> QED
    BY <2>3, <2>4, <2>5, EntersSafely
<1>2. ASSUME NEW e \in Editors, NEW l \in LabelIds, BeginText(e, l) PROVE LabelInv'
  <2> DEFINE h == [NoEdit EXCEPT !.op = "text", !.label = l]
  <2>1. h \in Edit /\ h.op # "commit"
    <3>1. h \in Edit
      BY NoEditIsEdit DEF Edit, EditOps
    <3>2. h.op = "text"
      BY DEF NoEdit
    <3> QED
      BY <3>1, <3>2
  <2>2. Enter(e, h) /\ UNCHANGED <<labels, marks>>
    BY <1>2 DEF BeginText
  <2> HIDE DEF h
  <2> QED
    BY <2>1, <2>2, EntersSafely
<1>3. ASSUME NEW e \in Editors, NEW l \in LabelIds, BeginRetire(e, l) PROVE LabelInv'
  <2> DEFINE h == [NoEdit EXCEPT !.op = "retire", !.label = l]
  <2>1. h \in Edit /\ h.op # "commit"
    <3>1. h \in Edit
      BY NoEditIsEdit DEF Edit, EditOps
    <3>2. h.op = "retire"
      BY DEF NoEdit
    <3> QED
      BY <3>1, <3>2
  <2>2. Enter(e, h) /\ UNCHANGED <<labels, marks>>
    BY <1>3 DEF BeginRetire
  <2> HIDE DEF h
  <2> QED
    BY <2>1, <2>2, EntersSafely
<1>4. ASSUME NEW e \in Editors, NEW p \in Projects, BeginProject(e, p) PROVE LabelInv'
  <2>1. PICK l \in IF Defaults = {} THEN {NoLabel} ELSE Defaults :
            Enter(e, [NoEdit EXCEPT !.op = "create", !.label = l, !.project = p])
    BY <1>4 DEF BeginProject
  <2>2. l \in LabelIds \cup {NoLabel}
    BY <2>1 DEF Defaults, LiveLabels
  <2> DEFINE h == [NoEdit EXCEPT !.op = "create", !.label = l, !.project = p]
  <2>3. h \in Edit /\ h.op # "commit"
    <3>1. h \in Edit
      BY <2>2, NoEditIsEdit DEF Edit, EditOps
    <3>2. h.op = "create"
      BY DEF NoEdit
    <3> QED
      BY <3>1, <3>2
  <2>4. Enter(e, h) /\ UNCHANGED <<labels, marks>>
    BY <1>4, <2>1 DEF BeginProject
  <2> HIDE DEF h
  <2> QED
    BY <2>3, <2>4, EntersSafely
<1>5. ASSUME NEW e \in Editors, LoseTarget(e) PROVE LabelInv'
  BY <1>5, LeavesSafely DEF LoseTarget, LabelInv, LabelTypeOK
<1>6. CASE UNCHANGED labelVars
  BY <1>6 DEF labelVars, LabelInv, LabelTypeOK, OneDefaultLabel, NewIsPlain, Unlabelled, SawDefaults, Defaults, LiveLabels
<1> QED
  BY <1>1, <1>2, <1>3, <1>4, <1>5, <1>6, SnapshotKeeps, CommitKeeps, AbortKeeps, AddKeeps, TextKeeps, RetireKeeps,
     ProjectsKeep DEF LabelNext

\* However many requests make labels the default at once, at most one label is
\* (classificationLabels.ts, withSerializableRetry).
THEOREM OneDefaultKept == LabelSpec => []OneDefaultLabel
<1>1. LabelInv => OneDefaultLabel
  BY DEF LabelInv
<1> QED
  BY <1>1, LabelStart, LabelStep, PTL DEF LabelSpec

-----------------------------------------------------------------------------
(***************************************************************************)
(* Attachments: QuotaKept for any files and sizes. Every upload in         *)
(* progress was counted against the room that was left, so all that are on *)
(* their way fit together with what is there, unless two counted at once.  *)
(***************************************************************************)

\* What files weigh is a sum over their ids.
LEMMA BytesIsSum == \A S : Bytes(S) = SumOver(SizeOf, S)
BY DEF Bytes, SumOver

LEMMA BytesOfNone == Bytes({}) = 0
BY BytesIsSum, FS_EmptySet, SumOverUnfold

LEMMA BytesNat ==
    ASSUME NEW S, IsFiniteSet(S), S \subseteq FileIds
    PROVE  Bytes(S) \in Nat
BY BytesIsSum, QuotaAssumption, SumOverNat

LEMMA BytesWithout ==
    ASSUME NEW S, IsFiniteSet(S), S \subseteq FileIds, NEW f \in S
    PROVE  Bytes(S) = SizeOf[f] + Bytes(S \ {f})
BY BytesIsSum, QuotaAssumption, SumOverWithout

-----------------------------------------------------------------------------
\* The lock belongs to the transaction that checks and inserts.
LockHeld == \A u \in Uploads : upload[u].op \in {"check", "insert"} => lock = u

\* What it found holds until it inserts.
StillFits ==
    \A u \in Uploads : upload[u].op = "insert" =>
        Cardinality(files) < MaxFiles /\ Bytes(files) + SizeOf[upload[u].file] <= MaxBytes

OfFiles == \A u \in Uploads : upload[u].op # "idle" => upload[u].file \in offered

QuotaInv ==
    /\ QuotaTypeOK
    /\ IsFiniteSet(files)
    /\ LockHeld
    /\ OfFiles
    /\ StillFits
    /\ QuotaKept

LEMMA QuotaStart == QuotaInit => QuotaInv
<1> SUFFICES ASSUME QuotaInit PROVE QuotaInv
  OBVIOUS
<1>1. QuotaTypeOK
  BY DEF QuotaInit, QuotaTypeOK, NoUpload, UploadOps
<1>2. IsFiniteSet(files) /\ Cardinality(files) = 0 /\ Bytes(files) = 0
  BY FS_EmptySet, BytesOfNone DEF QuotaInit
<1>3. LockHeld /\ OfFiles /\ StillFits
  BY DEF QuotaInit, LockHeld, OfFiles, StillFits, NoUpload
<1> QED
  BY <1>1, <1>2, <1>3, QuotaAssumption DEF QuotaInv, QuotaKept

\* Steps that leave the attachments as they are: one request moves on or ends.
LEMMA RequestMoves ==
    ASSUME QuotaInv, UNCHANGED files, offered \subseteq offered', offered' \subseteq FileIds,
           NEW u \in Uploads, NEW r \in [op : UploadOps, file : FileIds \cup {Nobody}],
           upload' = [upload EXCEPT ![u] = r],
           lock' \in Uploads \cup {Nobody}, \A v \in Uploads : v # u /\ lock = v => lock' = v,
           r.op \in {"check", "insert"} => lock' = u,
           r.op # "idle" => r.file \in offered',
           r.op = "insert" => Cardinality(files) < MaxFiles /\ Bytes(files) + SizeOf[r.file] <= MaxBytes
    PROVE  QuotaInv'
<1>1. upload \in [Uploads -> [op : UploadOps, file : FileIds \cup {Nobody}]]
  BY DEF QuotaInv, QuotaTypeOK
<1>2. upload'[u] = r /\ \A v \in Uploads \ {u} : upload'[v] = upload[v]
  BY <1>1
<1>3. QuotaTypeOK'
  BY <1>1 DEF QuotaInv, QuotaTypeOK
<1>4. LockHeld' /\ OfFiles'
  BY <1>2 DEF QuotaInv, LockHeld, OfFiles
<1>5. Bytes(files)' = Bytes(files)
  OBVIOUS
<1>6. StillFits' /\ QuotaKept' /\ IsFiniteSet(files')
  BY <1>2, <1>5 DEF QuotaInv, StillFits, QuotaKept
<1> QED
  BY <1>3, <1>4, <1>6 DEF QuotaInv

\* A step that ends a request and leaves no more attachments than there were,
\* or adds its own where no other transaction has the lock.
LEMMA RequestWrites ==
    ASSUME QuotaInv, UNCHANGED offered, files' \subseteq offered, IsFiniteSet(files'),
           NEW u \in Uploads, UploadEnds(u),
           lock' \in Uploads \cup {Nobody}, \A v \in Uploads : v # u /\ lock = v => lock' = v,
           QuotaKept',
           \/ lock = u
           \/ Cardinality(files') <= Cardinality(files) /\ Bytes(files') <= Bytes(files)
    PROVE  QuotaInv'
<1>1. upload \in [Uploads -> [op : UploadOps, file : FileIds \cup {Nobody}]]
  BY DEF QuotaInv, QuotaTypeOK
<1>2. upload'[u] = NoUpload /\ \A v \in Uploads \ {u} : upload'[v] = upload[v]
  BY <1>1 DEF UploadEnds
<1>3. QuotaTypeOK'
  BY <1>1 DEF QuotaInv, QuotaTypeOK, UploadEnds, NoUpload, UploadOps
<1>4. LockHeld' /\ OfFiles'
  BY <1>2 DEF QuotaInv, LockHeld, OfFiles, NoUpload
<1>5. StillFits'
  <2> SUFFICES ASSUME NEW v \in Uploads, upload'[v].op = "insert"
               PROVE  Cardinality(files') < MaxFiles /\ Bytes(files') + SizeOf[upload'[v].file] <= MaxBytes
    BY DEF StillFits
  <2>1. v # u /\ upload'[v] = upload[v] /\ lock = v
    BY <1>2 DEF NoUpload, QuotaInv, LockHeld
  <2>2. Cardinality(files) < MaxFiles /\ Bytes(files) + SizeOf[upload[v].file] <= MaxBytes
    BY <2>1 DEF QuotaInv, StillFits
  <2>3. Cardinality(files') <= Cardinality(files) /\ Bytes(files') <= Bytes(files)
    BY <2>1
  <2>4. /\ Cardinality(files') \in Nat /\ Cardinality(files) \in Nat
        /\ Bytes(files') \in Nat /\ Bytes(files) \in Nat
    <3>1. files \subseteq FileIds /\ files' \subseteq FileIds /\ IsFiniteSet(files)
      BY DEF QuotaInv, QuotaTypeOK
    <3> QED
      BY <3>1, FS_CardinalityType, BytesNat
  <2>5. SizeOf[upload[v].file] \in Nat
    BY <2>1, QuotaAssumption DEF QuotaInv, QuotaTypeOK, OfFiles, NoUpload
  <2> QED
    BY <2>1, <2>2, <2>3, <2>4, <2>5, QuotaAssumption
<1> QED
  BY <1>3, <1>4, <1>5 DEF QuotaInv

LEMMA QuotaStep == QuotaInv /\ [QuotaNext]_quotaVars => QuotaInv'
<1> SUFFICES ASSUME QuotaInv, [QuotaNext]_quotaVars PROVE QuotaInv'
  OBVIOUS
<1> USE DEF IsAt
<1>1. /\ upload \in [Uploads -> [op : UploadOps, file : FileIds \cup {Nobody}]]
      /\ lock \in Uploads \cup {Nobody}
      /\ files \subseteq offered /\ offered \subseteq FileIds /\ IsFiniteSet(files)
  BY DEF QuotaInv, QuotaTypeOK
<1>2. Cardinality(files) \in Nat /\ Bytes(files) \in Nat
  BY <1>1, FS_CardinalityType, BytesNat
<1>3. NoUpload \in [op : UploadOps, file : FileIds \cup {Nobody}] /\ NoUpload.op = "idle"
  BY DEF NoUpload, UploadOps
<1>4. ASSUME NEW u \in Uploads, NEW op \in UploadOps, Goto(u, op)
      PROVE  \E r \in [op : UploadOps, file : FileIds \cup {Nobody}] :
                 upload' = [upload EXCEPT ![u] = r] /\ r.op = op /\ r.file = upload[u].file
  <2>1. [upload[u] EXCEPT !.op = op] \in [op : UploadOps, file : FileIds \cup {Nobody}]
    BY <1>1
  <2>2. [upload[u] EXCEPT !.op = op].op = op /\ [upload[u] EXCEPT !.op = op].file = upload[u].file
    BY <1>1
  <2> QED
    BY <1>4, <2>1, <2>2 DEF Goto
<1>5. ASSUME NEW u \in Uploads, TakeLock(u) PROVE QuotaInv'
  <2>1. "check" \in UploadOps /\ Goto(u, "check") /\ upload[u].file \in offered
    BY <1>1, <1>5 DEF TakeLock, UploadOps, QuotaInv, OfFiles
  <2>2. PICK r \in [op : UploadOps, file : FileIds \cup {Nobody}] :
            upload' = [upload EXCEPT ![u] = r] /\ r.op = "check" /\ r.file = upload[u].file
    BY <2>1, <1>4
  <2> QED
    BY <1>1, <1>5, <2>1, <2>2, QuotaAssumption, RequestMoves DEF TakeLock
<1>6. ASSUME NEW u \in Uploads, Check(u) PROVE QuotaInv'
  <2>1. lock = u
    BY <1>6 DEF Check, QuotaInv, LockHeld
  <2>2. CASE Cardinality(files) >= MaxFiles \/ Bytes(files) + SizeOf[upload[u].file] > MaxBytes
    <3>1. UploadEnds(u) /\ Released(u) /\ UNCHANGED <<files, offered>>
      BY <1>6, <2>2 DEF Check
    <3> QED
      BY <1>1, <1>3, <2>1, <3>1, RequestMoves DEF UploadEnds, Released
  <2>3. CASE ~ (Cardinality(files) >= MaxFiles \/ Bytes(files) + SizeOf[upload[u].file] > MaxBytes)
    <3>1. "insert" \in UploadOps /\ Goto(u, "insert") /\ upload[u].file \in offered
      BY <1>1, <1>6, <2>3 DEF Check, UploadOps, QuotaInv, OfFiles
    <3>2. UNCHANGED <<files, offered, lock>>
      BY <1>6, <2>3 DEF Check
    <3>3. PICK r \in [op : UploadOps, file : FileIds \cup {Nobody}] :
              upload' = [upload EXCEPT ![u] = r] /\ r.op = "insert" /\ r.file = upload[u].file
      BY <3>1, <1>4
    <3>4. Cardinality(files) < MaxFiles /\ Bytes(files) + SizeOf[r.file] <= MaxBytes
      <4>1. SizeOf[upload[u].file] \in Nat
        BY <1>1, <3>1, QuotaAssumption
      <4> QED
        BY <1>2, <2>3, <3>3, <4>1, QuotaAssumption
    <3> QED
      BY <1>1, <2>1, <3>1, <3>2, <3>3, <3>4, RequestMoves
  <2> QED
    BY <2>2, <2>3
<1>7. ASSUME NEW u \in Uploads, Insert(u) PROVE QuotaInv'
  <2>1. lock = u /\ upload[u].file \in offered
    BY <1>7 DEF Insert, QuotaInv, LockHeld, OfFiles
  <2>2. Cardinality(files) < MaxFiles /\ Bytes(files) + SizeOf[upload[u].file] <= MaxBytes
    BY <1>7 DEF Insert, QuotaInv, StillFits
  <2>3. CASE files' = files
    BY <1>1, <1>3, <1>7, <2>1, <2>3, RequestMoves DEF Insert, UploadEnds, Released
  <2>4. CASE files' = files \cup {upload[u].file} /\ files' # files
    <3> DEFINE f == upload[u].file
    <3>1. f \notin files /\ f \in FileIds /\ f \in offered
      BY <1>1, <2>1, <2>4
    <3> HIDE DEF f
    <3>2. files' = files \cup {f} /\ files' \ {f} = files /\ files' \subseteq FileIds
      BY <1>1, <2>4, <3>1 DEF f
    <3>3. IsFiniteSet(files') /\ Cardinality(files') = Cardinality(files) + 1
      BY <1>1, <3>1, <3>2, FS_AddElement
    <3>4. Bytes(files') = SizeOf[f] + Bytes(files)
      BY <3>1, <3>2, <3>3, BytesWithout
    <3>5. Cardinality(files') <= MaxFiles /\ Bytes(files') <= MaxBytes
      BY <1>2, <2>2, <3>1, <3>3, <3>4, QuotaAssumption DEF f
    <3>6. QuotaKept'
      BY <3>5 DEF QuotaKept
    <3>7. UploadEnds(u) /\ Released(u) /\ UNCHANGED offered /\ files' \subseteq offered
      BY <1>1, <1>7, <3>1, <3>2 DEF Insert
    <3> QED
      BY <1>1, <2>1, <3>3, <3>6, <3>7, RequestWrites DEF Released
  <2> QED
    BY <1>7, <2>3, <2>4 DEF Insert
<1>8. ASSUME NEW u \in Uploads, Remove(u) PROVE QuotaInv'
  <2> DEFINE f == upload[u].file
  <2>1. files' = files \ {f} /\ UploadEnds(u) /\ UNCHANGED <<offered, lock>>
    BY <1>8 DEF Remove
  <2> HIDE DEF f
  <2>2. IsFiniteSet(files') /\ Cardinality(files') <= Cardinality(files) /\ Cardinality(files') \in Nat
    <3>1. /\ IsFiniteSet(files \ {f})
          /\ Cardinality(files \ {f}) = IF f \in files THEN Cardinality(files) - 1 ELSE Cardinality(files)
      BY <1>1, FS_RemoveElement
    <3>2. Cardinality(files \ {f}) \in Nat
      BY <3>1, FS_CardinalityType
    <3> QED
      BY <1>2, <2>1, <3>1, <3>2
  <2>3. Bytes(files') <= Bytes(files) /\ Bytes(files') \in Nat
    <3>1. Bytes(files') \in Nat
      BY <1>1, <2>1, <2>2, BytesNat
    <3>2. CASE f \in files
      <4>1. Bytes(files) = SizeOf[f] + Bytes(files') /\ SizeOf[f] \in Nat
        BY <1>1, <2>1, <3>2, BytesWithout, QuotaAssumption
      <4> QED
        BY <4>1, <3>1
    <3>3. CASE f \notin files
      <4>1. files' = files
        BY <2>1, <3>3
      <4> QED
        BY <4>1, <1>2
    <3> QED
      BY <3>1, <3>2, <3>3
  <2>4. Cardinality(files') <= MaxFiles /\ Bytes(files') <= MaxBytes
    BY <1>2, <2>2, <2>3, QuotaAssumption DEF QuotaInv, QuotaKept
  <2>5. QuotaKept'
    BY <2>4 DEF QuotaKept
  <2> QED
    BY <1>1, <2>1, <2>2, <2>3, <2>5, RequestWrites
<1>9. ASSUME NEW u \in Uploads, NEW f \in FileIds, BeginUpload(u, f) \/ BeginRemove(u, f) PROVE QuotaInv'
  <2> DEFINE op == IF BeginUpload(u, f) THEN "wait" ELSE "remove"
             r == [op |-> op, file |-> f]
  <2>1. /\ upload' = [upload EXCEPT ![u] = r]
        /\ offered \subseteq offered' /\ offered' \subseteq FileIds /\ f \in offered'
        /\ UNCHANGED <<files, lock>>
    BY <1>1, <1>9 DEF BeginUpload, BeginRemove
  <2>2. r \in [op : UploadOps, file : FileIds \cup {Nobody}] /\ r.op \in {"wait", "remove"} /\ r.file = f
    BY DEF UploadOps
  <2> HIDE DEF r
  <2> QED
    BY <1>1, <2>1, <2>2, RequestMoves
<1>10. CASE UNCHANGED quotaVars
  BY <1>10 DEF quotaVars, QuotaInv, QuotaTypeOK, LockHeld, OfFiles, StillFits, QuotaKept
<1> QED
  BY <1>5, <1>6, <1>7, <1>8, <1>9, <1>10 DEF QuotaNext

\* Uploads of one job that arrive together pass neither quota together, for any
\* sizes and limits and any number of requests (attachments.ts:93-98).
THEOREM QuotaIsKept == QuotaSpec => []QuotaKept
<1>1. QuotaInv => QuotaKept
  BY DEF QuotaInv
<1> QED
  BY <1>1, QuotaStart, QuotaStep, PTL DEF QuotaSpec

-----------------------------------------------------------------------------
(***************************************************************************)
(* Prompts: PinHonoured and CrowdedOut for any prompts, versions, jobs and *)
(* schedules. A handler that tries again lost a number to somebody who     *)
(* added a version, so a writer that gives up was crowded out that many    *)
(* times.                                                                  *)
(***************************************************************************)

\* What a handler holds, given the greatest versions L and the deleted prompts B:
\* each try so far cost it a version that somebody added, and the number it read
\* is no greater than what there is.
CallInv(k, L, B) ==
    /\ k.op \in {"read", "insert", "bury", "createJob", "moveJob"} => k.prompt \in Prompts
    /\ k.op \in {"createSched", "editSched"} => k.sched \in Schedules
    /\ k.op = "read" => k.prompt \in B \/ k.from + k.tries <= L[k.prompt]
    /\ k.op = "insert" => \/ k.prompt \in B
                          \/ k.from + k.tries <= k.read /\ k.read <= L[k.prompt]

BuriedGone == \A p \in buried : latest[p] = 0

\* Only the deletion of its prompt parts a pin from what was asked for.
PinsAsAsked == \A s \in Schedules :
    scheds[s].asked \in Versions /\ scheds[s].asked[1] \notin buried => scheds[s].pin = scheds[s].asked

CallsInv == \A c \in Callers : CallInv(call[c], latest, buried)

LibraryInv == LibraryTypeOK /\ BuriedGone /\ PinsAsAsked /\ CallsInv

-----------------------------------------------------------------------------
LEMMA NoCallIsCall == NoCall \in Call /\ NoCall.op = "idle" /\ NoCall.tries = 0
BY PromptAssumption DEF NoCall, Call, Ops

LEMMA UnusedIsSched == UnusedSched \in Sched /\ UnusedSched.asked = NoPin /\ NoPin \notin Versions
BY PromptAssumption DEF UnusedSched, Sched, Modes, Versions

LEMMA LibraryStart == LibraryInit => LibraryInv
<1> SUFFICES ASSUME LibraryInit PROVE LibraryInv
  OBVIOUS
<1>1. LibraryTypeOK
  BY NoCallIsCall, UnusedIsSched, PromptAssumption DEF LibraryInit, LibraryTypeOK
<1>2. BuriedGone
  BY DEF LibraryInit, BuriedGone
<1>3. PinsAsAsked
  BY UnusedIsSched DEF LibraryInit, PinsAsAsked
<1>4. CallsInv
  BY NoCallIsCall DEF LibraryInit, CallsInv, CallInv
<1> QED
  BY <1>1, <1>2, <1>3, <1>4 DEF LibraryInv

\* Versions are only added to a prompt that stays: what a handler holds stays true.
LEMMA CallStays ==
    ASSUME NEW L \in [Prompts -> Nat], NEW M \in [Prompts -> Nat], NEW B, NEW C, B \subseteq C,
           \A p \in Prompts \ C : L[p] <= M[p],
           NEW k \in Call, CallInv(k, L, B)
    PROVE  CallInv(k, M, C)
<1>1. k.from \in Nat /\ k.tries \in Nat /\ k.read \in Nat
  BY PromptAssumption DEF Call
<1>2. k.op \in {"read", "insert"} => k.prompt \in Prompts
  BY DEF CallInv
<1>3. k.op \in {"read", "insert"} /\ k.prompt \notin C =>
         L[k.prompt] \in Nat /\ M[k.prompt] \in Nat /\ L[k.prompt] <= M[k.prompt] /\ k.prompt \notin B
  BY <1>2
<1> QED
  BY <1>1, <1>3 DEF CallInv

\* One handler goes on to r, while others' calls stay true.
LEMMA CallsGoOn ==
    ASSUME LibraryInv, NEW c \in Callers, NEW r \in Call, call' = [call EXCEPT ![c] = r],
           latest' \in [Prompts -> 0..MaxVersions], buried \subseteq buried',
           \A p \in Prompts \ buried' : latest[p] <= latest'[p],
           CallInv(r, latest', buried')
    PROVE  call' \in [Callers -> Call] /\ CallsInv'
<1>1. call' \in [Callers -> Call] /\ call'[c] = r /\ \A d \in Callers \ {c} : call'[d] = call[d]
  BY DEF LibraryInv, LibraryTypeOK
<1>2. latest \in [Prompts -> Nat] /\ latest' \in [Prompts -> Nat]
  BY PromptAssumption DEF LibraryInv, LibraryTypeOK
<1>3. \A d \in Callers \ {c} : CallInv(call[d], latest', buried')
  BY <1>2, CallStays DEF LibraryInv, LibraryTypeOK, CallsInv
<1> QED
  BY <1>1, <1>3 DEF CallsInv

\* No handler moves, and the versions there are only grow.
LEMMA CallsStay ==
    ASSUME LibraryInv, call' = call,
           latest' \in [Prompts -> 0..MaxVersions], buried' = buried,
           \A p \in Prompts : latest[p] <= latest'[p]
    PROVE  call' \in [Callers -> Call] /\ CallsInv'
<1>1. latest \in [Prompts -> Nat] /\ latest' \in [Prompts -> Nat]
  BY PromptAssumption DEF LibraryInv, LibraryTypeOK
<1>2. \A d \in Callers : CallInv(call[d], latest', buried')
  BY <1>1, CallStays DEF LibraryInv, LibraryTypeOK, CallsInv
<1> QED
  BY <1>2 DEF CallsInv, LibraryInv, LibraryTypeOK

\* A request that begins, beside rows that stay.
LEMMA Begins ==
    ASSUME LibraryInv, NEW c \in Callers, NEW r \in Call, Accept(c, r), CallInv(r, latest, buried),
           UNCHANGED <<latest, buried, job, scheds, due>>
    PROVE  LibraryInv'
<1>1. call' = [call EXCEPT ![c] = r] /\ calls' \in 0..MaxCalls
  BY PromptAssumption DEF Accept, LibraryInv, LibraryTypeOK
<1>2. latest' \in [Prompts -> 0..MaxVersions] /\ \A p \in Prompts : latest[p] <= latest'[p]
  BY DEF LibraryInv, LibraryTypeOK
<1>3. call' \in [Callers -> Call] /\ CallsInv'
  BY <1>1, <1>2, CallsGoOn
<1> QED
  BY <1>1, <1>3 DEF LibraryInv, LibraryTypeOK, BuriedGone, PinsAsAsked

\* A handler that goes on, beside rows that stay.
LEMMA GoesOn ==
    ASSUME LibraryInv, NEW c \in Callers, NEW r \in Call, call' = [call EXCEPT ![c] = r],
           CallInv(r, latest, buried), UNCHANGED <<latest, buried, scheds, calls>>,
           job' \in Prompts \cup {NoJob, Deleted}, due' = due
    PROVE  LibraryInv'
<1>1. latest' \in [Prompts -> 0..MaxVersions] /\ \A p \in Prompts : latest[p] <= latest'[p]
  BY DEF LibraryInv, LibraryTypeOK
<1>2. call' \in [Callers -> Call] /\ CallsInv'
  BY <1>1, CallsGoOn
<1> QED
  BY <1>2 DEF LibraryInv, LibraryTypeOK, BuriedGone, PinsAsAsked

LEMMA IdleInv == \A L, B : CallInv(NoCall, L, B)
BY NoCallIsCall DEF CallInv

LEMMA VersionSteps ==
    ASSUME LibraryInv, NEW c \in Callers,
           ReadLatest(c) \/ RetryVersion(c) \/ CrowdOut(c) \/ InsertVersion(c)
    PROVE  LibraryInv'
<1>1. call[c] \in Call /\ CallInv(call[c], latest, buried) /\ call[c].op \in {"read", "insert"}
  BY DEF LibraryInv, LibraryTypeOK, CallsInv, ReadLatest, RetryVersion, CrowdOut, InsertVersion, Doing
<1> DEFINE k == call[c]
           p == k.prompt
<1>2. p \in Prompts /\ latest[p] \in 0..MaxVersions
  BY <1>1 DEF CallInv, LibraryInv, LibraryTypeOK
<1>3. k.from \in Nat /\ k.tries \in Nat /\ k.read \in Nat /\ k.tries \in 0..MaxTries
  BY <1>1, PromptAssumption DEF Call
<1>4. CASE ReadLatest(c)
  <2> DEFINE r == [k EXCEPT !.op = "insert", !.read = latest[p]]
  <2>1. call' = [call EXCEPT ![c] = r] /\ k.op = "read"
    BY <1>4 DEF ReadLatest, Doing, LibraryInv, LibraryTypeOK
  <2>2. /\ r \in Call /\ r.op = "insert" /\ r.prompt = p /\ r.read = latest[p]
        /\ r.from = k.from /\ r.tries = k.tries
    BY <1>1, <1>2 DEF Call, Ops
  <2> HIDE DEF r
  <2>3. CallInv(r, latest, buried)
    BY <1>1, <1>2, <1>3, <2>1, <2>2 DEF CallInv
  <2>4. UNCHANGED <<latest, buried, job, scheds, calls, due>>
    BY <1>4 DEF ReadLatest
  <2> QED
    BY <2>1, <2>2, <2>3, <2>4, GoesOn DEF LibraryInv, LibraryTypeOK
<1>5. CASE RetryVersion(c)
  <2> DEFINE r == [k EXCEPT !.op = "read", !.tries = @ + 1]
  <2>1. /\ call' = [call EXCEPT ![c] = r] /\ k.op = "insert" /\ k.tries + 1 < MaxTries
        /\ latest[p] > 0 /\ k.read < latest[p]
    BY <1>5 DEF RetryVersion, Doing, Taken, Present, LibraryInv, LibraryTypeOK
  <2>2. k.tries + 1 \in 0..MaxTries
    BY <1>3, <2>1, PromptAssumption
  <2>3. r \in Call /\ r.op = "read" /\ r.prompt = p /\ r.from = k.from /\ r.tries = k.tries + 1
    BY <1>1, <2>2 DEF Call, Ops
  <2> HIDE DEF r
  <2>4. CallInv(r, latest, buried)
    BY <1>1, <1>2, <1>3, <2>1, <2>3 DEF CallInv
  <2>5. UNCHANGED <<latest, buried, job, scheds, calls, due>>
    BY <1>5 DEF RetryVersion
  <2> QED
    BY <2>1, <2>3, <2>4, <2>5, GoesOn DEF LibraryInv, LibraryTypeOK
<1>6. CASE CrowdOut(c)
  BY <1>6, NoCallIsCall, IdleInv, GoesOn DEF CrowdOut, Answer, LibraryInv, LibraryTypeOK
<1>7. CASE InsertVersion(c)
  <2>1. /\ call' = [call EXCEPT ![c] = NoCall] /\ ~Taken(c) /\ k.op = "insert"
        /\ UNCHANGED <<buried, job, scheds, calls, due>>
    BY <1>7 DEF InsertVersion, Answer, Doing
  <2>2. CASE UNCHANGED latest
    BY <2>1, <2>2, NoCallIsCall, IdleInv, GoesOn DEF LibraryInv, LibraryTypeOK
  <2>3. CASE ~UNCHANGED latest
    <3>1. latest[p] > 0 /\ latest[p] < MaxVersions /\ latest' = [latest EXCEPT ![p] = k.read + 1]
      BY <1>7, <2>3 DEF InsertVersion, Present
    <3>2. p \notin buried
      BY <1>2, <3>1 DEF LibraryInv, BuriedGone
    <3>3. k.read = latest[p]
      BY <1>1, <1>2, <1>3, <2>1, <3>1, <3>2 DEF CallInv, Taken, Present
    <3>4. latest[p] + 1 \in 0..MaxVersions
      BY <1>2, <3>1, PromptAssumption
    <3>5. latest' \in [Prompts -> 0..MaxVersions] /\ \A q \in Prompts \ {p} : latest'[q] = latest[q]
      BY <3>1, <3>3, <3>4 DEF LibraryInv, LibraryTypeOK
    <3>6. latest'[p] = latest[p] + 1
      BY <1>2, <3>1, <3>3 DEF LibraryInv, LibraryTypeOK
    <3>7. \A q \in Prompts : latest[q] <= latest'[q]
      <4>1. \A q \in Prompts : latest[q] \in 0..MaxVersions
        BY DEF LibraryInv, LibraryTypeOK
      <4> QED
        BY <4>1, <3>5, <3>6, PromptAssumption
    <3>8. call' \in [Callers -> Call] /\ CallsInv'
      BY <2>1, <3>5, <3>7, NoCallIsCall, IdleInv, CallsGoOn
    <3>9. BuriedGone'
      BY <2>1, <3>2, <3>5 DEF LibraryInv, LibraryTypeOK, BuriedGone
    <3> QED
      BY <2>1, <3>5, <3>8, <3>9 DEF LibraryInv, LibraryTypeOK, PinsAsAsked
  <2> QED
    BY <2>2, <2>3
<1> QED
  BY <1>4, <1>5, <1>6, <1>7

LEMMA BeginSteps ==
    ASSUME LibraryInv, NEW c \in Callers,
           \/ \E p \in Prompts : BeginVersion(c, p) \/ BeginBury(c, p) \/ BeginJob(c, p)
           \/ \E s \in Schedules, mode \in Modes \cup {"same"}, pin \in Versions \cup {NoPin, "same"} :
                 BeginSched(c, s, mode, pin)
    PROVE  LibraryInv'
<1>1. ASSUME NEW p \in Prompts, BeginVersion(c, p) PROVE LibraryInv'
  <2> DEFINE r == [NoCall EXCEPT !.op = "read", !.prompt = p, !.from = latest[p]]
  <2>1. latest[p] \in 0..MaxVersions
    BY DEF LibraryInv, LibraryTypeOK
  <2>2. r \in Call /\ r.op = "read" /\ r.prompt = p /\ r.from = latest[p] /\ r.tries = 0
    BY <2>1, NoCallIsCall DEF Call, Ops
  <2>3. Accept(c, r) /\ UNCHANGED <<latest, buried, job, scheds, due>>
    BY <1>1 DEF BeginVersion
  <2> HIDE DEF r
  <2>4. CallInv(r, latest, buried)
    BY <2>1, <2>2, PromptAssumption DEF CallInv
  <2> QED
    BY <2>2, <2>3, <2>4, Begins
<1>2. ASSUME NEW p \in Prompts, BeginBury(c, p) \/ BeginJob(c, p) PROVE LibraryInv'
  <2>1. PICK op \in {"bury", "createJob", "moveJob"} : Accept(c, [NoCall EXCEPT !.op = op, !.prompt = p])
    BY <1>2 DEF BeginBury, BeginJob
  <2> DEFINE r == [NoCall EXCEPT !.op = op, !.prompt = p]
  <2>2. r \in Call /\ r.op = op /\ r.prompt = p
    BY NoCallIsCall DEF Call, Ops
  <2>3. Accept(c, r) /\ UNCHANGED <<latest, buried, job, scheds, due>>
    BY <1>2, <2>1 DEF BeginBury, BeginJob
  <2> HIDE DEF r
  <2>4. CallInv(r, latest, buried)
    BY <2>2 DEF CallInv
  <2> QED
    BY <2>2, <2>3, <2>4, Begins
<1>3. ASSUME NEW s \in Schedules, NEW mode \in Modes \cup {"same"}, NEW pin \in Versions \cup {NoPin, "same"},
             BeginSched(c, s, mode, pin)
      PROVE  LibraryInv'
  <2>1. PICK op \in {"createSched", "editSched"} :
           Accept(c, [NoCall EXCEPT !.op = op, !.sched = s, !.mode = mode, !.pin = pin])
    BY <1>3 DEF BeginSched
  <2> DEFINE r == [NoCall EXCEPT !.op = op, !.sched = s, !.mode = mode, !.pin = pin]
  <2>2. r \in Call /\ r.op = op /\ r.sched = s
    BY NoCallIsCall DEF Call, Ops
  <2>3. Accept(c, r) /\ UNCHANGED <<latest, buried, job, scheds, due>>
    BY <1>3, <2>1 DEF BeginSched
  <2> HIDE DEF r
  <2>4. CallInv(r, latest, buried)
    BY <2>2 DEF CallInv
  <2> QED
    BY <2>2, <2>3, <2>4, Begins
<1> QED
  BY <1>1, <1>2, <1>3

\* The deletion of a prompt takes the pins on it away, and no others.
LEMMA BurySteps ==
    ASSUME LibraryInv, NEW c \in Callers, Bury(c)
    PROVE  LibraryInv'
<1> DEFINE p == call[c].prompt
           Of(q) == {q} \X (1..MaxVersions)
<1>1. call' = [call EXCEPT ![c] = NoCall] /\ UNCHANGED <<job, calls, due>>
  BY DEF Bury, Answer
<1>2. p \in Prompts
  BY DEF LibraryInv, CallsInv, CallInv, Bury, Doing
<1>3. CASE UNCHANGED <<latest, buried, scheds>>
  BY <1>1, <1>3, NoCallIsCall, IdleInv, GoesOn DEF LibraryInv, LibraryTypeOK
<1>4. CASE ~UNCHANGED <<latest, buried, scheds>>
  <2>1. /\ latest' = [latest EXCEPT ![p] = 0] /\ buried' = buried \cup {p}
        /\ scheds' = [s \in Schedules |-> IF scheds[s].pin \in Of(p)
                                         THEN [scheds[s] EXCEPT !.pin = NoPin] ELSE scheds[s]]
    BY <1>4 DEF Bury
  <2>2. latest' \in [Prompts -> 0..MaxVersions] /\ \A q \in Prompts \ buried' : latest'[q] = latest[q]
    <3>1. latest \in [Prompts -> 0..MaxVersions] /\ 0 \in 0..MaxVersions
      BY PromptAssumption DEF LibraryInv, LibraryTypeOK
    <3> HIDE DEF p
    <3> QED
      BY <2>1, <3>1
  <2>3. \A q \in Prompts \ buried' : latest[q] <= latest'[q]
    <3>1. \A q \in Prompts : latest[q] \in 0..MaxVersions
      BY DEF LibraryInv, LibraryTypeOK
    <3> QED
      BY <2>2, <3>1, PromptAssumption
  <2>4. call' \in [Callers -> Call] /\ CallsInv'
    BY <1>1, <2>1, <2>2, <2>3, NoCallIsCall, IdleInv, CallsGoOn
  <2>5. BuriedGone' /\ buried' \subseteq Prompts
    BY <1>2, <2>1 DEF LibraryInv, LibraryTypeOK, BuriedGone
  <2>6. \A s \in Schedules : /\ scheds'[s] \in Sched /\ scheds'[s].asked = scheds[s].asked
                             /\ scheds'[s].pin = IF scheds[s].pin \in Of(p) THEN NoPin ELSE scheds[s].pin
    BY <2>1 DEF LibraryInv, LibraryTypeOK, Sched
  <2>7. scheds' \in [Schedules -> Sched]
    BY <2>1, <2>6
  <2>8. PinsAsAsked'
    <3> SUFFICES ASSUME NEW s \in Schedules, scheds'[s].asked \in Versions, scheds'[s].asked[1] \notin buried'
                 PROVE  scheds'[s].pin = scheds'[s].asked
      BY DEF PinsAsAsked
    <3>1. scheds[s].pin = scheds[s].asked
      BY <2>1, <2>6 DEF LibraryInv, PinsAsAsked
    <3>2. scheds[s].pin[1] # p
      BY <2>1, <2>6, <3>1
    <3> QED
      BY <2>6, <3>1, <3>2
  <2> QED
    BY <1>1, <2>2, <2>4, <2>5, <2>7, <2>8 DEF LibraryInv, LibraryTypeOK
<1> QED
  BY <1>3, <1>4

LEMMA JobSteps ==
    ASSUME LibraryInv, NEW c \in Callers, WriteJob(c) \/ JobTooLate(c)
    PROVE  LibraryInv'
<1>1. call[c].op \in {"createJob", "moveJob"} => call[c].prompt \in Prompts
  BY DEF LibraryInv, CallsInv, CallInv
<1>2. job' \in Prompts \cup {NoJob, Deleted}
  BY <1>1 DEF WriteJob, JobTooLate, Doing, LibraryInv, LibraryTypeOK
<1> QED
  BY <1>2, NoCallIsCall, IdleInv, GoesOn DEF WriteJob, JobTooLate, Answer

\* A write of a pin records what was asked for; where it says nothing of the pin,
\* both stay.
LEMMA PinSteps ==
    ASSUME LibraryInv, NEW c \in Callers, WriteSched(c)
    PROVE  LibraryInv'
<1> DEFINE k == call[c]
           t == k.sched
           old == scheds[t]
           n == [state |-> "live", mode |-> IF k.mode = "same" THEN old.mode ELSE k.mode,
                 pin |-> IF k.pin = "same" THEN old.pin ELSE k.pin,
                 asked |-> IF k.pin = "same" THEN old.asked ELSE k.pin]
<1>1. /\ call' = [call EXCEPT ![c] = NoCall] /\ k.op \in {"createSched", "editSched"}
      /\ UNCHANGED <<latest, buried, job, calls, due>>
  BY DEF WriteSched, Answer
<1>2. k \in Call /\ t \in Schedules /\ old \in Sched
  BY <1>1 DEF LibraryInv, LibraryTypeOK, CallsInv, CallInv
<1>3. CASE scheds' = scheds
  BY <1>1, <1>3, NoCallIsCall, IdleInv, GoesOn DEF LibraryInv, LibraryTypeOK
<1>4. CASE scheds' # scheds
  <2>1. scheds' = [scheds EXCEPT ![t] = n]
    BY <1>2, <1>4 DEF WriteSched, LibraryInv, LibraryTypeOK
  <2>2. /\ k.mode \in Modes \cup {"same"} /\ k.pin \in Versions \cup {NoPin, "same"}
        /\ old.mode \in Modes /\ old.pin \in Versions \cup {NoPin} /\ old.asked \in Versions \cup {NoPin}
    BY <1>2 DEF Call, Sched
  <2>3. n \in Sched /\ n.pin = (IF k.pin = "same" THEN old.pin ELSE k.pin)
        /\ n.asked = (IF k.pin = "same" THEN old.asked ELSE k.pin)
    BY <2>2 DEF Sched
  <2> HIDE DEF n
  <2>4. scheds' \in [Schedules -> Sched] /\ scheds'[t] = n /\ \A s \in Schedules \ {t} : scheds'[s] = scheds[s]
    BY <1>2, <2>1, <2>3 DEF LibraryInv, LibraryTypeOK
  <2>5. PinsAsAsked'
    <3>1. n.asked \in Versions /\ n.asked[1] \notin buried => n.pin = n.asked
      BY <1>2, <2>3 DEF LibraryInv, PinsAsAsked
    <3> QED
      BY <1>1, <2>4, <3>1 DEF LibraryInv, PinsAsAsked
  <2>6. latest' \in [Prompts -> 0..MaxVersions] /\ \A p \in Prompts : latest[p] <= latest'[p]
    BY <1>1 DEF LibraryInv, LibraryTypeOK
  <2>7. call' \in [Callers -> Call] /\ CallsInv'
    BY <1>1, <2>6, NoCallIsCall, IdleInv, CallsGoOn
  <2> QED
    BY <1>1, <2>4, <2>5, <2>7 DEF LibraryInv, LibraryTypeOK, BuriedGone
<1> QED
  BY <1>3, <1>4

\* Steps of no handler.
LEMMA RowSteps ==
    ASSUME LibraryInv,
           \/ \E p \in Prompts : CreatePrompt(p)
           \/ \E s \in Schedules : DeleteSched(s) \/ Fire(s)
           \/ DeleteJob \/ PickUp \/ UNCHANGED libraryVars
    PROVE  LibraryInv'
<1>1. ASSUME NEW p \in Prompts, CreatePrompt(p) PROVE LibraryInv'
  <2>1. /\ p \notin buried /\ latest' = [latest EXCEPT ![p] = 1] /\ latest[p] \in 0..MaxVersions /\ ~ (latest[p] > 0)
        /\ UNCHANGED <<buried, job, scheds, call, calls, due>>
    BY <1>1 DEF CreatePrompt, Present, LibraryInv, LibraryTypeOK
  <2>2. latest' \in [Prompts -> 0..MaxVersions] /\ latest'[p] = 1 /\ \A q \in Prompts \ {p} : latest'[q] = latest[q]
    BY <2>1, PromptAssumption DEF LibraryInv, LibraryTypeOK
  <2>3. \A q \in Prompts : latest[q] <= latest'[q]
    <3>1. \A q \in Prompts : latest[q] \in 0..MaxVersions
      BY DEF LibraryInv, LibraryTypeOK
    <3> QED
      BY <2>1, <2>2, <3>1, PromptAssumption
  <2>4. CallsInv'
    BY <2>1, <2>2, <2>3, CallsStay
  <2> QED
    BY <2>1, <2>2, <2>4 DEF LibraryInv, LibraryTypeOK, BuriedGone, PinsAsAsked
<1>2. ASSUME UNCHANGED <<latest, buried, call, calls>>, job' \in Prompts \cup {NoJob, Deleted},
             due' \in Schedules \cup {NoPin}, scheds' \in [Schedules -> Sched],
             \A s \in Schedules : scheds'[s].pin = scheds[s].pin /\ scheds'[s].asked = scheds[s].asked
      PROVE  LibraryInv'
  <2>1. CallsInv'
    BY <1>2 DEF LibraryInv, CallsInv
  <2>2. PinsAsAsked'
    BY <1>2 DEF LibraryInv, PinsAsAsked
  <2> QED
    BY <1>2, <2>1, <2>2 DEF LibraryInv, LibraryTypeOK, BuriedGone
<1>3. \A s \in Schedules : LET n == [scheds[s] EXCEPT !.state = "deleted"]
                           IN  n \in Sched /\ n.pin = scheds[s].pin /\ n.asked = scheds[s].asked
  BY DEF LibraryInv, LibraryTypeOK, Sched
<1>4. ASSUME NEW s \in Schedules, DeleteSched(s) PROVE LibraryInv'
  <2> DEFINE n == [scheds[s] EXCEPT !.state = "deleted"]
  <2>1. scheds' = [scheds EXCEPT ![s] = n] /\ UNCHANGED <<latest, buried, job, call, calls, due>>
    BY <1>4 DEF DeleteSched, LibraryInv, LibraryTypeOK
  <2>2. n \in Sched /\ n.pin = scheds[s].pin /\ n.asked = scheds[s].asked
    BY <1>3
  <2> HIDE DEF n
  <2>3. scheds' \in [Schedules -> Sched] /\ scheds'[s] = n /\ \A u \in Schedules \ {s} : scheds'[u] = scheds[u]
    BY <2>1, <2>2 DEF LibraryInv, LibraryTypeOK
  <2> QED
    BY <1>2, <2>1, <2>2, <2>3 DEF LibraryInv, LibraryTypeOK
<1>5. CASE DeleteJob
  <2> DEFINE n(s) == [scheds[s] EXCEPT !.state = "deleted"]
  <2>1. /\ scheds' = [s \in Schedules |-> IF scheds[s].state = "live" THEN n(s) ELSE scheds[s]]
        /\ job' = Deleted /\ due' = NoPin /\ UNCHANGED <<latest, buried, call, calls>>
    BY <1>5 DEF DeleteJob
  <2>2. \A s \in Schedules : n(s) \in Sched /\ n(s).pin = scheds[s].pin /\ n(s).asked = scheds[s].asked
    BY <1>3
  <2> HIDE DEF n
  <2>3. scheds' \in [Schedules -> Sched]
    BY <2>1, <2>2 DEF LibraryInv, LibraryTypeOK
  <2>4. \A s \in Schedules : scheds'[s].pin = scheds[s].pin /\ scheds'[s].asked = scheds[s].asked
    BY <2>1, <2>2
  <2> QED
    BY <1>2, <2>1, <2>3, <2>4
<1>6. ASSUME (\E s \in Schedules : Fire(s)) \/ PickUp \/ UNCHANGED libraryVars PROVE LibraryInv'
  <2>1. UNCHANGED <<latest, buried, job, scheds, call, calls>> /\ due' \in Schedules \cup {NoPin}
    BY <1>6 DEF Fire, PickUp, libraryVars, LibraryInv, LibraryTypeOK
  <2> QED
    BY <1>2, <2>1 DEF LibraryInv, LibraryTypeOK
<1> QED
  BY <1>1, <1>4, <1>5, <1>6

LEMMA LibraryNextStep == LibraryInv /\ [LibraryNext]_libraryVars => LibraryInv'
BY VersionSteps, BeginSteps, BurySteps, JobSteps, PinSteps, RowSteps DEF LibraryNext, LibraryStep

\* What is there of prompts, versions and pins, whatever requests run at once.
THEOREM LibraryInvariance == LibrarySpec => []LibraryInv
BY LibraryStart, LibraryNextStep, PTL DEF LibrarySpec

\* A run of a pinned schedule executes the version that was asked for, or fails,
\* unless the pinned prompt was deleted: for any prompts, schedules and requests.
THEOREM PinsAreHonoured == LibrarySpec => []PinHonoured
<1>1. LibraryInv => PinHonoured
  <2> SUFFICES ASSUME LibraryInv, due # NoPin, scheds[due].state = "live", scheds[due].mode = "PINNED",
                      scheds[due].asked \in Versions, scheds[due].asked[1] \notin buried
               PROVE  ChosenVersion(due) \in {scheds[due].asked, Failed}
    BY DEF PinHonoured, RunsAsPinned
  <2>1. due \in Schedules
    BY DEF LibraryInv, LibraryTypeOK
  <2>2. scheds[due].pin = scheds[due].asked /\ scheds[due].pin # NoPin
    BY <2>1, UnusedIsSched DEF LibraryInv, PinsAsAsked
  <2> QED
    BY <2>2 DEF ChosenVersion
<1> QED
  BY <1>1, LibraryInvariance, PTL

\* A new version is turned away only after as many were added as it had tries.
THEOREM TurnedAwayWhenCrowded == LibrarySpec => CrowdedOut
<1>1. ASSUME LibraryInv, [LibraryNext]_libraryVars, NEW c \in Callers,
             Doing(c, "insert"), Taken(c), call'[c].op = "idle"
      PROVE  latest[call[c].prompt] >= call[c].from + MaxTries
  <2> DEFINE k == call[c]
  <2>1. k \in Call /\ CallInv(k, latest, buried) /\ k.op = "insert" /\ latest[k.prompt] > 0 /\ k.read < latest[k.prompt]
    BY <1>1 DEF LibraryInv, LibraryTypeOK, CallsInv, Doing, Taken, Present
  <2>2. CrowdOut(c)
    <3>1. ASSUME call' = call PROVE FALSE
      BY <1>1, <2>1, <3>1
    <3>2. ASSUME NEW d \in Callers \ {c}, NEW r, call' = [call EXCEPT ![d] = r] PROVE FALSE
      BY <1>1, <2>1, <3>2 DEF LibraryInv, LibraryTypeOK
    <3>3. PICK d \in Callers : LibraryStep(d)
      BY <1>1, <3>1 DEF LibraryNext, libraryVars, CreatePrompt, DeleteSched, Fire, DeleteJob, PickUp
    <3>4. d = c
      <4>1. \E r : call' = [call EXCEPT ![d] = r]
        BY <3>3 DEF LibraryStep, ReadLatest, RetryVersion, CrowdOut, InsertVersion, Bury, WriteJob, JobTooLate,
           WriteSched, BeginVersion, BeginBury, BeginJob, BeginSched, Accept, Answer
      <4> QED
        BY <3>2, <4>1
    <3>5. call[c] # NoCall
      BY <2>1, NoCallIsCall
    <3>6. ~ (ReadLatest(c) \/ InsertVersion(c) \/ Bury(c) \/ WriteJob(c) \/ JobTooLate(c) \/ WriteSched(c))
      BY <1>1, <2>1 DEF ReadLatest, InsertVersion, Bury, WriteJob, JobTooLate, WriteSched, Doing
    <3>7. ~ RetryVersion(c)
      BY <1>1, <2>1 DEF RetryVersion, LibraryInv, LibraryTypeOK, Call
    <3> QED
      BY <3>3, <3>4, <3>5, <3>6, <3>7 DEF LibraryStep, BeginVersion, BeginBury, BeginJob, BeginSched, Accept
  <2>3. k.tries + 1 = MaxTries
    BY <2>2 DEF CrowdOut
  <2>4. k.prompt \in Prompts /\ k.prompt \notin buried
    <3>1. k.prompt \in buried => latest[k.prompt] = 0
      BY <1>1 DEF LibraryInv, BuriedGone
    <3>2. k.prompt \in Prompts
      BY <2>1 DEF CallInv
    <3> QED
      BY <2>1, <3>1, <3>2
  <2>5. k.from \in Nat /\ k.tries \in Nat /\ k.read \in Nat
    BY <2>1, PromptAssumption DEF Call
  <2>6. latest[k.prompt] \in Nat
    BY <1>1, <2>4, PromptAssumption DEF LibraryInv, LibraryTypeOK
  <2>7. k.from + k.tries <= k.read
    BY <2>1, <2>4 DEF CallInv
  <2> QED
    BY <2>1, <2>3, <2>5, <2>6, <2>7, PromptAssumption
<1>2. LibraryInv /\ [LibraryNext]_libraryVars =>
        [\A c \in Callers : Doing(c, "insert") /\ Taken(c) /\ call'[c].op = "idle" =>
            latest[call[c].prompt] >= call[c].from + MaxTries]_libraryVars
  BY <1>1
<1> QED
  BY <1>2, LibraryInvariance, PTL DEF CrowdedOut, LibrarySpec

-----------------------------------------------------------------------------
(***************************************************************************)
(* What MCProjects composes. A step of it is a step of one part and lets   *)
(* the others rest, so it is a step or a stutter of each.                  *)
(***************************************************************************)

\* The parts composed implement each of them: whatever one does among the others it may
\* do alone.
THEOREM PartsBehave == Spec => SharingSpec /\ LibrarySpec /\ LabelSpec /\ QuotaSpec /\ EvidenceSpec
<1>1. Init => SharingInit /\ LibraryInit /\ LabelInit /\ QuotaInit /\ EvidenceInit
  BY DEF Init
<1>2. [Next]_vars => /\ [SharingNext]_sharingVars /\ [LibraryNext]_libraryVars /\ [LabelNext]_labelVars
                     /\ [QuotaNext]_quotaVars /\ [EvidenceNext]_evidenceVars
  BY DEF Next, OthersRest, vars
<1>3. QED
  BY <1>1, <1>2, PTL DEF Spec, SharingSpec, LibrarySpec, LabelSpec, QuotaSpec, EvidenceSpec

\* So what each part keeps is kept of all of them at once.
THEOREM PartsAreSafe ==
    Spec => /\ [](/\ ApproversAreEditors /\ VisibilityFollows /\ PinHonoured /\ OneDefaultLabel
                  /\ QuotaKept /\ EvidenceMatchesRequest /\ StagingRemoved)
            /\ LastOwnerLostOnlyToRace /\ CycleOnlyByRace /\ NothingReferredToIsDeleted /\ CrowdedOut
BY PartsBehave, ApproversEdit, VisibilityTold, PinsAreHonoured, OneDefaultKept, QuotaIsKept, EvidenceIsOfRequest,
   StagingIsRemoved, LastOwnerKept, CyclesAreRaces, DeletionChecked, TurnedAwayWhenCrowded, PTL

=============================================================================
