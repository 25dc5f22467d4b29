--------------------------- MODULE AttachmentQuota ---------------------------
(***************************************************************************)
(* The attachments of one job and their quota (api: routes/attachments.ts).*)
(* An upload checks and inserts in a transaction at READ COMMITTED that    *)
(* first takes an advisory lock named after the job; it ends, and the lock *)
(* with it, when the transaction does, by a commit or with the process.    *)
(* What one upload may weigh is checked before, and left out.              *)
(***************************************************************************)
EXTENDS FiniteSetsExt

CONSTANTS
    FileIds,        \* ids an attachment may get; a removed one is not reused
    SizeOf,         \* id -> what the upload that would get it weighs
    Uploads,        \* bound: requests in flight
    MaxFiles,       \* MAX_ATTACHMENTS_PER_JOB
    MaxBytes,       \* MAX_JOB_ATTACHMENT_TOTAL_BYTES
    Nobody

ASSUME QuotaAssumption ==
    /\ SizeOf \in [FileIds -> Nat] /\ MaxFiles \in Nat /\ MaxBytes \in Nat
    /\ Nobody \notin FileIds \cup Uploads

VARIABLES
    files,   \* the attachments of the job
    offered,    \* ids that were used up
    upload,     \* request -> what it does, and of which attachment
    lock        \* who has the advisory lock

quotaVars == <<files, offered, upload, lock>>

UploadOps == {"idle", "wait", "check", "insert", "remove"}
NoUpload == [op |-> "idle", file |-> Nobody]

QuotaTypeOK ==
    /\ files \subseteq offered /\ offered \subseteq FileIds
    /\ upload \in [Uploads -> [op : UploadOps, file : FileIds \cup {Nobody}]]
    /\ lock \in Uploads \cup {Nobody}

QuotaInit ==
    /\ files = {} /\ offered = {}
    /\ upload = [u \in Uploads |-> NoUpload]
    /\ lock = Nobody

Bytes(S) == MapThenSumSet(LAMBDA f : SizeOf[f], S)
IsAt(u, op) == upload[u].op = op
Goto(u, op) == upload' = [upload EXCEPT ![u].op = op]
UploadEnds(u) == upload' = [upload EXCEPT ![u] = NoUpload]
Released(u) == lock' = IF lock = u THEN Nobody ELSE lock

BeginUpload(u, f) ==
    /\ upload[u] = NoUpload /\ f \notin offered
    /\ upload' = [upload EXCEPT ![u] = [op |-> "wait", file |-> f]]
    /\ offered' = offered \cup {f}
    /\ UNCHANGED <<files, lock>>

\* The transaction begins without the lock.
BeginUnlocked(u) ==
    /\ IsAt(u, "wait")
    /\ Goto(u, "check")
    /\ UNCHANGED <<files, offered, lock>>

TakeLock(u) ==
    /\ IsAt(u, "wait") /\ lock = Nobody
    /\ lock' = u
    /\ Goto(u, "check")
    /\ UNCHANGED <<files, offered>>

\* The aggregate sees what was committed; 409 or 413 ends the transaction.
Check(u) ==
    /\ IsAt(u, "check")
    /\ IF Cardinality(files) >= MaxFiles \/ Bytes(files) + SizeOf[upload[u].file] > MaxBytes
       THEN UploadEnds(u) /\ Released(u)
       ELSE Goto(u, "insert") /\ UNCHANGED lock
    /\ UNCHANGED <<files, offered>>

\* The insert and the commit; or the transaction, or its process, ends before.
Insert(u) ==
    /\ IsAt(u, "insert")
    /\ files' \in {files \cup {upload[u].file}, files}
    /\ UploadEnds(u) /\ Released(u)
    /\ UNCHANGED offered

\* DELETE finds the attachment, then deletes it by id; the second of two fails.
BeginRemove(u, f) ==
    /\ upload[u] = NoUpload /\ f \in files
    /\ upload' = [upload EXCEPT ![u] = [op |-> "remove", file |-> f]]
    /\ UNCHANGED <<files, offered, lock>>

Remove(u) ==
    /\ IsAt(u, "remove")
    /\ files' = files \ {upload[u].file}
    /\ UploadEnds(u)
    /\ UNCHANGED <<offered, lock>>

QuotaNext ==
    \E u \in Uploads :
        \/ TakeLock(u) \/ Check(u) \/ Insert(u) \/ Remove(u)
        \/ \E f \in FileIds : BeginUpload(u, f) \/ BeginRemove(u, f)

QuotaSpec == QuotaInit /\ [][QuotaNext]_quotaVars

-----------------------------------------------------------------------------
\* Uploads that arrive together never pass the quota of the job together, though
\* each checks before it inserts and removals come in between
\* (attachments.ts:93-98: without the lock "the quota is a suggestion").
QuotaKept == Cardinality(files) <= MaxFiles /\ Bytes(files) <= MaxBytes
=============================================================================
