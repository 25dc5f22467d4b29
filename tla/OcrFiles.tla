------------------------------ MODULE OcrFiles ------------------------------
(***************************************************************************)
(* The Mistral files surface of the OCR service (docker/ocr/service.py):   *)
(* LibreChat uploads a document (POST /files), asks for its signed URL     *)
(* (GET /files/:id/url), and deletes it after POST /ocr.  The store is     *)
(* bounded in entries and in bytes; each handler holds its lock throughout.*)
(***************************************************************************)
EXTENDS Naturals, FiniteSets, FiniteSetsExt

CONSTANTS
    Files,
    Bytes,          \* file -> its size
    StoreMax,       \* _FILE_STORE_MAX
    StoreMaxBytes   \* _FILE_STORE_MAX_BYTES

ASSUME FilesAssumption ==
    /\ IsFiniteSet(Files) /\ Bytes \in [Files -> Nat]
    /\ StoreMax \in Nat /\ StoreMaxBytes \in Nat

VARIABLES
    upload,     \* file -> how far its client got
    store,      \* _FILE_STORE
    stale       \* the files stored longer ago than _FILE_TTL_SECONDS

filesVars == <<upload, store, stale>>

FilesTypeOK ==
    /\ upload \in [Files -> {"new", "stored", "located", "missing", "deleted"}]
    /\ store \subseteq Files /\ stale \subseteq Files

FilesInit ==
    /\ upload = [f \in Files |-> "new"]
    /\ store = {} /\ stale = {}

\* _file_store_gc_locked, which uploads and lookups begin with.
Fresh == store \ stale

StoredBytes(S) == MapThenSumSet(LAMBDA f : Bytes[f], S)

Fits(f) ==
    /\ Cardinality(Fresh) < StoreMax
    /\ StoredBytes(Fresh) + Bytes[f] <= StoreMaxBytes

\* A store that makes room by dropping another client's file.
UploadEvicting(f) ==
    /\ upload[f] = "new"
    /\ store' = (IF Fits(f) THEN Fresh ELSE {}) \cup {f}
    /\ upload' = [upload EXCEPT ![f] = "stored"]
    /\ UNCHANGED stale

Upload(f) ==
    /\ upload[f] = "new" /\ Fits(f)
    /\ store' = Fresh \cup {f}
    /\ upload' = [upload EXCEPT ![f] = "stored"]
    /\ UNCHANGED stale

\* 503: the client may try again.
RefuseUpload(f) ==
    /\ upload[f] = "new" /\ ~Fits(f)
    /\ store' = Fresh
    /\ UNCHANGED <<upload, stale>>

GetUrl(f) ==
    /\ upload[f] \in {"stored", "located"}
    /\ store' = Fresh
    /\ upload' = [upload EXCEPT ![f] = IF f \in Fresh THEN "located" ELSE "missing"]
    /\ UNCHANGED stale

DeleteFile(f) ==
    /\ upload[f] \in {"stored", "located", "missing"}
    /\ store' = store \ {f}
    /\ upload' = [upload EXCEPT ![f] = "deleted"]
    /\ UNCHANGED stale

OutliveTtl(f) ==
    /\ f \in store \ stale
    /\ stale' = stale \cup {f}
    /\ UNCHANGED <<upload, store>>

FilesNext ==
    \E f \in Files :
        Upload(f) \/ RefuseUpload(f) \/ GetUrl(f) \/ DeleteFile(f) \/ OutliveTtl(f)

FilesSpec == FilesInit /\ [][FilesNext]_filesVars

-----------------------------------------------------------------------------
(* Properties.                                                             *)

\* A file id that was given out answers until its time to live is over,
\* whatever was uploaded since; and the store keeps within both its bounds.
UrlsKept ==
    /\ \A f \in Files : upload[f] = "missing" => f \in stale
    /\ Cardinality(store) <= StoreMax
    /\ StoredBytes(store) <= StoreMaxBytes
=============================================================================
