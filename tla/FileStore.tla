------------------------------ MODULE FileStore ------------------------------
(***************************************************************************)
(* FileUploadService of packages/file-upload: files on a local disk, named *)
(* by tenant, hash and detected type, and their records in a repository.   *)
(* Requests interleave at every await; the process may be killed at any    *)
(* moment, which ends the requests and leaves disk and repository alone.   *)
(***************************************************************************)
EXTENDS Naturals, Sequences

CONSTANTS
  Tenants,
  Files,       \* [content, magic, suffix, large]: what may be uploaded
  AllowedTypes,\* options.allowedMimeTypes
  Uploads,     \* uploads that may be under way at once
  NoFile,      \* no upload under way
  MaxRecords   \* bound: records ever inserted

VARIABLES
  upload,      \* per upload: its step and the path it writes
  temp,        \* per upload: what its temporary file holds
  disk,        \* what each path holds: nothing, a part of its content, or all
  records,     \* rows of the repository, in the order of their insertion
  taken,       \* paths removed by removePhysicalFile() and not written since
  download     \* a download: the row it found and what it answers

fileVars == <<upload, temp, disk, records, taken, download>>

\* A zip archive is a document or a sheet by the name the user gave it.
DetectMimeType(file) ==
  IF file.magic = "zip" THEN IF file.suffix = "docx" THEN "docx" ELSE "xlsx"
  ELSE file.magic

Accepted(file) == ~file.large /\ DetectMimeType(file) \in AllowedTypes

\* Equal contents have equal hashes: the path does not depend on the request.
StoragePath(tenant, file) == <<tenant, file.content, DetectMimeType(file)>>
Paths == {StoragePath(t, f) : t \in Tenants, f \in Files}

NoUpload == [step |-> "idle", path |-> NoFile]
NoDownload == [row |-> 0, answer |-> "none"]

FileInit ==
  /\ upload = [u \in Uploads |-> NoUpload]
  /\ temp = [u \in Uploads |-> "none"]
  /\ disk = [p \in Paths |-> "none"]
  /\ records = <<>>
  /\ taken = {}
  /\ download = NoDownload

-----------------------------------------------------------------------------

\* upload(): the checks and mkdir(); a file that fails them is refused.
BeginUpload(u, tenant, file) ==
  /\ upload[u].step = "idle"
  /\ Accepted(file)
  /\ upload' = [upload EXCEPT ![u] = [step |-> "write", path |-> StoragePath(tenant, file)]]
  /\ UNCHANGED <<temp, disk, records, taken, download>>

\* writeFile() creates the temporary file and answers when it is whole.
WriteTemp(u) ==
  /\ upload[u].step = "write"
  /\ \/ temp[u] = "none" /\ temp' = [temp EXCEPT ![u] = "part"] /\ UNCHANGED upload
     \/ /\ temp[u] = "part"
        /\ temp' = [temp EXCEPT ![u] = "whole"]
        /\ upload' = [upload EXCEPT ![u].step = "rename"]
  /\ UNCHANGED <<disk, records, taken, download>>

\* rename() replaces whatever the path held in one step.
RenameTemp(u) ==
  /\ upload[u].step = "rename"
  /\ disk' = [disk EXCEPT ![upload[u].path] = temp[u]]
  /\ temp' = [temp EXCEPT ![u] = "none"]
  /\ taken' = taken \ {upload[u].path}
  /\ upload' = [upload EXCEPT ![u].step = "insert"]
  /\ UNCHANGED <<records, download>>

\* repo.insert(), which may fail: the file then stays without a record.
InsertRecord(u) ==
  /\ upload[u].step = "insert"
  /\ \/ Len(records) < MaxRecords /\ records' = Append(records, [path |-> upload[u].path, live |-> TRUE])
     \/ UNCHANGED records
  /\ upload' = [upload EXCEPT ![u] = NoUpload]
  /\ UNCHANGED <<temp, disk, taken, download>>

\* Mutant: the file goes with its record, whoever else has a record of it.
SoftDeleteBoth(r) ==
  /\ records[r].live
  /\ records' = [records EXCEPT ![r].live = FALSE]
  /\ disk' = [disk EXCEPT ![records[r].path] = "none"]
  /\ UNCHANGED <<upload, temp, taken, download>>

\* delete(): the record is marked, the file stays.
SoftDelete(r) ==
  /\ records[r].live
  /\ records' = [records EXCEPT ![r].live = FALSE]
  /\ UNCHANGED <<upload, temp, disk, taken, download>>

\* removePhysicalFile(): the path is unlinked, whoever has a record of it.
RemoveFile(p) ==
  /\ disk[p] # "none"
  /\ disk' = [disk EXCEPT ![p] = "none"]
  /\ taken' = taken \cup {p}
  /\ UNCHANGED <<upload, temp, records, download>>

\* download(): the row is looked up, and its file is read a moment later.
FindRecord(r) ==
  /\ download.row = 0
  /\ download' = [row |-> r, answer |-> IF records[r].live THEN "none" ELSE "null"]
  /\ UNCHANGED <<upload, temp, disk, records, taken>>

ReadFile ==
  /\ download.row # 0 /\ download.answer = "none"
  /\ LET found == disk[records[download.row].path]
     IN download' = [download EXCEPT !.answer = IF found = "none" THEN "null" ELSE found]
  /\ UNCHANGED <<upload, temp, disk, records, taken>>

Answer ==
  /\ download.answer # "none"
  /\ download' = NoDownload
  /\ UNCHANGED <<upload, temp, disk, records, taken>>

\* The process is killed and started again; temporary files are never read.
FileCrash ==
  /\ upload' = [u \in Uploads |-> NoUpload]
  /\ temp' = [u \in Uploads |-> "none"]
  /\ download' = NoDownload
  /\ UNCHANGED <<disk, records, taken>>

FileNext ==
  \/ \E u \in Uploads :
       \/ \E t \in Tenants, f \in Files : BeginUpload(u, t, f)
       \/ WriteTemp(u) \/ RenameTemp(u) \/ InsertRecord(u)
  \/ \E r \in DOMAIN records : SoftDelete(r) \/ FindRecord(r)
  \/ \E p \in Paths : RemoveFile(p)
  \/ ReadFile \/ Answer \/ FileCrash

-----------------------------------------------------------------------------

\* A live record, and a download that found one, has all of its file whatever
\* uploads of equal content, deletions and kills there were, unless that very
\* path was removed from the disk and not written since.
LiveRecordsHaveFiles ==
  /\ \A r \in DOMAIN records :
       records[r].live => disk[records[r].path] = "whole" \/ records[r].path \in taken
  /\ download.answer # "part"
=============================================================================
