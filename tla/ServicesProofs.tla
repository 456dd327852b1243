--------------------------- MODULE ServicesProofs ---------------------------
(***************************************************************************)
(* Proofs about the services beside the engines, each for any values of    *)
(* its constants: files, rooms, channels, notifications, the rate limiters *)
(* of the server, health and slow queries, and what the admin interface    *)
(* keeps in the browser and shows on its pages.  The last part puts those  *)
(* together that MCServices states as one property.                        *)
(***************************************************************************)
EXTENDS MCServices, SequenceTheorems, FiniteSetTheorems, TLAPS

-----------------------------------------------------------------------------
(* Files.                                                                  *)

FileSpec == FileInit /\ [][FileNext]_fileVars

\* What the disk, the temporary files and the rows hold at any time.
Kept(d, tmp, up, rec) ==
  /\ DOMAIN d = Paths /\ \A p \in Paths : d[p] \in {"none", "whole"}
  /\ DOMAIN tmp = Uploads /\ DOMAIN up = Uploads
  /\ rec \in Seq([path : Paths, live : BOOLEAN])

\* An upload has its temporary file whole when it renames it, and the file at
\* its path when it inserts the record, unless somebody has removed it since.
UploadIsKept(u, d, tmp, up, tak) ==
  /\ DOMAIN up[u] = {"step", "path"}
  /\ up[u].step \in {"idle", "write", "rename", "insert"}
  /\ up[u].step # "idle" => up[u].path \in Paths
  /\ up[u].step \in {"idle", "insert"} => tmp[u] = "none"
  /\ up[u].step = "write" => tmp[u] \in {"none", "part"}
  /\ up[u].step = "rename" => tmp[u] = "whole"
  /\ up[u].step = "insert" => d[up[u].path] = "whole" \/ up[u].path \in tak

RowIsKept(r, d, rec, tak) == rec[r].live => d[rec[r].path] = "whole" \/ rec[r].path \in tak

DownloadIsKept(down, rec) ==
  /\ down.row \in {0} \cup DOMAIN rec
  /\ down.answer \in {"none", "null", "whole"}
  /\ DOMAIN down = {"row", "answer"}

FilesAreKept ==
  /\ Kept(disk, temp, upload, records)
  /\ \A u \in Uploads : UploadIsKept(u, disk, temp, upload, taken)
  /\ \A r \in DOMAIN records : RowIsKept(r, disk, records, taken)
  /\ DownloadIsKept(download, records)

LEMMA FilesInit == FileInit => FilesAreKept
<1> SUFFICES ASSUME FileInit PROVE FilesAreKept
  OBVIOUS
<1>1. Kept(disk, temp, upload, records)
  BY DEF FileInit, Kept
<1>2. ASSUME NEW u \in Uploads PROVE UploadIsKept(u, disk, temp, upload, taken)
  BY DEF FileInit, NoUpload, UploadIsKept
<1>3. \A r \in DOMAIN records : RowIsKept(r, disk, records, taken)
  BY DEF FileInit, RowIsKept
<1>4. DownloadIsKept(download, records)
  BY DEF FileInit, NoDownload, DownloadIsKept
<1> QED
  BY <1>1, <1>2, <1>3, <1>4 DEF FilesAreKept

\* The path of a file that is uploaded is one of those there are.
LEMMA PathIsThere ==
  ASSUME NEW t \in Tenants, NEW f \in Files PROVE StoragePath(t, f) \in Paths
BY DEF Paths

LEMMA FilesNext == FilesAreKept /\ [FileNext]_fileVars => FilesAreKept'
<1> SUFFICES ASSUME FilesAreKept, [FileNext]_fileVars PROVE FilesAreKept'
  OBVIOUS
<1>0. /\ Kept(disk, temp, upload, records)
      /\ \A u \in Uploads : UploadIsKept(u, disk, temp, upload, taken)
      /\ \A r \in DOMAIN records : RowIsKept(r, disk, records, taken)
      /\ DownloadIsKept(download, records)
  BY DEF FilesAreKept
<1>a. \A r \in DOMAIN records : records[r] \in [path : Paths, live : BOOLEAN]
  <2>1. records \in Seq([path : Paths, live : BOOLEAN])
    BY <1>0 DEF Kept
  <2> QED
    BY <2>1, ElementOfSeq, LenProperties
<1>1. ASSUME NEW u \in Uploads, NEW t \in Tenants, NEW f \in Files, BeginUpload(u, t, f)
      PROVE  FilesAreKept'
  <2>1. Kept(disk', temp', upload', records')
    BY <1>0, <1>1 DEF Kept, BeginUpload
  <2>2. ASSUME NEW v \in Uploads PROVE UploadIsKept(v, disk', temp', upload', taken')
    BY <1>0, <1>1, <2>2, PathIsThere DEF Kept, UploadIsKept, BeginUpload
  <2> QED
    BY <1>0, <1>1, <2>1, <2>2 DEF FilesAreKept, BeginUpload
<1>2. ASSUME NEW u \in Uploads, WriteTemp(u) PROVE FilesAreKept'
  <2>1. Kept(disk', temp', upload', records')
    BY <1>0, <1>2 DEF Kept, WriteTemp
  <2>2. ASSUME NEW v \in Uploads PROVE UploadIsKept(v, disk', temp', upload', taken')
    BY <1>0, <1>2, <2>2 DEF Kept, UploadIsKept, WriteTemp
  <2> QED
    BY <1>0, <1>2, <2>1, <2>2 DEF FilesAreKept, WriteTemp
<1>3. ASSUME NEW u \in Uploads, RenameTemp(u) PROVE FilesAreKept'
  <2>1. upload[u].path \in Paths /\ temp[u] = "whole"
    BY <1>0, <1>3 DEF UploadIsKept, RenameTemp
  <2>2. Kept(disk', temp', upload', records')
    BY <1>0, <1>3, <2>1 DEF Kept, RenameTemp
  <2>3. ASSUME NEW v \in Uploads PROVE UploadIsKept(v, disk', temp', upload', taken')
    BY <1>0, <1>3, <2>1, <2>3 DEF Kept, UploadIsKept, RenameTemp
  <2>4. ASSUME NEW r \in DOMAIN records' PROVE RowIsKept(r, disk', records', taken')
    <3>1. records[r].path \in Paths /\ r \in DOMAIN records
      BY <1>a, <1>3, <2>4 DEF RenameTemp
    <3> QED
      BY <1>0, <1>3, <2>1, <3>1 DEF Kept, RowIsKept, RenameTemp
  <2> QED
    BY <1>0, <1>3, <2>2, <2>3, <2>4 DEF FilesAreKept, RenameTemp
<1>4. ASSUME NEW u \in Uploads, InsertRecord(u) PROVE FilesAreKept'
  <2>1. /\ upload[u].path \in Paths
        /\ disk[upload[u].path] = "whole" \/ upload[u].path \in taken
    BY <1>0, <1>4 DEF UploadIsKept, InsertRecord
  <2>2. /\ records' \in Seq([path : Paths, live : BOOLEAN])
        /\ DOMAIN records \subseteq DOMAIN records'
        /\ \A r \in DOMAIN records' :
             \/ r \in DOMAIN records /\ records'[r] = records[r]
             \/ records'[r] = [path |-> upload[u].path, live |-> TRUE]
    <3>1. CASE records' = Append(records, [path |-> upload[u].path, live |-> TRUE])
      <4>1. [path |-> upload[u].path, live |-> TRUE] \in [path : Paths, live : BOOLEAN]
        BY <2>1
      <4> QED
        BY <1>0, <3>1, <4>1, AppendProperties DEF Kept
    <3> QED
      BY <1>0, <1>4, <3>1 DEF Kept, InsertRecord
  <2>3. Kept(disk', temp', upload', records')
    BY <1>0, <1>4, <2>2 DEF Kept, InsertRecord
  <2>4. ASSUME NEW v \in Uploads PROVE UploadIsKept(v, disk', temp', upload', taken')
    BY <1>0, <1>4, <2>4 DEF Kept, UploadIsKept, InsertRecord, NoUpload
  <2>5. ASSUME NEW r \in DOMAIN records' PROVE RowIsKept(r, disk', records', taken')
    BY <1>0, <1>4, <2>1, <2>2, <2>5 DEF RowIsKept, InsertRecord
  <2>6. DownloadIsKept(download', records')
    BY <1>0, <1>4, <2>2 DEF DownloadIsKept, InsertRecord
  <2> QED
    BY <2>3, <2>4, <2>5, <2>6 DEF FilesAreKept
<1>5. ASSUME NEW r \in DOMAIN records, SoftDelete(r) PROVE FilesAreKept'
  <2>1. /\ records' \in Seq([path : Paths, live : BOOLEAN])
        /\ DOMAIN records' = DOMAIN records
        /\ \A s \in DOMAIN records : /\ records'[s].path = records[s].path
                                     /\ records'[s].live => records[s].live
    <3>1. records \in Seq([path : Paths, live : BOOLEAN]) /\ r \in 1..Len(records)
      BY <1>0, LenProperties DEF Kept
    <3>2. [records[r] EXCEPT !.live = FALSE] \in [path : Paths, live : BOOLEAN]
      BY <1>a
    <3>3. records' = [records EXCEPT ![r] = [records[r] EXCEPT !.live = FALSE]]
      BY <1>5 DEF SoftDelete
    <3>4. records' \in Seq([path : Paths, live : BOOLEAN])
      BY <3>1, <3>2, <3>3, ExceptSeq
    <3> QED
      BY <1>a, <3>3, <3>4
  <2>2. Kept(disk', temp', upload', records')
    BY <1>0, <1>5, <2>1 DEF Kept, SoftDelete
  <2>3. ASSUME NEW s \in DOMAIN records' PROVE RowIsKept(s, disk', records', taken')
    BY <1>0, <1>5, <2>1, <2>3 DEF RowIsKept, SoftDelete
  <2>4. DownloadIsKept(download', records')
    BY <1>0, <1>5, <2>1 DEF DownloadIsKept, SoftDelete
  <2> QED
    BY <1>0, <1>5, <2>2, <2>3, <2>4 DEF FilesAreKept, SoftDelete
<1>6. ASSUME NEW p \in Paths, RemoveFile(p) PROVE FilesAreKept'
  <2>1. Kept(disk', temp', upload', records')
    BY <1>0, <1>6 DEF Kept, RemoveFile
  <2>2. ASSUME NEW v \in Uploads PROVE UploadIsKept(v, disk', temp', upload', taken')
    BY <1>0, <1>6, <2>2 DEF Kept, UploadIsKept, RemoveFile
  <2>3. ASSUME NEW r \in DOMAIN records' PROVE RowIsKept(r, disk', records', taken')
    <3>1. records[r].path \in Paths /\ r \in DOMAIN records
      BY <1>a, <1>6, <2>3 DEF RemoveFile
    <3> QED
      BY <1>0, <1>6, <3>1 DEF Kept, RowIsKept, RemoveFile
  <2> QED
    BY <1>0, <1>6, <2>1, <2>2, <2>3 DEF FilesAreKept, RemoveFile
<1>7. ASSUME NEW r \in DOMAIN records, FindRecord(r) PROVE FilesAreKept'
  <2>1. DownloadIsKept(download', records')
    BY <1>0, <1>7 DEF DownloadIsKept, FindRecord
  <2> QED
    BY <1>0, <1>7, <2>1 DEF FilesAreKept, FindRecord
<1>8. ASSUME ReadFile PROVE FilesAreKept'
  <2>1. records[download.row].path \in Paths
    BY <1>a, <1>0, <1>8 DEF DownloadIsKept, ReadFile
  <2>2. disk[records[download.row].path] \in {"none", "whole"}
    BY <1>0, <2>1 DEF Kept
  <2>3. DownloadIsKept(download', records')
    BY <1>0, <1>8, <2>2 DEF DownloadIsKept, ReadFile
  <2> QED
    BY <1>0, <1>8, <2>3 DEF FilesAreKept, ReadFile
<1>9. ASSUME Answer PROVE FilesAreKept'
  BY <1>0, <1>9 DEF FilesAreKept, Answer, DownloadIsKept, NoDownload
<1>10. ASSUME FileCrash PROVE FilesAreKept'
  <2>1. Kept(disk', temp', upload', records')
    BY <1>0, <1>10 DEF Kept, FileCrash
  <2>2. ASSUME NEW v \in Uploads PROVE UploadIsKept(v, disk', temp', upload', taken')
    BY <1>10, <2>2 DEF UploadIsKept, FileCrash, NoUpload
  <2>3. DownloadIsKept(download', records')
    BY <1>10 DEF DownloadIsKept, FileCrash, NoDownload
  <2> QED
    BY <1>0, <1>10, <2>1, <2>2, <2>3 DEF FilesAreKept, FileCrash
<1>11. CASE UNCHANGED fileVars
  BY <1>0, <1>11 DEF FilesAreKept, fileVars
<1> QED
  BY <1>1, <1>2, <1>3, <1>4, <1>5, <1>6, <1>7, <1>8, <1>9, <1>10, <1>11 DEF FileNext

\* For any tenants, files and number of uploads at once, a live record has all
\* of its file, and no download reads half of one, unless removePhysicalFile()
\* took it: the rename is in one step and comes before the insertion.
THEOREM LiveRecordsHaveFilesEver == FileSpec => []LiveRecordsHaveFiles
<1>1. FilesAreKept => LiveRecordsHaveFiles
  BY DEF FilesAreKept, RowIsKept, DownloadIsKept, LiveRecordsHaveFiles
<1> QED
  BY <1>1, FilesInit, FilesNext, PTL DEF FileSpec

-----------------------------------------------------------------------------
(* Rooms.                                                                  *)

WsSpec == WsInit /\ [][WsNext]_wsVars

\* The entries of a client say what it last asked for, once per collection.
Told(entries, wants) ==
  /\ entries \in Seq(Entries) /\ wants \in [Topics -> SUBSET Actions]
  /\ \A i, j \in DOMAIN entries : entries[i].topic = entries[j].topic => i = j
  /\ \A i \in DOMAIN entries : entries[i].events = wants[entries[i].topic]
  /\ \A t \in Topics : wants[t] # {} => \E i \in DOMAIN entries : entries[i].topic = t

LEMMA EntriesAre ==
  ASSUME NEW entries \in Seq(Entries)
  PROVE  /\ DOMAIN entries = 1..Len(entries) /\ Len(entries) \in Nat
         /\ \A i \in DOMAIN entries : /\ entries[i] \in Entries /\ entries[i].topic \in Topics
                                   /\ entries[i].events \in SUBSET Actions
<1>1. DOMAIN entries = 1..Len(entries) /\ Len(entries) \in Nat
  BY LenProperties
<1>2. \A i \in DOMAIN entries : entries[i] \in Entries
  BY <1>1, ElementOfSeq
<1> QED
  BY <1>1, <1>2 DEF Entries

\* A subscription replaces the one for its collection, or is a new one.
LEMMA SubscribedTells ==
  ASSUME NEW entries, NEW wants, Told(entries, wants), NEW t \in Topics, NEW ev \in SUBSET Actions
  PROVE  Told(Subscribed(entries, [topic |-> t, events |-> ev]), [wants EXCEPT ![t] = ev])
<1> DEFINE sub == [topic |-> t, events |-> ev]
           same == {i \in DOMAIN entries : entries[i].topic = sub.topic}
           least == CHOOSE i \in same : \A j \in same : i <= j
           after == [wants EXCEPT ![t] = ev]
<1>0. /\ entries \in Seq(Entries) /\ wants \in [Topics -> SUBSET Actions]
      /\ \A i, j \in DOMAIN entries : entries[i].topic = entries[j].topic => i = j
      /\ \A i \in DOMAIN entries : entries[i].events = wants[entries[i].topic]
      /\ \A u \in Topics : wants[u] # {} => \E i \in DOMAIN entries : entries[i].topic = u
      /\ DOMAIN entries = 1..Len(entries) /\ Len(entries) \in Nat
      /\ \A i \in DOMAIN entries : entries[i] \in Entries /\ entries[i].topic \in Topics
  BY EntriesAre DEF Told
<1>1. sub \in Entries /\ sub.topic = t /\ sub.events = ev
  BY DEF Entries
<1>2. /\ after \in [Topics -> SUBSET Actions] /\ after[t] = ev
      /\ \A u \in Topics : u # t => after[u] = wants[u]
  BY <1>0
<1>3. CASE same = {}
  <2> DEFINE longer == Append(entries, sub)
  <2>1. Subscribed(entries, sub) = longer
    BY <1>3, Zenon DEF Subscribed
  <2>2. /\ longer \in Seq(Entries) /\ DOMAIN longer = 1..(Len(entries) + 1)
        /\ longer[Len(entries) + 1] = sub
        /\ \A i \in DOMAIN entries : longer[i] = entries[i]
    BY <1>0, <1>1
  <2>3. \A i \in DOMAIN entries : entries[i].topic # t
    BY <1>1, <1>3
  <2> HIDE DEF sub, after, longer, same
  <2>4. \A i \in DOMAIN longer : i \in DOMAIN entries \/ i = Len(entries) + 1
    BY <1>0, <2>2
  <2>5. \A i, j \in DOMAIN longer : longer[i].topic = longer[j].topic => i = j
    BY <1>0, <1>1, <2>2, <2>3, <2>4
  <2>6. \A i \in DOMAIN longer : longer[i].events = after[longer[i].topic]
    BY <1>0, <1>1, <1>2, <2>2, <2>3, <2>4
  <2>7. \A u \in Topics : after[u] # {} => \E i \in DOMAIN longer : longer[i].topic = u
    <3> SUFFICES ASSUME NEW u \in Topics, after[u] # {} PROVE \E i \in DOMAIN longer : longer[i].topic = u
      OBVIOUS
    <3>1. CASE u = t
      <4>1. Len(entries) + 1 \in DOMAIN longer
        BY <1>0, <2>2
      <4> QED
        BY <1>1, <2>2, <3>1, <4>1
    <3>2. CASE u # t
      <4>1. PICK i \in DOMAIN entries : entries[i].topic = u
        BY <1>0, <1>2, <3>2
      <4>2. i \in DOMAIN longer
        BY <1>0, <2>2, <4>1
      <4> QED
        BY <2>2, <4>1, <4>2
    <3> QED
      BY <3>1, <3>2
  <2>8. Told(longer, after)
    BY <1>2, <2>2, <2>5, <2>6, <2>7 DEF Told
  <2> QED
    BY <2>1, <2>8, Zenon DEF sub, after
<1>4. CASE same # {}
  <2>1. PICK k \in DOMAIN entries : entries[k].topic = t
    BY <1>1, <1>4
  <2>2. \A i \in same : i = k
    BY <1>0, <1>1, <2>1
  <2>3. k \in same /\ k \in Nat
    BY <1>0, <1>1, <2>1
  <2>4. least = k
    <3>1. \A j \in same : k <= j
      BY <2>2, <2>3
    <3> QED
      BY <2>2, <2>3, <3>1
  <2> DEFINE other == [entries EXCEPT ![k] = sub]
  <2>5. Subscribed(entries, sub) = other
    BY <1>4, <2>4, Zenon DEF Subscribed
  <2>6. /\ other \in Seq(Entries) /\ DOMAIN other = DOMAIN entries
        /\ other[k] = sub /\ \A i \in DOMAIN entries : i # k => other[i] = entries[i]
    BY <1>0, <1>1, <2>1, ExceptSeq
  <2> HIDE DEF sub, after, other, same, least
  <2>7. \A i \in DOMAIN entries : other[i].topic = entries[i].topic
    BY <1>1, <2>1, <2>6
  <2>8. \A i, j \in DOMAIN other : other[i].topic = other[j].topic => i = j
    BY <1>0, <2>6, <2>7
  <2>9. \A i \in DOMAIN other : other[i].events = after[other[i].topic]
    BY <1>0, <1>1, <1>2, <2>1, <2>6, <2>7
  <2>10. \A u \in Topics : after[u] # {} => \E i \in DOMAIN other : other[i].topic = u
    <3> SUFFICES ASSUME NEW u \in Topics, after[u] # {} PROVE \E i \in DOMAIN other : other[i].topic = u
      OBVIOUS
    <3>1. CASE u = t
      BY <2>1, <2>6, <2>7, <3>1
    <3>2. CASE u # t
      <4>1. PICK i \in DOMAIN entries : entries[i].topic = u
        BY <1>0, <1>2, <3>2
      <4> QED
        BY <2>6, <2>7, <4>1
    <3> QED
      BY <3>1, <3>2
  <2>11. Told(other, after)
    BY <1>2, <2>6, <2>8, <2>9, <2>10 DEF Told
  <2> QED
    BY <2>5, <2>11, Zenon DEF sub, after
<1> QED
  BY <1>3, <1>4

\* unsubscribe() leaves the entries for other collections.
LEMMA FilteredTells ==
  ASSUME NEW entries, NEW wants, Told(entries, wants), NEW t \in Topics
  PROVE  Told(Filter(entries, {e \in Entries : e.topic # t}), [wants EXCEPT ![t] = {}])
<1> DEFINE kept == {e \in Entries : e.topic # t}
           after == [wants EXCEPT ![t] = {}]
<1>0. /\ entries \in Seq(Entries) /\ wants \in [Topics -> SUBSET Actions]
      /\ \A i, j \in DOMAIN entries : entries[i].topic = entries[j].topic => i = j
      /\ \A i \in DOMAIN entries : entries[i].events = wants[entries[i].topic]
      /\ \A u \in Topics : wants[u] # {} => \E i \in DOMAIN entries : entries[i].topic = u
      /\ DOMAIN entries = 1..Len(entries) /\ Len(entries) \in Nat
      /\ \A i \in DOMAIN entries : entries[i] \in Entries /\ entries[i].topic \in Topics
  BY EntriesAre DEF Told
<1>1. /\ after \in [Topics -> SUBSET Actions] /\ after[t] = {}
      /\ \A u \in Topics : u # t => after[u] = wants[u]
  BY <1>0
<1>2. \A e \in Entries : e \in kept <=> e.topic # t
  OBVIOUS
<1> HIDE DEF kept, after
<1>a. entries \in Seq(Entries)
  BY <1>0
<1>2b. PICK rest : rest = Filter(entries, kept)
  OBVIOUS
<1>3. rest \in Seq(Entries)
  BY <1>a, <1>2b, FilterFacts
<1>4. PICK place \in [1..Len(rest) -> DOMAIN entries] :
           /\ \A k \in 1..Len(rest) : rest[k] = entries[place[k]] /\ entries[place[k]] \in kept
           /\ \A k, l \in 1..Len(rest) : k < l => place[k] < place[l]
           /\ \A i \in DOMAIN entries : entries[i] \in kept => \E k \in 1..Len(rest) : place[k] = i
  BY <1>a, <1>2b, FilterFacts
<1>5. DOMAIN rest = 1..Len(rest) /\ Len(rest) \in Nat
  BY <1>3, EntriesAre
<1>6. \A i, j \in DOMAIN rest : place[i] = place[j] => i = j
  <2> SUFFICES ASSUME NEW i \in DOMAIN rest, NEW j \in DOMAIN rest, place[i] = place[j] PROVE i = j
    OBVIOUS
  <2>1. i \in Nat /\ j \in Nat /\ place[i] \in Nat /\ place[j] \in Nat
    BY <1>0, <1>4, <1>5
  <2>2. ~(i < j) /\ ~(j < i)
    BY <1>4, <1>5, <2>1
  <2> QED
    BY <2>1, <2>2
<1>7. \A i, j \in DOMAIN rest : rest[i].topic = rest[j].topic => i = j
  BY <1>0, <1>4, <1>5, <1>6
<1>8. \A i \in DOMAIN rest : rest[i].topic # t /\ rest[i].topic \in Topics
  BY <1>0, <1>2, <1>4, <1>5
<1>9. \A i \in DOMAIN rest : rest[i].events = after[rest[i].topic]
  BY <1>0, <1>1, <1>4, <1>5, <1>8
<1>10. \A u \in Topics : after[u] # {} => \E i \in DOMAIN rest : rest[i].topic = u
  <2> SUFFICES ASSUME NEW u \in Topics, after[u] # {} PROVE \E i \in DOMAIN rest : rest[i].topic = u
    OBVIOUS
  <2>1. PICK i \in DOMAIN entries : entries[i].topic = u
    BY <1>0, <1>1
  <2>2. entries[i] \in kept
    BY <1>0, <1>1, <1>2, <2>1
  <2>3. PICK k \in 1..Len(rest) : place[k] = i
    BY <1>4, <2>2
  <2> QED
    BY <1>4, <1>5, <2>1, <2>3
<1>11. Told(rest, after)
  BY <1>1, <1>3, <1>7, <1>9, <1>10 DEF Told
<1> QED
  BY <1>2b, <1>11 DEF after, kept

\* A client is found for a change once if it asked for it, and else not at all.
LEMMA FoundOnce ==
  ASSUME NEW entries, NEW wants, Told(entries, wants), NEW t \in Topics, NEW act \in Actions
  PROVE  Cardinality({i \in DOMAIN entries : entries[i].topic = t /\ act \in entries[i].events})
           = IF act \in wants[t] THEN 1 ELSE 0
<1> DEFINE found == {i \in DOMAIN entries : entries[i].topic = t /\ act \in entries[i].events}
<1>1. CASE act \in wants[t]
  <2>1. PICK i \in DOMAIN entries : entries[i].topic = t
    BY <1>1 DEF Told
  <2>2. found = {i}
    BY <1>1, <2>1 DEF Told
  <2> QED
    BY <1>1, <2>2, FS_Singleton
<1>2. CASE act \notin wants[t]
  <2>1. found = {}
    BY <1>2 DEF Told
  <2> QED
    BY <1>2, <2>1, FS_EmptySet
<1> QED
  BY <1>1, <1>2

AllTold ==
  /\ DOMAIN subs = Clients /\ DOMAIN asked = Clients
  /\ \A c \in Clients : Told(subs[c], asked[c])

LEMMA RoomsInit == WsInit => AllTold /\ SentToThoseWhoAsked
<1> SUFFICES ASSUME WsInit PROVE AllTold /\ SentToThoseWhoAsked
  OBVIOUS
<1>1. Told(<<>>, [t \in Topics |-> {}])
  BY DEF Told
<1> QED
  BY <1>1 DEF WsInit, AllTold, SentToThoseWhoAsked

LEMMA RoomsNext == AllTold /\ SentToThoseWhoAsked /\ [WsNext]_wsVars => AllTold' /\ SentToThoseWhoAsked'
<1> SUFFICES ASSUME AllTold, SentToThoseWhoAsked, [WsNext]_wsVars PROVE AllTold' /\ SentToThoseWhoAsked'
  OBVIOUS
<1>0. Quiet => SentToThoseWhoAsked'
  BY DEF Quiet, SentToThoseWhoAsked, NoChange
<1>1. ASSUME NEW c \in Clients, RegisterClient(c) PROVE AllTold' /\ SentToThoseWhoAsked'
  BY <1>0, <1>1 DEF RegisterClient, AllTold
<1>2. ASSUME NEW c \in Clients, RemoveClient(c) PROVE AllTold' /\ SentToThoseWhoAsked'
  <2>1. Told(<<>>, [t \in Topics |-> {}])
    BY DEF Told
  <2> QED
    BY <1>0, <1>2, <2>1 DEF RemoveClient, AllTold
<1>3. ASSUME NEW c \in Clients, NEW t \in Topics, Unsubscribe(c, t) PROVE AllTold' /\ SentToThoseWhoAsked'
  <2>1. Told(Filter(subs[c], {e \in Entries : e.topic # t}), [asked[c] EXCEPT ![t] = {}])
    BY FilteredTells DEF AllTold
  <2> DEFINE rest == Filter(subs[c], {e \in Entries : e.topic # t})
             after == [asked[c] EXCEPT ![t] = {}]
  <2>2. subs' = [subs EXCEPT ![c] = rest] /\ asked' = [asked EXCEPT ![c] = after] /\ Quiet
    BY <1>3 DEF Unsubscribe
  <2>3. Told(rest, after)
    BY <2>1
  <2> HIDE DEF rest, after
  <2> QED
    BY <1>0, <2>2, <2>3 DEF AllTold
<1>4. ASSUME NEW c \in Clients, NEW t \in Topics, NEW events \in SUBSET EventNames, Subscribe(c, t, events)
      PROVE  AllTold' /\ SentToThoseWhoAsked'
  <2> DEFINE ev == events \cap Actions
             more == Subscribed(subs[c], [topic |-> t, events |-> ev])
             after == [asked[c] EXCEPT ![t] = ev]
  <2>1. ev \in SUBSET Actions
    OBVIOUS
  <2>2. Told(more, after)
    <3> HIDE DEF ev
    <3> QED
      BY <2>1, SubscribedTells DEF AllTold
  <2>3. subs' = [subs EXCEPT ![c] = more] /\ asked' = [asked EXCEPT ![c] = after] /\ Quiet
    BY <1>4 DEF Subscribe
  <2> HIDE DEF more, after
  <2> QED
    BY <1>0, <2>2, <2>3 DEF AllTold
<1>5. ASSUME NEW tenant, NEW t \in Topics, NEW act \in Actions, HandleChangeEvent(tenant, t, act)
      PROVE  AllTold' /\ SentToThoseWhoAsked'
  <2>1. AllTold'
    BY <1>5 DEF HandleChangeEvent, AllTold
  <2>2. ASSUME NEW c \in Clients
        PROVE  GetSubscribers(t, act)[c] = IF act \in asked[c][t] THEN 1 ELSE 0
    <3>1. Told(subs[c], asked[c])
      BY DEF AllTold
    <3>2. Cardinality({i \in DOMAIN subs[c] : subs[c][i].topic = t /\ act \in subs[c][i].events})
            = IF act \in asked[c][t] THEN 1 ELSE 0
      BY <3>1, FoundOnce
    <3> QED
      BY <3>2 DEF GetSubscribers
  <2>3. /\ change'.tenant = tenant /\ change'.topic = t /\ change'.action = act
        /\ sentTo' = [c \in Clients |-> IF c \in connected /\ TenantOf[c] = tenant
                                        THEN GetSubscribers(t, act)[c] ELSE 0]
        /\ connected' = connected /\ asked' = asked
    BY <1>5 DEF HandleChangeEvent
  <2>4. SentToThoseWhoAsked'
    BY <2>2, <2>3 DEF SentToThoseWhoAsked
  <2> QED
    BY <2>1, <2>4
<1>6. CASE UNCHANGED wsVars
  BY <1>6 DEF wsVars, AllTold, SentToThoseWhoAsked
<1> QED
  BY <1>1, <1>2, <1>3, <1>4, <1>5, <1>6 DEF WsNext

\* For any clients, tenants and collections, a change reaches those, and only
\* those, whose last word on it was to want it, and reaches them once.
THEOREM SentToThoseWhoAskedEver == WsSpec => []SentToThoseWhoAsked
BY RoomsInit, RoomsNext, PTL DEF WsSpec

-----------------------------------------------------------------------------
(* Channels.                                                               *)

PubSubSpec == PubSubInit /\ [][PubSubNext]_pubsubVars

\* Handlers that were called have ended or are waited for, until the call ends.
Owes(state, waits, ow, rn) ==
  /\ state \in {"idle", "refused"} => waits = {} /\ ow = {} /\ rn = {}
  /\ state = "waiting" => rn \cup waits = ow
  /\ state = "done" => waits = {} /\ rn = ow
  /\ state \in {"idle", "refused", "waiting", "done"}

AllOwe ==
  /\ DOMAIN publishing = Publishers /\ DOMAIN waitsFor = Publishers
  /\ DOMAIN owed = Publishers /\ DOMAIN ran = Publishers
  /\ \A p \in Publishers : Owes(publishing[p], waitsFor[p], owed[p], ran[p])

LEMMA ChannelsInit == PubSubInit => AllOwe
BY DEF PubSubInit, AllOwe, Owes

LEMMA ChannelsNext == AllOwe /\ [PubSubNext]_pubsubVars => AllOwe'
<1> SUFFICES ASSUME AllOwe, [PubSubNext]_pubsubVars PROVE AllOwe'
  OBVIOUS
<1>1. ASSUME NEW p \in Publishers, Publish(p) PROVE AllOwe'
  <2>1. DOMAIN publishing' = Publishers /\ DOMAIN waitsFor' = Publishers
        /\ DOMAIN owed' = Publishers /\ DOMAIN ran' = Publishers
    BY <1>1 DEF Publish, AllOwe
  <2>2. ASSUME NEW q \in Publishers, q # p PROVE Owes(publishing'[q], waitsFor'[q], owed'[q], ran'[q])
    BY <1>1, <2>2 DEF Publish, AllOwe
  <2>3. Owes(publishing[p], waitsFor[p], owed[p], ran[p])
    BY DEF AllOwe
  <2>4. Owes(publishing'[p], waitsFor'[p], owed'[p], ran'[p])
    BY <1>1, <2>3 DEF Publish, AllOwe, Owes
  <2> QED
    BY <2>1, <2>2, <2>4 DEF AllOwe
<1>2. ASSUME NEW p \in Publishers, Return(p) PROVE AllOwe'
  BY <1>2 DEF Return, AllOwe, Owes
<1>3. ASSUME NEW p \in Publishers, NEW h \in Handlers, Finish(p, h) PROVE AllOwe'
  <2>1. DOMAIN publishing' = Publishers /\ DOMAIN waitsFor' = Publishers
        /\ DOMAIN owed' = Publishers /\ DOMAIN ran' = Publishers
    BY <1>3 DEF Finish, AllOwe
  <2>2. ASSUME NEW q \in Publishers, q # p PROVE Owes(publishing'[q], waitsFor'[q], owed'[q], ran'[q])
    BY <1>3, <2>2 DEF Finish, AllOwe
  <2>3. Owes(publishing[p], waitsFor[p], owed[p], ran[p])
    BY DEF AllOwe
  <2>4. /\ publishing[p] = "waiting" /\ h \in waitsFor[p]
        /\ ran'[p] = ran[p] \cup {h} /\ waitsFor'[p] = waitsFor[p] \ {h} /\ owed'[p] = owed[p]
        /\ publishing'[p] = IF waitsFor[p] = {h} THEN "done" ELSE publishing[p]
    BY <1>3, <2>3 DEF Finish, AllOwe, Owes
  <2>5. ran'[p] \cup waitsFor'[p] = owed'[p]
    BY <2>3, <2>4 DEF Owes
  <2>6. Owes(publishing'[p], waitsFor'[p], owed'[p], ran'[p])
    <3>1. CASE waitsFor[p] = {h}
      BY <2>4, <2>5, <3>1 DEF Owes
    <3>2. CASE waitsFor[p] # {h}
      BY <2>4, <2>5, <3>2 DEF Owes
    <3> QED
      BY <3>1, <3>2
  <2> QED
    BY <2>1, <2>2, <2>6 DEF AllOwe
<1>4. ASSUME UNCHANGED <<publishing, waitsFor, owed, ran>> PROVE AllOwe'
  BY <1>4 DEF AllOwe
<1>5. CASE \E h \in Handlers : SubscribeHandler(h) \/ UnsubscribeHandler(h)
  BY <1>4, <1>5 DEF SubscribeHandler, UnsubscribeHandler
<1>6. CASE CloseChannels
  BY <1>4, <1>6 DEF CloseChannels
<1>7. CASE UNCHANGED pubsubVars
  BY <1>4, <1>7 DEF pubsubVars
<1> QED
  BY <1>1, <1>2, <1>3, <1>5, <1>6, <1>7 DEF PubSubNext

LEMMA WaitsForAll == AllOwe => PublishWaitsForAll
BY DEF AllOwe, Owes, PublishWaitsForAll

\* For any handlers and publishers, a publish() that returns has waited for all
\* handlers there were, and only for those.
THEOREM PublishWaitsForAllEver == PubSubSpec => []PublishWaitsForAll
BY ChannelsInit, ChannelsNext, WaitsForAll, PTL DEF PubSubSpec

-----------------------------------------------------------------------------
(* Notifications.                                                          *)

NotifySpec == NotifyInit /\ [][NotifyNext]_notifyVars

\* A sequence of providers without repetitions.
Distinct(s) ==
  /\ s \in Seq(Providers) /\ DOMAIN s = 1..Len(s) /\ Len(s) \in Nat
  /\ \A i, j \in 1..Len(s) : s[i] = s[j] => i = j

\* How far a call has come: it has a result per name it is done with, and those
\* whose turn is to come have sent nothing.
CameTo(names, results, snt) ==
  /\ Distinct(names)
  /\ DOMAIN results = 1..Len(results) /\ Len(results) \in Nat /\ Len(results) <= Len(names)
  /\ \A i \in 1..Len(results) :
       results[i].by = names[i] /\ (results[i].success => snt[names[i]] = 1)
  /\ \A i \in 1..Len(names) : i > Len(results) => snt[names[i]] = 0

Fanning ==
  /\ Distinct(registered)
  /\ sent \in [Providers -> {0, 1}]
  /\ DOMAIN fanout = {"at", "names", "results", "to"}
  /\ CameTo(fanout.names, fanout.results, sent)
  /\ fanout.at \in {"idle", "next", "waiting", "resolved", "rejected"}
  /\ fanout.at \in {"waiting", "rejected"} => Unsent
  /\ fanout.at = "resolved" => ~Unsent
  /\ fanout.at = "rejected" => Current \in removed
  /\ fanout.at \in {"next", "waiting"} =>
       \A i \in 1..Len(fanout.names) :
         (\E j \in 1..Len(registered) : registered[j] = fanout.names[i]) \/ fanout.names[i] \in removed

LEMMA NobodyYet == Distinct(<<>>)
BY DEF Distinct

LEMMA NoneYet ==
  ASSUME NEW names, Distinct(names), NEW snt, \A p \in Providers : snt[p] = 0
  PROVE  CameTo(names, <<>>, snt)
<1>1. \A i \in 1..Len(names) : names[i] \in Providers
  BY DEF Distinct
<1> QED
  BY <1>1 DEF CameTo, Distinct

\* One more result.
LEMMA OneMore ==
  ASSUME NEW names, NEW results, NEW snt \in [Providers -> {0, 1}], CameTo(names, results, snt),
         Len(results) < Len(names), NEW left \in BOOLEAN, NEW ok \in BOOLEAN, ok => left,
         NEW p, p = names[Len(results) + 1],
         NEW more, more = Append(results, [by |-> p, success |-> ok]),
         NEW after, after = [snt EXCEPT ![p] = IF left THEN @ + 1 ELSE @]
  PROVE  after \in [Providers -> {0, 1}] /\ CameTo(names, more, after)
<1> DEFINE n == Len(results)
<1>0. /\ Distinct(names)
      /\ DOMAIN results = 1..n /\ n \in Nat /\ n <= Len(names)
      /\ \A i \in 1..n : results[i].by = names[i] /\ (results[i].success => snt[names[i]] = 1)
      /\ \A i \in 1..Len(names) : i > n => snt[names[i]] = 0
  BY DEF CameTo
<1>1. /\ names \in Seq(Providers) /\ DOMAIN names = 1..Len(names) /\ Len(names) \in Nat
      /\ \A i, j \in 1..Len(names) : names[i] = names[j] => i = j
      /\ \A i \in 1..Len(names) : names[i] \in Providers
  BY <1>0 DEF Distinct
<1>2. n + 1 \in 1..Len(names) /\ p = names[n + 1] /\ p \in Providers /\ snt[p] = 0
  BY <1>0, <1>1
<1>3. after \in [Providers -> {0, 1}] /\ after[p] = (IF left THEN 1 ELSE 0) /\ \A q \in Providers : q # p => after[q] = snt[q]
  BY <1>2
<1>4. /\ DOMAIN more = 1..(n + 1) /\ Len(more) = n + 1 /\ more[n + 1] = [by |-> p, success |-> ok]
      /\ \A i \in 1..n : more[i] = results[i]
  BY <1>0
<1> HIDE DEF n
<1>5. ASSUME NEW i \in 1..(n + 1)
      PROVE  more[i].by = names[i] /\ (more[i].success => after[names[i]] = 1)
  <2>1. CASE i = n + 1
    BY <1>2, <1>3, <1>4, <2>1
  <2>2. CASE i # n + 1
    <3>1. i \in 1..n /\ i \in 1..Len(names)
      BY <1>0, <1>1, <2>2
    <3>2. names[i] # p /\ names[i] \in Providers
      BY <1>1, <1>2, <2>2, <3>1
    <3> QED
      BY <1>0, <1>3, <1>4, <3>1, <3>2
  <2> QED
    BY <2>1, <2>2
<1>6. ASSUME NEW i \in 1..Len(names), i > n + 1 PROVE after[names[i]] = 0
  <2>1. i > n /\ i # n + 1
    BY <1>0, <1>1, <1>6
  <2>2. names[i] # p /\ names[i] \in Providers
    BY <1>1, <1>2, <2>1
  <2> QED
    BY <1>0, <1>3, <2>1, <2>2
<1>7. n + 1 \in Nat /\ n + 1 <= Len(names)
  BY <1>0, <1>1, <1>2
<1> QED
  BY <1>0, <1>3, <1>4, <1>5, <1>6, <1>7 DEF CameTo

\* A provider that leaves is all that leaves.
LEMMA OneLess ==
  ASSUME NEW s, Distinct(s), NEW p \in Providers, NEW T, \A q \in Providers : q \in T <=> q # p,
         NEW rest, rest = Filter(s, T)
  PROVE  /\ Distinct(rest)
         /\ \A i \in 1..Len(s) : s[i] # p => \E k \in 1..Len(rest) : rest[k] = s[i]
<1>0. /\ s \in Seq(Providers) /\ DOMAIN s = 1..Len(s) /\ Len(s) \in Nat
      /\ \A i, j \in 1..Len(s) : s[i] = s[j] => i = j
      /\ \A i \in 1..Len(s) : s[i] \in Providers
  BY DEF Distinct
<1>a. s \in Seq(Providers)
  BY <1>0
<1>3. rest \in Seq(Providers)
  BY <1>a, FilterFacts
<1>4. PICK place \in [1..Len(rest) -> DOMAIN s] :
           /\ \A k \in 1..Len(rest) : rest[k] = s[place[k]] /\ s[place[k]] \in T
           /\ \A k, l \in 1..Len(rest) : k < l => place[k] < place[l]
           /\ \A i \in DOMAIN s : s[i] \in T => \E k \in 1..Len(rest) : place[k] = i
  BY <1>a, FilterFacts
<1>5. DOMAIN rest = 1..Len(rest) /\ Len(rest) \in Nat
  BY <1>3, LenProperties
<1>6. ASSUME NEW i \in 1..Len(rest), NEW j \in 1..Len(rest), rest[i] = rest[j] PROVE i = j
  <2>a. place[i] \in 1..Len(s) /\ place[j] \in 1..Len(s) /\ s[place[i]] = s[place[j]]
    BY <1>0, <1>4, <1>6
  <2>1. place[i] = place[j] /\ place[i] \in Nat /\ place[j] \in Nat /\ i \in Nat /\ j \in Nat
    BY <1>0, <1>5, <2>a
  <2>2. ~(i < j) /\ ~(j < i)
    BY <1>4, <2>1
  <2> QED
    BY <2>1, <2>2
<1>7. ASSUME NEW i \in 1..Len(s), s[i] # p PROVE \E k \in 1..Len(rest) : rest[k] = s[i]
  BY <1>0, <1>4, <1>7
<1> QED
  BY <1>3, <1>5, <1>6, <1>7 DEF Distinct

\* All of s is in t.
Within(s, t) == \A i \in 1..Len(s) : \E k \in 1..Len(t) : t[k] = s[i]
Lacks(s, p) == \A i \in 1..Len(s) : s[i] # p

\* A provider that comes stands at the end.
LEMMA OneComes ==
  ASSUME NEW s, Distinct(s), NEW p \in Providers, Lacks(s, p)
  PROVE  Distinct(Append(s, p)) /\ Within(s, Append(s, p))
<1>m. PICK more : more = Append(s, p)
  OBVIOUS
<1>0. /\ s \in Seq(Providers) /\ DOMAIN s = 1..Len(s) /\ Len(s) \in Nat
      /\ \A i, j \in 1..Len(s) : s[i] = s[j] => i = j
  BY DEF Distinct
<1>1. /\ more \in Seq(Providers) /\ DOMAIN more = 1..Len(more) /\ Len(more) = Len(s) + 1
      /\ more[Len(s) + 1] = p /\ \A i \in 1..Len(s) : more[i] = s[i]
  BY <1>0, <1>m
<1>2. \A i \in 1..Len(more) : i \in 1..Len(s) \/ i = Len(s) + 1
  BY <1>0, <1>1
<1>3. \A i, j \in 1..Len(more) : more[i] = more[j] => i = j
  BY <1>0, <1>1, <1>2 DEF Lacks
<1>4. \A i \in 1..Len(s) : i \in 1..Len(more)
  BY <1>0, <1>1
<1> QED
  BY <1>m, <1>0, <1>1, <1>3, <1>4 DEF Distinct, Within

LEMMA FanningInit == NotifyInit => Fanning
<1> SUFFICES ASSUME NotifyInit PROVE Fanning
  OBVIOUS
<1>1. CameTo(<<>>, <<>>, sent)
  BY NobodyYet, NoneYet DEF NotifyInit
<1> QED
  BY <1>1, NobodyYet DEF NotifyInit, Fanning, NoFanout

\* Who is registered: those that ToSet() tells.
LEMMA ToSetIs ==
  ASSUME NEW s, Distinct(s), NEW p
  PROVE  p \in ToSet(s) <=> \E i \in 1..Len(s) : s[i] = p
BY DEF ToSet, Distinct

LEMMA FanningNext == Fanning /\ [NotifyNext]_notifyVars => Fanning'
<1> SUFFICES ASSUME Fanning, [NotifyNext]_notifyVars PROVE Fanning'
  OBVIOUS
<1>0. /\ Distinct(registered)
      /\ sent \in [Providers -> {0, 1}]
      /\ DOMAIN fanout = {"at", "names", "results", "to"}
      /\ CameTo(fanout.names, fanout.results, sent)
  BY DEF Fanning
<1>1. ASSUME NEW p \in Providers, RegisterProvider(p) PROVE Fanning'
  <2>1. \A i \in 1..Len(registered) : registered[i] # p
    BY <1>0, <1>1, ToSetIs DEF RegisterProvider
  <2>2. /\ Distinct(registered')
        /\ \A i \in 1..Len(registered) : \E k \in 1..Len(registered') : registered'[k] = registered[i]
    <3>1. Distinct(registered) /\ Lacks(registered, p)
      BY <1>0, <2>1 DEF Lacks
    <3>2. Distinct(Append(registered, p)) /\ Within(registered, Append(registered, p))
      BY <3>1, OneComes
    <3>3. registered' = Append(registered, p)
      BY <1>1 DEF RegisterProvider
    <3>4. Distinct(registered') /\ Within(registered, registered')
      BY <3>2, <3>3, Zenon
    <3> QED
      BY <3>4 DEF Within
  <2>3. /\ fanout' = fanout /\ sent' = sent /\ removed' = removed
        /\ (Unsent <=> Unsent') /\ Current' = Current
    BY <1>1 DEF RegisterProvider, Unsent, Current
  <2> QED
    BY <2>2, <2>3 DEF Fanning
<1>2. ASSUME NEW p \in Providers, UnregisterProvider(p) PROVE Fanning'
  <2>a. PICK T : T = Providers \ {p}
    OBVIOUS
  <2>b. registered' = Filter(registered, T) /\ \A q \in Providers : q \in T <=> q # p
    BY <1>2, <2>a DEF UnregisterProvider
  <2>1. /\ Distinct(registered')
        /\ \A i \in 1..Len(registered) : registered[i] # p => \E k \in 1..Len(registered') : registered'[k] = registered[i]
    BY <1>0, <2>b, OneLess
  <2>2. /\ fanout' = fanout /\ sent' = sent /\ removed' = removed \cup {p}
        /\ (Unsent <=> Unsent') /\ Current' = Current
    BY <1>2 DEF UnregisterProvider, Unsent, Current
  <2>3. fanout.at \in {"next", "waiting"} =>
          \A i \in 1..Len(fanout.names) :
            (\E j \in 1..Len(registered') : registered'[j] = fanout.names[i]) \/ fanout.names[i] \in removed'
    BY <2>1, <2>2 DEF Fanning
  <2> QED
    BY <2>1, <2>2, <2>3 DEF Fanning
<1>3. ASSUME NEW r \in Recipients, SendAll(r) PROVE Fanning'
  <2>1. /\ registered' = registered /\ sent' = [p \in Providers |-> 0]
        /\ fanout' = [at |-> "next", names |-> registered, results |-> <<>>, to |-> r]
    BY <1>3 DEF SendAll
  <2>2. CameTo(fanout'.names, fanout'.results, sent')
    BY <1>0, <2>1, NoneYet
  <2>3. sent' \in [Providers -> {0, 1}]
    BY <2>1
  <2>4. DOMAIN fanout' = {"at", "names", "results", "to"} /\ fanout'.at = "next" /\ fanout'.names = registered'
    BY <2>1
  <2> QED
    BY <1>0, <2>1, <2>2, <2>3, <2>4 DEF Fanning
<1>4. ASSUME CallProvider PROVE Fanning'
  <2>1. /\ registered' = registered /\ sent' = sent /\ removed' = removed
        /\ fanout.at = "next" /\ Unsent
        /\ fanout' = [fanout EXCEPT !.at = IF Current \in ToSet(registered) THEN "waiting" ELSE "rejected"]
    BY <1>4 DEF CallProvider
  <2>2. /\ fanout'.names = fanout.names /\ fanout'.results = fanout.results
        /\ DOMAIN fanout' = {"at", "names", "results", "to"}
        /\ (Unsent <=> Unsent') /\ Current' = Current
    BY <1>0, <2>1 DEF Unsent, Current
  <2>3. CASE Current \in ToSet(registered)
    <3>1. fanout'.at = "waiting"
      BY <1>0, <2>1, <2>3
    <3> QED
      BY <2>1, <2>2, <3>1 DEF Fanning
  <2>4. CASE Current \notin ToSet(registered)
    <3>1. fanout'.at = "rejected"
      BY <1>0, <2>1, <2>4
    <3>2. ~ \E i \in 1..Len(registered) : registered[i] = Current
      BY <1>0, <2>4, ToSetIs
    <3>3. Len(fanout.results) + 1 \in 1..Len(fanout.names)
      BY <1>0, <2>1 DEF Unsent, CameTo, Distinct
    <3>4. Current \in removed
      BY <2>1, <3>2, <3>3 DEF Fanning, Current
    <3> QED
      BY <2>1, <2>2, <3>1, <3>4 DEF Fanning
  <2> QED
    BY <2>3, <2>4
<1>5. ASSUME ProviderEnds PROVE Fanning'
  <2>1. PICK left \in BOOLEAN, ok \in BOOLEAN :
          /\ ok => left
          /\ sent' = [sent EXCEPT ![Current] = IF left THEN @ + 1 ELSE @]
          /\ fanout' = [fanout EXCEPT !.at = "next", !.results = Append(@, [by |-> Current, success |-> ok])]
    BY <1>5 DEF ProviderEnds
  <2>2. fanout.at = "waiting" /\ Unsent /\ registered' = registered /\ removed' = removed
    BY <1>5 DEF ProviderEnds, Fanning
  <2>3. Len(fanout.results) < Len(fanout.names)
    BY <2>2 DEF Unsent
  <2>4. PICK p : p = fanout.names[Len(fanout.results) + 1]
    OBVIOUS
  <2>5. Current = p
    BY <2>4 DEF Current
  <2>6. /\ fanout'.at = "next" /\ fanout'.names = fanout.names
        /\ fanout'.results = Append(fanout.results, [by |-> p, success |-> ok])
        /\ DOMAIN fanout' = {"at", "names", "results", "to"}
    BY <1>0, <2>1, <2>5
  <2>7. sent' = [sent EXCEPT ![p] = IF left THEN @ + 1 ELSE @]
    BY <2>1, <2>5
  <2>8. sent' \in [Providers -> {0, 1}] /\ CameTo(fanout.names, fanout'.results, sent')
    <3>1. ok => left
      BY <2>1
    <3>2. fanout'.results = Append(fanout.results, [by |-> p, success |-> ok])
      BY <2>6
    <3>3. sent \in [Providers -> {0, 1}] /\ CameTo(fanout.names, fanout.results, sent)
      BY <1>0
    <3>4. PICK names : names = fanout.names
      OBVIOUS
    <3>5. PICK results : results = fanout.results
      OBVIOUS
    <3>6. PICK snt : snt = sent
      OBVIOUS
    <3>7. PICK after : after = sent'
      OBVIOUS
    <3>8. PICK more : more = fanout'.results
      OBVIOUS
    <3>9. /\ snt \in [Providers -> {0, 1}] /\ CameTo(names, results, snt) /\ Len(results) < Len(names)
          /\ p = names[Len(results) + 1]
          /\ more = Append(results, [by |-> p, success |-> ok])
          /\ after = [snt EXCEPT ![p] = IF left THEN @ + 1 ELSE @]
      BY <2>3, <2>4, <2>7, <3>2, <3>3, <3>4, <3>5, <3>6, <3>7, <3>8
    <3>10. after \in [Providers -> {0, 1}] /\ CameTo(names, more, after)
      BY <3>1, <3>9, OneMore
    <3> QED
      BY <3>4, <3>7, <3>8, <3>10
  <2> QED
    BY <1>0, <2>2, <2>6, <2>8 DEF Fanning
<1>6. ASSUME AllSent PROVE Fanning'
  <2>1. /\ registered' = registered /\ sent' = sent /\ removed' = removed
        /\ fanout'.names = fanout.names /\ fanout'.results = fanout.results
        /\ fanout'.at = "resolved" /\ DOMAIN fanout' = {"at", "names", "results", "to"}
        /\ ~Unsent /\ (Unsent <=> Unsent')
    BY <1>0, <1>6 DEF AllSent, Unsent
  <2> QED
    BY <1>0, <2>1 DEF Fanning
<1>7. ASSUME CallerReads PROVE Fanning'
  <2>1. /\ registered' = registered /\ sent' = sent /\ removed' = removed /\ fanout' = NoFanout
    BY <1>7 DEF CallerReads
  <2>2. CameTo(<<>>, <<>>, sent)
    BY DEF CameTo, Distinct
  <2> QED
    BY <1>0, <2>1, <2>2 DEF Fanning, NoFanout
<1>8. CASE UNCHANGED notifyVars
  BY <1>8 DEF notifyVars, Fanning, Unsent, Current
<1> QED
  BY <1>1, <1>2, <1>3, <1>4, <1>5, <1>6, <1>7, <1>8 DEF NotifyNext

LEMMA FanningMeant == Fanning => FanoutIsTrue
<1> SUFFICES ASSUME Fanning PROVE FanoutIsTrue
  OBVIOUS
<1>1. /\ sent \in [Providers -> {0, 1}]
      /\ CameTo(fanout.names, fanout.results, sent)
      /\ fanout.at = "resolved" => ~Unsent
      /\ fanout.at = "rejected" => Current \in removed
  BY DEF Fanning
<1>2. \A i \in DOMAIN fanout.results :
        /\ fanout.results[i].by = fanout.names[i]
        /\ (fanout.results[i].success => sent[fanout.names[i]] = 1)
  BY <1>1 DEF CameTo
<1>3. \A p \in Providers : sent[p] <= 1
  BY <1>1
<1>4. fanout.at = "resolved" => Len(fanout.results) = Len(fanout.names)
  BY <1>1 DEF CameTo, Distinct, Unsent
<1> QED
  BY <1>1, <1>2, <1>3, <1>4 DEF FanoutIsTrue

\* For any providers and recipients, coming and going meanwhile, sendAll() tells
\* the truth about each provider it had when it was called.
THEOREM FanoutIsTrueEver == NotifySpec => []FanoutIsTrue
BY FanningInit, FanningNext, FanningMeant, PTL DEF NotifySpec

-----------------------------------------------------------------------------
(* Rate limits.                                                            *)

\* The place where the current window of a limiter begins among the requests g that it
\* has let through.
First(g, e) == Len(g) - e.count + 1

\* What the entry e of a key tells, at time n, about the requests g that its limiter has let
\* through: the window began with the first of the last e.count of them, and what is max or
\* more places before that is a window older.
Fits(g, e, n, max) ==
  /\ g \in Seq(Nat) /\ e \in [count : Nat, resetAt : Nat]
  /\ e.count <= max /\ e.count <= Len(g)
  /\ \A i, j \in 1..Len(g) : i <= j => g[i] <= g[j]
  /\ \A i \in 1..Len(g) : g[i] <= n
  /\ Len(g) = 0 => e.resetAt = 0
  /\ Len(g) > 0 => /\ e.count > 0
                   /\ e.resetAt = g[First(g, e)] + Window
                   /\ \A i \in 1..Len(g) : i + max <= First(g, e) => g[i] + Window <= g[First(g, e)]
  /\ \A i, j \in 1..Len(g) : j - i >= 2 * max - 1 => g[i] + Window <= g[j]

\* A window that opens: the one before it had at most max requests.
LEMMA OpenWindow ==
  ASSUME NEW g, NEW e, NEW n \in Nat, NEW max \in Nat \ {0}, Fits(g, e, n, max), n >= e.resetAt
  PROVE  Fits(Append(g, n), [count |-> 1, resetAt |-> n + Window], n, max)
<1> DEFINE h == Append(g, n)
           f == [count |-> 1, resetAt |-> n + Window]
<1> SUFFICES Fits(h, f, n, max)
  OBVIOUS
<1> USE RateAssumption
<1>1. /\ h \in Seq(Nat) /\ Len(h) = Len(g) + 1 /\ Len(g) \in Nat
      /\ h[Len(g) + 1] = n /\ \A i \in 1..Len(g) : h[i] = g[i]
  BY DEF Fits
<1>2. First(h, f) = Len(g) + 1
  BY <1>1 DEF First
<1>3. \A i \in 1..Len(g) : g[i] \in Nat /\ g[i] <= n
  BY DEF Fits
\* Whatever is max places back is not after the beginning of the last window.
<1>4. ASSUME NEW i \in 1..Len(g), i + max <= Len(g) + 1 PROVE g[i] + Window <= n
  <2>1. First(g, e) \in 1..Len(g) /\ i <= First(g, e)
    <3>1. e.count \in Nat /\ e.count <= max /\ e.count <= Len(g) /\ e.count > 0
      BY <1>1 DEF Fits
    <3>2. Len(g) \in Nat /\ i \in Nat /\ i >= 1 /\ i <= Len(g) /\ max \in Nat
      BY <1>1
    <3>3. First(g, e) = Len(g) - e.count + 1
      BY DEF First
    <3> HIDE DEF h, f
    <3> QED
      BY <1>4, <3>1, <3>2, <3>3
  <2>2. g[i] <= g[First(g, e)] /\ g[First(g, e)] + Window <= n
    BY <1>1, <2>1 DEF Fits
  <2> QED
    BY <1>3, <2>1, <2>2
<1>5. ASSUME NEW i \in 1..(Len(g) + 1), NEW j \in 1..(Len(g) + 1), i <= j PROVE h[i] <= h[j]
  <2> HIDE DEF h, f
  <2>1. CASE j \in 1..Len(g)
    <3>1. \A x, y \in 1..Len(g) : x <= y => g[x] <= g[y]
      BY DEF Fits
    <3> QED
      BY <1>1, <1>5, <2>1, <3>1
  <2>2. CASE j = Len(g) + 1
    BY <1>1, <1>3, <1>5, <2>2
  <2> QED
    BY <1>1, <1>5, <2>1, <2>2
<1>6. ASSUME NEW i \in 1..Len(h) PROVE i + max <= First(h, f) => h[i] + Window <= h[First(h, f)]
  <2>1. SUFFICES ASSUME i + max <= Len(g) + 1 PROVE h[i] + Window <= h[Len(g) + 1]
    BY <1>2
  <2>2. i \in 1..Len(g)
    BY <1>1, <2>1
  <2> HIDE DEF h, f
  <2> QED
    BY <1>1, <1>4, <2>1, <2>2
<1>7. ASSUME NEW i \in 1..Len(h), NEW j \in 1..Len(h), j - i >= 2 * max - 1
      PROVE  h[i] + Window <= h[j]
  <2>1. CASE j = Len(g) + 1 /\ i # j
    BY <1>1, <1>4, <1>7, <2>1
  <2>2. CASE j \in 1..Len(g)
    BY <1>1, <1>7, <2>2 DEF Fits
  <2> QED
    BY <1>1, <1>7, <2>1, <2>2
<1>8. f \in [count : Nat, resetAt : Nat] /\ f.count = 1 /\ f.resetAt = n + Window
  OBVIOUS
<1>9. \A i \in 1..Len(h) : h[i] <= n
  BY <1>1, <1>3
<1>10. Len(h) > 0 /\ f.count <= max /\ f.count <= Len(h) /\ f.resetAt = h[First(h, f)] + Window
  BY <1>1, <1>2, <1>8
<1> HIDE DEF h, f
<1> QED
  BY <1>1, <1>5, <1>6, <1>7, <1>8, <1>9, <1>10, SMTT(20) DEF Fits

\* One more request in a window: with those of the window before they are less than twice max.
LEMMA SameWindow ==
  ASSUME NEW g, NEW e, NEW n \in Nat, NEW max \in Nat \ {0}, Fits(g, e, n, max),
         n < e.resetAt, e.count < max
  PROVE  Fits(Append(g, n), [count |-> e.count + 1, resetAt |-> e.resetAt], n, max)
<1> DEFINE h == Append(g, n)
           f == [count |-> e.count + 1, resetAt |-> e.resetAt]
           m == Len(g)
           s == First(g, e)
<1> SUFFICES Fits(h, f, n, max)
  OBVIOUS
<1>1. h \in Seq(Nat) /\ Len(h) = m + 1 /\ m \in Nat
  BY DEF Fits
<1>2. h[m + 1] = n /\ \A i \in 1..m : h[i] = g[i]
  BY DEF Fits
<1>3. e.count \in Nat /\ e.resetAt \in Nat /\ e.count <= m /\ Window \in Nat
  BY RateAssumption DEF Fits
<1>4. m > 0 /\ e.count > 0
  BY <1>1 DEF Fits
<1>5. s \in 1..m /\ s = m - e.count + 1
  BY <1>1, <1>3, <1>4 DEF First
<1>6. First(h, f) = s /\ f \in [count : Nat, resetAt : Nat] /\ f.count = e.count + 1
  <2>1. f \in [count : Nat, resetAt : Nat] /\ f.count = e.count + 1
    BY <1>3
  <2>2. First(h, f) = Len(h) - f.count + 1
    BY DEF First
  <2>3. First(h, f) = s
    <3>1. Len(h) = m + 1 /\ m \in Nat /\ e.count \in Nat /\ s = m - e.count + 1
      BY <1>1, <1>3, <1>5
    <3>2. f.count = e.count + 1
      OBVIOUS
    <3> HIDE DEF h, f, m, s
    <3> QED
      BY <2>2, <3>1, <3>2
  <2> QED
    BY <2>1, <2>3
<1>7. e.resetAt = g[s] + Window /\ \A i \in 1..m : i + max <= s => g[i] + Window <= g[s]
  <2> HIDE DEF h, f
  <2> QED
    BY <1>4 DEF Fits
<1>8. \A i \in 1..m : g[i] \in Nat /\ g[i] <= n
  BY DEF Fits
<1>9. \A i, j \in 1..m : /\ i <= j => g[i] <= g[j]
                         /\ j - i >= 2 * max - 1 => g[i] + Window <= g[j]
  BY DEF Fits
<1> HIDE DEF m, s
<1>10. \A i, j \in 1..Len(h) : i <= j => h[i] <= h[j]
  <2> SUFFICES ASSUME NEW i \in 1..(m + 1), NEW j \in 1..(m + 1), i <= j PROVE h[i] <= h[j]
    BY <1>1
  <2>1. CASE j \in 1..m
    BY <1>1, <1>2, <1>9, <2>1
  <2>2. CASE j = m + 1
    BY <1>1, <1>2, <1>8, <2>2
  <2> QED
    BY <1>1, <2>1, <2>2
<1>11. \A i \in 1..Len(h) : i + max <= s => h[i] + Window <= h[s]
  BY <1>1, <1>2, <1>5, <1>7
<1>12. \A i, j \in 1..Len(h) : j - i >= 2 * max - 1 => h[i] + Window <= h[j]
  <2> SUFFICES ASSUME NEW i \in 1..(m + 1), NEW j \in 1..(m + 1), j - i >= 2 * max - 1
               PROVE  h[i] + Window <= h[j]
    BY <1>1
  <2>1. CASE j \in 1..m
    BY <1>1, <1>2, <1>9, <2>1
  <2>2. CASE j = m + 1
    <3>1. i \in 1..m /\ i + max <= s
      BY <1>1, <1>3, <1>5, <2>2
    <3>2. g[i] + Window <= g[s] /\ g[s] <= n /\ g[i] \in Nat /\ g[s] \in Nat
      BY <1>5, <1>7, <1>8, <3>1
    <3>3. h[i] = g[i] /\ h[j] = n
      BY <1>2, <2>2, <3>1
    <3>4. Window \in Nat
      BY <1>3
    <3>5. g[i] + Window <= n
      BY <3>2, <3>4
    <3> QED
      BY <3>3, <3>5
  <2> QED
    BY <1>1, <2>1, <2>2
<1>13. \A i \in 1..Len(h) : h[i] <= n
  BY <1>1, <1>2, <1>8
<1>14. f.resetAt = e.resetAt /\ h[s] = g[s]
  BY <1>2, <1>5
<1> HIDE DEF h, f
<1>15. f.count <= max /\ f.count <= Len(h) /\ f.count > 0 /\ Len(h) > 0
  <2>1. f.count = e.count + 1 /\ Len(h) = m + 1
    BY <1>1, <1>6
  <2> QED
    BY <1>1, <1>3, <1>4, <2>1
<1>16. f.resetAt = h[s] + Window
  BY <1>7, <1>14
<1> QED
  BY <1>1, <1>6, <1>10, <1>11, <1>12, <1>13, <1>15, <1>16, SMTT(20) DEF Fits

\* check() keeps what an entry tells, whether it lets the request through or not.
LEMMA CheckFits ==
  ASSUME NEW l \in Limiters, NEW g, NEW e, now \in Nat, Fits(g, e, now, MaxOf(l))
  PROVE  /\ Check(l, e).allowed \in BOOLEAN
         /\ Fits(IF Check(l, e).allowed THEN Append(g, now) ELSE g, Check(l, e).entry, now, MaxOf(l))
         /\ ~Check(l, e).allowed => Check(l, e).entry = e /\ now < e.resetAt
<1>1. MaxOf(l) \in Nat \ {0}
  BY RateAssumption DEF MaxOf
<1>2. e \in [count : Nat, resetAt : Nat]
  BY DEF Fits
<1>3. CASE now >= e.resetAt
  <2>1. Check(l, e) = [allowed |-> TRUE, entry |-> [count |-> 1, resetAt |-> now + Window]]
    BY <1>3 DEF Check
  <2>2. Fits(Append(g, now), [count |-> 1, resetAt |-> now + Window], now, MaxOf(l))
    BY <1>1, <1>3, OpenWindow
  <2> QED
    BY <2>1, <2>2
<1>4. CASE now < e.resetAt /\ e.count < MaxOf(l)
  <2>1. [e EXCEPT !.count = @ + 1] = [count |-> e.count + 1, resetAt |-> e.resetAt]
    BY <1>2
  <2>2. Check(l, e) = [allowed |-> TRUE, entry |-> [count |-> e.count + 1, resetAt |-> e.resetAt]]
    <3>1. ~(now >= e.resetAt) /\ (e.count < MaxOf(l)) = TRUE
      BY <1>2, <1>4
    <3> QED
      BY <2>1, <3>1, Zenon DEF Check
  <2>3. Fits(Append(g, now), [count |-> e.count + 1, resetAt |-> e.resetAt], now, MaxOf(l))
    BY <1>1, <1>4, SameWindow
  <2> QED
    BY <2>2, <2>3
<1>5. CASE now < e.resetAt /\ ~(e.count < MaxOf(l))
  <2>1. Check(l, e) = [allowed |-> FALSE, entry |-> e]
    <3>1. ~(now >= e.resetAt) /\ (e.count < MaxOf(l)) = FALSE
      BY <1>2, <1>5
    <3> QED
      BY <3>1, Zenon DEF Check
  <2> QED
    BY <1>5, <2>1
<1> QED
  BY <1>2, <1>3, <1>4, <1>5

RateInv ==
  /\ now \in Nat
  /\ DOMAIN entry = Limiters /\ DOMAIN granted = Limiters
  /\ \A l \in Limiters : DOMAIN entry[l] = Keys /\ DOMAIN granted[l] = Keys
  /\ \A l \in Limiters, k \in Keys : Fits(granted[l][k], entry[l][k], now, MaxOf(l))

LEMMA RateInductive ==
  /\ RateInit => RateInv
  /\ RateInv /\ [RateNext]_rateVars => RateInv'
<1>1. ASSUME RateInit PROVE RateInv
  <2>1. \A l \in Limiters : Fits(<<>>, Missing, 0, MaxOf(l))
    BY RateAssumption DEF Fits, Missing, MaxOf
  <2> QED
    BY <1>1, <2>1 DEF RateInit, RateInv
<1>2. ASSUME RateInv, [RateNext]_rateVars PROVE RateInv'
  <2> USE DEF RateInv
  <2>1. CASE Tick
    <3>1. now' \in Nat /\ now' >= now /\ UNCHANGED <<entry, granted>>
      BY <1>2, <2>1 DEF Tick
    <3>2. ASSUME NEW g, NEW e, NEW max, Fits(g, e, now, max) PROVE Fits(g, e, now', max)
      BY <1>2, <3>1, <3>2 DEF Fits
    <3> QED
      BY <1>2, <3>1, <3>2
  <2>2. ASSUME NEW k \in Keys, AnyRequest(k) PROVE RateInv'
    <3> DEFINE c == Check("global", entry["global"][k])
    <3>1. "global" \in Limiters /\ "login" \in Limiters
      BY DEF Limiters
    <3>2. /\ entry' = [entry EXCEPT !["global"][k] = c.entry]
          /\ granted' = IF c.allowed THEN [granted EXCEPT !["global"][k] = Append(@, now)] ELSE granted
          /\ now' = now
      BY <2>2 DEF AnyRequest, Counted
    <3>3. Fits(IF c.allowed THEN Append(granted["global"][k], now) ELSE granted["global"][k],
               c.entry, now, MaxOf("global"))
      BY <1>2, <3>1, CheckFits
    <3> HIDE DEF c
    <3>4. /\ entry'["global"][k] = c.entry
          /\ granted'["global"][k] = IF c.allowed THEN Append(granted["global"][k], now)
                                     ELSE granted["global"][k]
          /\ \A l \in Limiters, j \in Keys : l # "global" \/ j # k =>
               entry'[l][j] = entry[l][j] /\ granted'[l][j] = granted[l][j]
          /\ DOMAIN entry' = Limiters /\ DOMAIN granted' = Limiters
          /\ \A l \in Limiters : DOMAIN entry'[l] = Keys /\ DOMAIN granted'[l] = Keys
      BY <1>2, <3>1, <3>2
    <3> QED
      BY <1>2, <3>2, <3>3, <3>4
  <2>3. ASSUME NEW k \in Keys, LoginRequest(k) PROVE RateInv'
    <3> DEFINE c == Check("global", entry["global"][k])
               d == Check("login", entry["login"][k])
    <3>1. "global" \in Limiters /\ "login" \in Limiters /\ "login" # "global"
      BY DEF Limiters
    <3>2. /\ entry' = [entry EXCEPT !["global"][k] = c.entry, !["login"][k] = d.entry]
          /\ granted' = [granted EXCEPT !["global"][k] = Append(@, now),
                                        !["login"][k] = IF d.allowed THEN Append(@, now) ELSE @]
          /\ c.allowed /\ now' = now
      BY <2>3 DEF LoginRequest
    <3>3. /\ Fits(Append(granted["global"][k], now), c.entry, now, MaxOf("global"))
          /\ Fits(IF d.allowed THEN Append(granted["login"][k], now) ELSE granted["login"][k],
                  d.entry, now, MaxOf("login"))
      BY <1>2, <3>1, <3>2, CheckFits
    <3> HIDE DEF c, d
    <3>4. /\ entry'["global"][k] = c.entry /\ entry'["login"][k] = d.entry
          /\ granted'["global"][k] = Append(granted["global"][k], now)
          /\ granted'["login"][k] = IF d.allowed THEN Append(granted["login"][k], now)
                                    ELSE granted["login"][k]
          /\ \A l \in Limiters, j \in Keys : j # k =>
               entry'[l][j] = entry[l][j] /\ granted'[l][j] = granted[l][j]
          /\ DOMAIN entry' = Limiters /\ DOMAIN granted' = Limiters
          /\ \A l \in Limiters : DOMAIN entry'[l] = Keys /\ DOMAIN granted'[l] = Keys
      BY <1>2, <3>1, <3>2 DEF Limiters
    <3>5. ASSUME NEW l \in Limiters PROVE Fits(granted'[l][k], entry'[l][k], now', MaxOf(l))
      BY <3>2, <3>3, <3>4, l = "global" \/ l = "login" DEF Limiters
    <3>6. ASSUME NEW l \in Limiters, NEW j \in Keys, j # k
          PROVE  Fits(granted'[l][j], entry'[l][j], now', MaxOf(l))
      BY <1>2, <3>2, <3>4, <3>6
    <3>7. now' \in Nat
      BY <1>2, <3>2
    <3> QED
      BY <3>4, <3>5, <3>6, <3>7
  <2>4. CASE UNCHANGED rateVars
    BY <1>2, <2>4 DEF rateVars
  <2> QED
    BY <1>2, <2>1, <2>2, <2>3, <2>4 DEF RateNext
<1> QED
  BY <1>1, <1>2

\* The seconds that are answered are no shorter than the ticks that are left.
LEMMA CeilIsEnough ==
  ASSUME NEW ticks \in Nat
  PROVE  Ceil(ticks) \in Nat /\ Ceil(ticks) * TicksPerSecond >= ticks
<1> DEFINE t == TicksPerSecond
           a == ticks + t - 1
           q == a \div t
<1>1. t \in Nat \ {0} /\ a \in Nat
  BY RateAssumption
<1> HIDE DEF a, t
<1>2. q \in Nat /\ a = t * q + (a % t) /\ a % t \in 0..(t - 1)
  BY <1>1, SMTT(30)
<1> QED
  BY <1>1, <1>2 DEF Ceil, a, t

\* What entries tell bounds what any span of a window's length sees let through.
LEMMA WindowsBound == RateInv => NeverTwiceTheMax
<1> SUFFICES ASSUME RateInv, NEW l \in Limiters, NEW k \in Keys,
                      NEW i \in DOMAIN granted[l][k], NEW j \in DOMAIN granted[l][k],
                      granted[l][k][j] < granted[l][k][i] + Window
               PROVE  j - i < 2 * MaxOf(l) - 1
  BY DEF NeverTwiceTheMax
<1> DEFINE g == granted[l][k]
<1>1. /\ g \in Seq(Nat)
        /\ \A a, b \in 1..Len(g) : b - a >= 2 * MaxOf(l) - 1 => g[a] + Window <= g[b]
  BY DEF RateInv, Fits
<1>2. i \in DOMAIN g /\ j \in DOMAIN g /\ g[j] < g[i] + Window
  OBVIOUS
<1> HIDE DEF g
<1>3. i \in 1..Len(g) /\ j \in 1..Len(g) /\ g[i] \in Nat /\ g[j] \in Nat
  BY <1>1, <1>2
<1>4. ~(j - i >= 2 * MaxOf(l) - 1)
  BY <1>1, <1>2, <1>3, RateAssumption
<1> QED
  BY <1>3, <1>4, RateAssumption DEF MaxOf

\* A limiter that refused a request told it to wait past the end of the window.
VerdictIsTrue ==
  verdict.by # "nobody" =>
    /\ verdict.by \in Limiters
    /\ verdict.at + verdict.retryAfter * TicksPerSecond >= verdict.resetAt
    /\ verdict.resetAt <= verdict.at + Window

LEMMA WindowsEnd ==
  ASSUME RateInv, NEW l \in Limiters, NEW k \in Keys
  PROVE  entry[l][k].resetAt \in Nat /\ entry[l][k].resetAt <= now + Window
<1> DEFINE g == granted[l][k]
           e == entry[l][k]
<1> SUFFICES e.resetAt \in Nat /\ e.resetAt <= now + Window
  OBVIOUS
<1>1. Fits(g, e, now, MaxOf(l)) /\ now \in Nat
  BY DEF RateInv
<1> HIDE DEF g, e
<1>2. g \in Seq(Nat) /\ Len(g) \in Nat /\ e.resetAt \in Nat /\ e.count \in Nat /\ e.count <= Len(g)
  BY <1>1 DEF Fits
<1>3. CASE Len(g) = 0
  BY <1>1, <1>2, <1>3, RateAssumption DEF Fits
<1>4. CASE Len(g) > 0
  <2>1. e.count > 0 /\ e.resetAt = g[First(g, e)] + Window
    BY <1>1, <1>4 DEF Fits
  <2>2. First(g, e) \in 1..Len(g)
    BY <1>2, <1>4, <2>1 DEF First
  <2>3. g[First(g, e)] \in Nat /\ g[First(g, e)] <= now
    BY <1>1, <1>2, <2>2 DEF Fits
  <2> QED
    BY <1>1, <1>2, <2>1, <2>3, RateAssumption
<1> QED
  BY <1>2, <1>3, <1>4

\* What Refuse429 answers for the entry of a key.
LEMMA RefusalIsTrue ==
  ASSUME RateInv, NEW l \in Limiters, NEW k \in Keys, NEW e,
         e = entry[l][k], now < e.resetAt, Refuse429(l, e)
  PROVE  VerdictIsTrue'
<1>1. e.resetAt \in Nat /\ now \in Nat /\ e.resetAt <= now + Window
  BY WindowsEnd DEF RateInv
<1>2. e.resetAt - now \in Nat
  BY <1>1
<1> DEFINE seconds == Ceil(e.resetAt - now)
<1>3. seconds \in Nat /\ seconds * TicksPerSecond >= e.resetAt - now
  BY <1>2, CeilIsEnough
<1>4. verdict' = [by |-> l, retryAfter |-> seconds, at |-> now, resetAt |-> e.resetAt]
  BY DEF Refuse429
<1> HIDE DEF seconds
<1>5. seconds * TicksPerSecond \in Nat
  BY <1>3, RateAssumption
<1>6. now + seconds * TicksPerSecond >= e.resetAt
  BY <1>1, <1>3, <1>5
<1> QED
  BY <1>1, <1>4, <1>6 DEF VerdictIsTrue

LEMMA VerdictStep == RateInv /\ VerdictIsTrue /\ [RateNext]_rateVars => VerdictIsTrue'
<1> SUFFICES ASSUME RateInv, VerdictIsTrue, [RateNext]_rateVars PROVE VerdictIsTrue'
  OBVIOUS
<1>1. CASE Tick \/ UNCHANGED rateVars
  BY <1>1 DEF Tick, rateVars, VerdictIsTrue
<1>2. ASSUME Pass PROVE VerdictIsTrue'
  BY <1>2 DEF Pass, VerdictIsTrue
<1>3. ASSUME NEW k \in Keys, NEW l \in Limiters, ~Check(l, entry[l][k]).allowed,
             Refuse429(l, Check(l, entry[l][k]).entry)
      PROVE  VerdictIsTrue'
  <2>1. Fits(granted[l][k], entry[l][k], now, MaxOf(l)) /\ now \in Nat
    BY DEF RateInv
  <2>2. Check(l, entry[l][k]).entry = entry[l][k] /\ now < entry[l][k].resetAt
    BY <1>3, <2>1, CheckFits
  <2> QED
    BY <1>3, <2>2, RefusalIsTrue
<1>4. ASSUME NEW k \in Keys, AnyRequest(k) \/ LoginRequest(k) PROVE VerdictIsTrue'
  BY <1>2, <1>3, <1>4 DEF AnyRequest, LoginRequest, Limiters
<1> QED
  BY <1>1, <1>4 DEF RateNext

\* Both limiters keep their maximum in any span of time, and tell whom they refuse
\* a time to wait that suffices, whatever the maximum, the window and the clock.
THEOREM LimitsHoldEver == RateSpec => []LimitsHold
<1>1. RateInit => RateInv /\ VerdictIsTrue
  BY RateInductive DEF RateInit, VerdictIsTrue
<1>2. RateInv /\ VerdictIsTrue => LimitsHold
  BY WindowsBound, WindowsEnd DEF LimitsHold, RetryAfterSuffices, VerdictIsTrue
<1> QED
  BY <1>1, <1>2, RateInductive, VerdictStep, PTL DEF RateSpec

-----------------------------------------------------------------------------
(* The admin interface.                                                    *)

\* What is mounted has no timer exactly while it is paused, which the panel never is; so the
\* monitor, which starts a timer at the end of a pause only, has none to clear then.
PausedHasNone ==
  /\ widget \in {"hook", "monitor", "panel"}
  /\ mounted => (timers = {} <=> wasPaused) /\ (wasPaused => widget # "panel")

\* However mounts, changes of the target and of the tab follow each other, no timer is
\* leaked and none is lost.
THEOREM OneTimerEver == PollSpec => []OneTimer
<1> DEFINE Inv == OneTimer /\ PausedHasNone
<1>1. PollInit => Inv
  BY DEF PollInit, OneTimer, PausedHasNone
<1>2. Inv /\ [PollNext]_pollVars => Inv'
  <2> SUFFICES ASSUME OneTimer, PausedHasNone, [PollNext]_pollVars
               PROVE  OneTimer' /\ PausedHasNone'
    OBVIOUS
  <2> USE DEF OneTimer, PausedHasNone, Restart
  <2>1. CASE Mount
    BY <2>1 DEF Mount
  <2>2. CASE Retarget
    BY <2>2 DEF Retarget
  <2>3. CASE Unmount
    BY <2>3 DEF Unmount
  <2>4. CASE Hide
    BY <2>4 DEF Hide
  <2>5. CASE Show
    BY <2>5 DEF Show
  <2>6. CASE UNCHANGED pollVars
    BY <2>6 DEF pollVars
  <2> QED
    BY <2>1, <2>2, <2>3, <2>4, <2>5, <2>6 DEF PollNext
<1> QED
  BY <1>1, <1>2, PTL DEF PollSpec

\* A tab that waits for the server to confirm its session has no other request under way,
\* and has not emptied the store since it found a token there.
CheckingAlone ==
  /\ logins \in Nat /\ DOMAIN view = Tabs
  /\ \A c \in calls : c.tab \in Tabs /\ c.kind \in {"me", "login", "data"}
  /\ \A c \in calls : c.kind = "me" =>
       /\ view[c.tab] = "checking" /\ CallsOf(c.tab) = {c}
       /\ stored = NoToken => clearedBy # c.tab

\* However late a token is refused, a tab that shows the application has one to send, or
\* another tab has emptied the store.
THEOREM AppHasTokenEver == UiSpec => []AppHasToken
<1> DEFINE Inv == AppHasToken /\ CheckingAlone
<1>1. UiInit => Inv
  BY DEF UiInit, AppHasToken, CheckingAlone
<1>2. Inv /\ [UiNext]_uiVars => Inv'
  <2> SUFFICES ASSUME AppHasToken, CheckingAlone, [UiNext]_uiVars
               PROVE  AppHasToken' /\ CheckingAlone'
    OBVIOUS
  <2> USE DEF AppHasToken, CheckingAlone, CallsOf
  <2>1. ASSUME NEW t \in Tabs, Load(t) PROVE AppHasToken' /\ CheckingAlone'
    BY <2>1 DEF Load, ClearTokens
  <2>2. ASSUME NEW t \in Tabs, Call(t) PROVE AppHasToken' /\ CheckingAlone'
    BY <2>2 DEF Call, NewCall
  <2>3. ASSUME NEW t \in Tabs, SignOut(t) PROVE AppHasToken' /\ CheckingAlone'
    BY <2>3 DEF SignOut, ClearTokens
  <2>4. ASSUME NEW c \in calls, Accepted200(c) PROVE AppHasToken' /\ CheckingAlone'
    <3>1. \A d \in calls' : d \in calls /\ (d.kind = "me" => d.tab # c.tab /\ view'[d.tab] = view[d.tab])
      BY <2>4 DEF Accepted200
    <3>2. \A d \in calls' : d.kind = "me" => CallsOf(d.tab)' = {d}
      BY <2>4, <3>1 DEF Accepted200
    <3>3. CASE c.kind = "login"
      <4>1. stored' # NoToken /\ logins' \in Nat
        BY <2>4, <3>3, NoTokenAssumption DEF Accepted200
      <4> QED
        BY <2>4, <3>1, <3>2, <4>1 DEF Accepted200
    <3>4. CASE c.kind # "login"
      <4>1. /\ UNCHANGED <<logins, stored, clearedBy>>
            /\ \A t \in Tabs : view'[t] = "app" =>
                 view[t] = "app" \/ (t = c.tab /\ c.kind = "me")
            /\ DOMAIN view' = Tabs
        BY <2>4, <3>4 DEF Accepted200
      <4>2. AppHasToken'
        BY <4>1
      <4> QED
        BY <3>1, <3>2, <4>1, <4>2
    <3> QED
      BY <3>3, <3>4
  <2>5. ASSUME NEW c \in calls, Refused401(c) PROVE AppHasToken' /\ CheckingAlone'
    BY <2>5 DEF Refused401, ClearTokens
  <2>6. ASSUME NEW c \in calls, Failed(c) PROVE AppHasToken' /\ CheckingAlone'
    BY <2>6 DEF Failed, ClearTokens
  <2>7. CASE (\E token \in good : Expire(token)) \/ UNCHANGED uiVars
    BY <2>7 DEF Expire, uiVars
  <2> QED
    BY <2>1, <2>2, <2>3, <2>4, <2>5, <2>6, <2>7 DEF UiNext
<1> QED
  BY <1>1, <1>2, PTL DEF UiSpec

-----------------------------------------------------------------------------
(* Health and slow queries.                                                *)

HealthSpec == DiagnosticsInit /\ [][HealthNext]_diagnosticsVars
QuerySpec == DiagnosticsInit /\ [][QueryNext]_diagnosticsVars

Requests == [service : {"service", "core", "plugin"}, kind : {"check", "ready"}, redis : BOOLEAN, since : Nat]
States == {Unasked, Open, "up", "down", "thrown"}

\* What is known of a probe of the request q at time n: its reply came, in time
\* where that counts, or the limit has passed.
Known(q, n, state, reply) ==
  /\ state = "up" => /\ reply.outcome \in {"ok", "no"}
                     /\ (q.service = "service" => reply.after <= ProbeLimit)
  /\ state = "down" => \/ reply.outcome \in {"error", "no"}
                       \/ (q.service = "service" /\ n - q.since >= ProbeLimit)

\* What was told is what was known, and readiness is the database.
ToldTruly ==
  told # NoRequest =>
    /\ \A p \in Probes :
         /\ told.probe[p] = "up" => /\ told.replied[p].outcome \in {"ok", "no"}
                                    /\ (told.service = "service" => told.replied[p].after <= ProbeLimit)
         /\ told.probe[p] = "down" => \/ told.replied[p].outcome \in {"error", "no"}
                                      \/ (told.service = "service" /\ told.took >= ProbeLimit)
    /\ told.kind = "ready" => (told.code = 200 <=> told.probe["db"] = "up")

Probing ==
  /\ clock \in Nat
  /\ Busy => /\ ask \in Requests /\ ask.since <= clock
             /\ ask.service = "service" => clock <= ask.since + ProbeLimit
             /\ probe["db"] # Unasked
  /\ probe \in [Probes -> States]
  /\ DOMAIN replied = Probes
  /\ Busy => \A p \in Probes : Known(ask, clock, probe[p], replied[p])
  /\ ToldTruly

LEMMA JudgeFacts ==
  ASSUME NEW service \in {"service", "core", "plugin"}, NEW outcome \in {"ok", "no", "error"}
  PROVE  /\ Judge(service, outcome) \in {"up", "down", "thrown"}
         /\ Judge(service, outcome) = "up" => outcome \in {"ok", "no"}
         /\ Judge(service, outcome) = "down" => outcome \in {"error", "no"}
<1>1. /\ JudgeService(outcome) \in {"up", "down"}
      /\ (JudgeService(outcome) = "up" => outcome \in {"ok", "no"})
      /\ (JudgeService(outcome) = "down" => outcome \in {"error", "no"})
  BY DEF JudgeService
<1>2. /\ JudgeCore(outcome) \in {"up", "down"}
      /\ (JudgeCore(outcome) = "up" => outcome \in {"ok", "no"})
      /\ (JudgeCore(outcome) = "down" => outcome \in {"error", "no"})
  BY DEF JudgeCore
<1>3. /\ JudgePlugin(outcome) \in {"up", "down", "thrown"}
      /\ (JudgePlugin(outcome) = "up" => outcome \in {"ok", "no"})
      /\ (JudgePlugin(outcome) = "down" => outcome \in {"error", "no"})
  BY <1>2 DEF JudgePlugin
<1>4. CASE service = "service"
  <2>1. Judge(service, outcome) = JudgeService(outcome)
    BY <1>4 DEF Judge
  <2> QED
    BY <1>1, <2>1
<1>5. CASE service = "core"
  <2>1. Judge(service, outcome) = JudgeCore(outcome)
    BY <1>5 DEF Judge
  <2> QED
    BY <1>2, <2>1
<1>6. CASE service = "plugin"
  <2>1. Judge(service, outcome) = JudgePlugin(outcome)
    BY <1>6 DEF Judge
  <2> QED
    BY <1>3, <2>1
<1> QED
  BY <1>4, <1>5, <1>6

\* The code of a readiness response.
LEMMA CodeFacts ==
  ASSUME ask.kind = "ready", probe["db"] \in {"up", "down", "thrown"}
  PROVE  Code = 200 <=> probe["db"] = "up"
<1>1. CASE probe["db"] = "thrown"
  <2>1. Code = 500
    BY <1>1 DEF Code
  <2> QED
    BY <1>1, <2>1
<1>2. CASE probe["db"] = "down"
  <2>1. probe["db"] # "thrown"
    BY <1>2
  <2>2. Code = 503
    BY <1>2, <2>1, Zenon DEF Code
  <2> QED
    BY <1>2, <2>2
<1>3. CASE probe["db"] = "up"
  <2>1. probe["db"] # "thrown" /\ probe["db"] # "down"
    BY <1>3
  <2>2. Code = 200
    BY <2>1, Zenon DEF Code
  <2> QED
    BY <1>3, <2>2
<1> QED
  BY <1>1, <1>2, <1>3

LEMMA ProbingInit == DiagnosticsInit => Probing /\ ~Busy
BY DEF DiagnosticsInit, Probing, Busy, ToldTruly, States

LEMMA ProbingNext == Probing /\ HealthNext => Probing'
<1> SUFFICES ASSUME Probing, HealthNext PROVE Probing'
  OBVIOUS
<1>0. /\ clock \in Nat
      /\ Busy => /\ ask \in Requests /\ ask.since <= clock
                 /\ ask.service = "service" => clock <= ask.since + ProbeLimit
                 /\ probe["db"] # Unasked
      /\ probe \in [Probes -> States]
      /\ DOMAIN replied = Probes
      /\ Busy => \A p \in Probes : Known(ask, clock, probe[p], replied[p])
      /\ ToldTruly
      /\ ProbeLimit \in Nat \ {0}
  BY DiagnosticsAssumption DEF Probing
<1>1. ASSUME NEW about \in {"check", "ready"}, NEW redis \in BOOLEAN,
             NEW service \in {"service", "core", "plugin"}, Begin(service, about, redis)
      PROVE  Probing'
  <2>1. /\ ask' \in Requests /\ ask'.since = clock /\ clock' = clock /\ told' = told
        /\ probe' = Asked(service, about, redis) /\ replied' = [p \in Probes |-> NoReply]
    BY <1>0, <1>1 DEF Begin, Requests
  <2>2. /\ probe' \in [Probes -> States] /\ probe'["db"] # Unasked
        /\ \A p \in Probes : probe'[p] \in {Unasked, Open}
    BY <2>1 DEF Asked, Probes, States, Unasked, Open
  <2>3. ASSUME NEW p \in Probes PROVE Known(ask', clock', probe'[p], replied'[p])
    BY <2>2 DEF Known, Unasked, Open
  <2>4. ToldTruly'
    BY <1>0, <2>1 DEF ToldTruly
  <2> QED
    BY <1>0, <2>1, <2>2, <2>3, <2>4 DEF Probing
<1>2. ASSUME PingAfterwards PROVE Probing'
  <2>1. /\ ask' = ask /\ clock' = clock /\ told' = told /\ replied' = replied
        /\ probe' = [probe EXCEPT !["redis"] = Open] /\ Busy
    BY <1>2 DEF PingAfterwards, PingIsNext
  <2>2. probe' \in [Probes -> States] /\ probe'["db"] = probe["db"] /\ probe'["redis"] = Open
    BY <1>0, <2>1 DEF Probes, States
  <2>3. ASSUME NEW p \in Probes PROVE Known(ask', clock', probe'[p], replied'[p])
    BY <1>0, <2>1, <2>2, <2>3 DEF Known, Open, Probes
  <2>4. ToldTruly'
    BY <1>0, <2>1 DEF ToldTruly
  <2> QED
    BY <1>0, <2>1, <2>2, <2>3, <2>4 DEF Probing, Busy
<1>3. ASSUME NEW p \in Probes, TimeOut(p) PROVE Probing'
  <2>1. /\ ask' = ask /\ clock' = clock /\ told' = told /\ replied' = replied
        /\ probe' = [probe EXCEPT ![p] = "down"]
        /\ Busy /\ ask.service = "service" /\ clock >= ask.since + ProbeLimit
    BY <1>3 DEF TimeOut, Due
  <2>2. /\ probe' \in [Probes -> States] /\ probe'[p] = "down"
        /\ \A q \in Probes : q # p => probe'[q] = probe[q]
    BY <1>0, <2>1 DEF States
  <2>a. ask.since \in Nat /\ clock - ask.since >= ProbeLimit
    BY <1>0, <2>1 DEF Requests
  <2>3. ASSUME NEW q \in Probes PROVE Known(ask', clock', probe'[q], replied'[q])
    BY <1>0, <2>1, <2>2, <2>a, <2>3 DEF Known
  <2>4. ToldTruly'
    BY <1>0, <2>1 DEF ToldTruly
  <2>5. probe'["db"] # Unasked
    BY <1>0, <2>1, <2>2 DEF Probes, Unasked
  <2> QED
    BY <1>0, <2>1, <2>2, <2>3, <2>4, <2>5 DEF Probing, Busy
<1>4. ASSUME NEW p \in Probes, NEW outcome \in {"ok", "no", "error"}, Settle(p, outcome) PROVE Probing'
  <2>1. /\ ask' = ask /\ clock' = clock /\ told' = told
        /\ Busy /\ probe[p] # Unasked /\ replied[p] = NoReply
        /\ replied' = [replied EXCEPT ![p] = [outcome |-> outcome, after |-> clock - ask.since]]
        /\ probe' = IF probe[p] = Open THEN [probe EXCEPT ![p] = Judge(ask.service, outcome)] ELSE probe
    BY <1>4 DEF Settle
  <2>2. /\ ask.since \in Nat /\ ask.since <= clock /\ ask.service \in {"service", "core", "plugin"}
        /\ ask.service = "service" => clock - ask.since <= ProbeLimit
    BY <1>0, <2>1 DEF Requests
  <2>3. /\ DOMAIN replied' = Probes /\ replied'[p].outcome = outcome /\ replied'[p].after = clock - ask.since
        /\ \A q \in Probes : q # p => replied'[q] = replied[q]
    BY <1>0, <2>1
  <2>a. PICK j : j = Judge(ask.service, outcome)
    OBVIOUS
  <2>4. /\ j \in {"up", "down", "thrown"}
        /\ (j = "up" => outcome \in {"ok", "no"})
        /\ (j = "down" => outcome \in {"error", "no"})
    BY <2>2, <2>a, JudgeFacts
  <2>5. probe' = IF probe[p] = Open THEN [probe EXCEPT ![p] = j] ELSE probe
    BY <2>1, <2>a
  <2>6. /\ probe' \in [Probes -> States] /\ \A q \in Probes : q # p => probe'[q] = probe[q]
        /\ probe'[p] = IF probe[p] = Open THEN j ELSE probe[p]
    BY <1>0, <2>4, <2>5 DEF States
  <2>7. Known(ask, clock, probe[p], NoReply)
    BY <1>0, <2>1
  <2>8. Known(ask', clock', probe'[p], replied'[p])
    <3>1. CASE probe[p] = Open
      BY <2>1, <2>2, <2>3, <2>4, <2>6, <3>1 DEF Known
    <3>2. CASE probe[p] # Open
      <4>1. probe[p] # "up"
        BY <2>7 DEF Known, NoReply
      <4>2. probe[p] = "down" => ask.service = "service" /\ clock - ask.since >= ProbeLimit
        BY <2>7 DEF Known, NoReply
      <4> QED
        BY <2>1, <2>6, <3>2, <4>1, <4>2 DEF Known
    <3> QED
      BY <3>1, <3>2
  <2>9. ASSUME NEW q \in Probes, q # p PROVE Known(ask', clock', probe'[q], replied'[q])
    BY <1>0, <2>1, <2>3, <2>6, <2>9
  <2>10. ToldTruly'
    BY <1>0, <2>1 DEF ToldTruly
  <2>11. probe'["db"] # Unasked
    BY <1>0, <2>1, <2>4, <2>6 DEF Probes, Unasked
  <2> QED
    BY <1>0, <2>1, <2>3, <2>6, <2>8, <2>9, <2>10, <2>11 DEF Probing, Busy
<1>5. ASSUME Report PROVE Probing'
  <2>1. /\ Complete /\ Busy /\ clock' = clock /\ ask' = NoRequest
        /\ told' = [service |-> ask.service, kind |-> ask.kind, took |-> clock - ask.since,
                    code |-> Code, probe |-> probe, replied |-> replied]
        /\ probe' = [p \in Probes |-> Unasked] /\ replied' = [p \in Probes |-> NoReply]
    BY <1>5 DEF Report, Complete
  <2>2. \A p \in Probes : Known(ask, clock, probe[p], replied[p])
    BY <1>0, <2>1
  <2>3. probe["db"] \in {"up", "down", "thrown"}
    BY <1>0, <2>1 DEF Complete, Probes, States
  <2>4. ask.kind = "ready" => (Code = 200 <=> probe["db"] = "up")
    BY <2>3, CodeFacts
  <2>5. ToldTruly'
    BY <2>1, <2>2, <2>4 DEF ToldTruly, Known
  <2>6. ~Busy' /\ probe' \in [Probes -> States] /\ DOMAIN replied' = Probes
    BY <2>1 DEF Busy, States
  <2> QED
    BY <1>0, <2>1, <2>5, <2>6 DEF Probing
<1>6. ASSUME ~Urgent, Elapse, UNCHANGED <<healthVars, queryVars>> PROVE Probing'
  <2>1. /\ ask' = ask /\ probe' = probe /\ replied' = replied /\ told' = told
        /\ clock' = clock + 1
    BY <1>6 DEF healthVars, Elapse
  <2>2. CASE Busy
    <3>1. /\ ask \in Requests /\ ask.since \in Nat /\ ask.since <= clock
      BY <1>0, <2>2 DEF Requests
    <3>2. ask.service = "service" => clock < ask.since + ProbeLimit
      <4> SUFFICES ASSUME ask.service = "service" PROVE clock < ask.since + ProbeLimit
        OBVIOUS
      <4>1. ~Complete /\ \A p \in Probes : ~Due(p)
        BY <1>6 DEF Urgent
      <4>2. PICK p \in Probes : probe[p] = Open
        BY <2>2, <4>1 DEF Complete
      <4>3. ~(clock >= ask.since + ProbeLimit)
        BY <2>2, <4>1, <4>2 DEF Due
      <4> QED
        BY <1>0, <3>1, <4>3
    <3>3. ASSUME NEW p \in Probes PROVE Known(ask, clock + 1, probe[p], replied[p])
      BY <1>0, <2>2, <3>1, <3>3 DEF Known
    <3>4. ToldTruly'
      BY <1>0, <2>1 DEF ToldTruly
    <3>5. clock + 1 \in Nat /\ ask.since <= clock + 1 /\ (ask.service = "service" => clock + 1 <= ask.since + ProbeLimit)
      BY <1>0, <3>1, <3>2
    <3> QED
      BY <1>0, <2>1, <2>2, <3>1, <3>3, <3>4, <3>5 DEF Probing, Busy
  <2>3. CASE ~Busy
    BY <1>0, <2>1, <2>3 DEF Probing, Busy, ToldTruly
  <2> QED
    BY <2>2, <2>3
<1> QED
  BY <1>1, <1>2, <1>3, <1>4, <1>5, <1>6 DEF HealthNext

LEMMA ProbingMeant == Probing => ProbesEndInTime
BY DEF Probing, ToldTruly, ProbesEndInTime

\* For any limit: HealthCheckService answers within the limit of one probe, a
\* probe is up only if its reply came in time, and readiness is the database.
THEOREM ProbesEndInTimeEver == HealthSpec => []ProbesEndInTime
<1>1. Probing /\ UNCHANGED diagnosticsVars => Probing'
  BY DEF Probing, Busy, ToldTruly, diagnosticsVars, healthVars
<1> QED
  BY <1>1, ProbingInit, ProbingNext, ProbingMeant, PTL DEF HealthSpec

-----------------------------------------------------------------------------
\* The pair of slow-query.ts is of a statement that runs, sent when the pair
\* says; a statement that has been alone is the only one, and the pair is its.
Timed ==
  /\ clock \in 0..MaxClock
  /\ begun \in [Statements -> Nat]
  /\ \A s \in Running : begun[s] <= clock
  /\ \/ current = NoPair
     \/ current.sql \in Running /\ current = [sql |-> current.sql, start |-> begun[current.sql]]
  /\ \A s \in Running : s \notin overlapped => /\ \A r \in Running : r = s
                                               /\ current = [sql |-> s, start |-> begun[s]]
  /\ WarningsAreTrue

LEMMA TimedInit == DiagnosticsInit => Timed
BY DiagnosticsAssumption DEF DiagnosticsInit, Timed, Running, NotRunning, WarningsAreTrue

LEMMA TimedNext == Timed /\ QueryNext => Timed'
<1> SUFFICES ASSUME Timed, QueryNext PROVE Timed'
  OBVIOUS
<1>0. /\ clock \in 0..MaxClock /\ clock \in Nat /\ MaxClock \in Nat /\ Threshold \in Nat \ {0}
      /\ begun \in [Statements -> Nat]
      /\ \A s \in Running : begun[s] <= clock
      /\ \/ current = NoPair
         \/ current.sql \in Running /\ current = [sql |-> current.sql, start |-> begun[current.sql]]
      /\ \A s \in Running : s \notin overlapped => /\ \A r \in Running : r = s
                                                   /\ current = [sql |-> s, start |-> begun[s]]
      /\ WarningsAreTrue
      /\ "null" \notin Statements
      /\ \A s : s \in Running <=> s \in Statements /\ begun[s] # MaxClock + 1
  BY DiagnosticsAssumption DEF Timed, Running, NotRunning
<1>a. \A s : s \in Running' <=> s \in Statements /\ begun'[s] # MaxClock + 1
  BY DEF Running, NotRunning
<1>1. ASSUME NEW s \in Statements, OnQuery(s) PROVE Timed'
  <2>1. /\ s \notin Running /\ begun' = [begun EXCEPT ![s] = clock]
        /\ overlapped' = IF Running = {} THEN overlapped \ {s} ELSE overlapped \cup Running \cup {s}
        /\ current' = [sql |-> s, start |-> clock] /\ clock' = clock /\ ended' = ended
    BY <1>1 DEF OnQuery
  <2>2. /\ begun' \in [Statements -> Nat] /\ begun'[s] = clock
        /\ \A r \in Statements : r # s => begun'[r] = begun[r]
    BY <1>0, <2>1
  <2>3. s \in Running' /\ \A r : r \in Running' <=> r = s \/ r \in Running
    BY <1>0, <1>a, <2>1, <2>2
  <2>4. \A r \in Running' : begun'[r] <= clock'
    BY <1>0, <2>1, <2>2, <2>3
  <2>5. current'.sql = s /\ current' = [sql |-> s, start |-> begun'[s]]
    BY <2>1, <2>2
  <2>6. ASSUME NEW r \in Running', r \notin overlapped'
        PROVE  (\A t \in Running' : t = r) /\ current' = [sql |-> r, start |-> begun'[r]]
    <3>1. Running = {} /\ r = s
      BY <2>1, <2>3, <2>6
    <3> QED
      BY <2>3, <2>5, <3>1
  <2>7. WarningsAreTrue'
    BY <1>0, <2>1 DEF WarningsAreTrue
  <2> QED
    BY <1>0, <2>1, <2>2, <2>3, <2>4, <2>5, <2>6, <2>7 DEF Timed
<1>2. ASSUME NEW s \in Statements, OnResult(s) PROVE Timed'
  <2>1. /\ s \in Running
        /\ ended' = [sql |-> s, took |-> clock - begun[s], alone |-> s \notin overlapped, warning |-> Warning]
        /\ current' = NoPair /\ clock' = clock
        /\ begun' = [begun EXCEPT ![s] = NotRunning] /\ overlapped' = overlapped \ {s}
    BY <1>2 DEF OnResult
  <2>2. /\ begun' \in [Statements -> Nat] /\ begun'[s] = MaxClock + 1
        /\ \A r \in Statements : r # s => begun'[r] = begun[r]
    BY <1>0, <2>1 DEF NotRunning
  <2>3. \A r : r \in Running' <=> r \in Running /\ r # s
    BY <1>0, <1>a, <2>1, <2>2
  <2>4. \A r \in Running' : begun'[r] <= clock'
    BY <1>0, <2>1, <2>2, <2>3
  <2>5. \A r \in Running' : r \in overlapped'
    BY <1>0, <2>1, <2>3
  <2>6. Warning # NoPair <=> current # NoPair /\ clock - current.start >= Threshold
    <3>1. [sql |-> current.sql, duration |-> clock - current.start,
           truly |-> IF current.sql \in Running THEN clock - begun[current.sql] ELSE 0] # NoPair
      <4>1. DOMAIN [sql |-> current.sql, duration |-> clock - current.start,
              truly |-> IF current.sql \in Running THEN clock - begun[current.sql] ELSE 0] = {"sql", "duration", "truly"}
        OBVIOUS
      <4>2. DOMAIN NoPair = {"sql", "start"}
        BY DEF NoPair
      <4> QED
        BY <4>1, <4>2
    <3> QED
      BY <3>1 DEF Warning
  <2>7. Warning # NoPair => Warning.duration = Warning.truly
    <3> SUFFICES ASSUME Warning # NoPair PROVE Warning.duration = Warning.truly
      OBVIOUS
    <3>1. /\ current.sql \in Running /\ current.start = begun[current.sql]
          /\ Warning = [sql |-> current.sql, duration |-> clock - current.start,
               truly |-> IF current.sql \in Running THEN clock - begun[current.sql] ELSE 0]
      BY <1>0, <2>6 DEF Warning
    <3> QED
      BY <3>1
  <2>8. s \notin overlapped => (Warning # NoPair <=> clock - begun[s] >= Threshold)
    <3> SUFFICES ASSUME s \notin overlapped PROVE Warning # NoPair <=> clock - begun[s] >= Threshold
      OBVIOUS
    <3>1. current = [sql |-> s, start |-> begun[s]]
      BY <1>0, <2>1
    <3>2. current # NoPair
      <4>1. current.sql = s /\ NoPair.sql = "null" /\ s # "null"
        BY <1>0, <3>1 DEF NoPair
      <4> QED
        BY <4>1
    <3> QED
      BY <2>6, <3>1, <3>2
  <2>9. WarningsAreTrue'
    <3> PICK w : w = Warning
      OBVIOUS
    <3>1. /\ ended'.warning = w /\ ended'.took = clock - begun[s]
          /\ (ended'.alone <=> s \notin overlapped)
      BY <2>1
    <3>2. /\ (w # NoPair => w.duration = w.truly)
          /\ (s \notin overlapped => (w # NoPair <=> clock - begun[s] >= Threshold))
      BY <2>7, <2>8
    <3> QED
      BY <3>1, <3>2 DEF WarningsAreTrue
  <2> QED
    BY <1>0, <2>1, <2>2, <2>4, <2>5, <2>9 DEF Timed
<1>3. ASSUME Elapse, UNCHANGED <<healthVars, queryVars>> PROVE Timed'
  <2>1. /\ clock < MaxClock /\ clock' = clock + 1
        /\ current' = current /\ begun' = begun /\ overlapped' = overlapped /\ ended' = ended
    BY <1>3 DEF Elapse, queryVars
  <2>2. Running' = Running /\ clock' \in 0..MaxClock /\ \A s \in Running : begun'[s] <= clock'
    BY <1>0, <2>1 DEF Running
  <2>3. WarningsAreTrue'
    BY <1>0, <2>1 DEF WarningsAreTrue
  <2> QED
    BY <1>0, <2>1, <2>2, <2>3 DEF Timed
<1> QED
  BY <1>1, <1>2, <1>3 DEF QueryNext

\* For any statements, threshold and clock: the one a warning names has run as
\* long as it says, and one that ran alone is reported exactly if it was slow.
THEOREM WarningsAreTrueEver == QuerySpec => []WarningsAreTrue
<1>1. Timed /\ UNCHANGED diagnosticsVars => Timed'
  BY DEF Timed, Running, WarningsAreTrue, diagnosticsVars, queryVars
<1>2. Timed => WarningsAreTrue
  BY DEF Timed
<1> QED
  BY <1>1, <1>2, TimedInit, TimedNext, PTL DEF QuerySpec

-----------------------------------------------------------------------------
(* List pages.                                                             *)

PagesSpec == PagesInit /\ [][PagesNext]_pageVars

\* A request that is under way has a number of its own, and its statement has
\* taken effect exactly if the route has answered with a 2xx or is to.
Numbered(snd, wr, com, aud) ==
  /\ wr \in Nat
  /\ \A n \in com : n \in Nat /\ n <= wr
  /\ \A r \in snd : /\ r.nr \in Nat /\ r.nr <= wr
                    /\ DOMAIN r = {"nr", "op", "id", "at"}
                    /\ r.at \in {"sent", "2xx", "error", "ok", "refused"}
                    /\ r.nr \in com <=> r.at \in {"2xx", "ok"}
  /\ \A r, q \in snd : r.nr = q.nr => r = q
  /\ aud \subseteq com

\* No request under way has changed anything.
Settled(snd, com) == \A r \in snd : r.nr \notin com

\* What was read since the last change, and heard of, is what there is.
Reads(there, f, l) ==
  /\ f.at = "none" /\ l # NoList => l = there
  /\ f.at = "served" => f.answer = there

PageIsTrue ==
  /\ Numbered(sending, writes, committed, audit)
  /\ fetch.at \in {"none", "sent", "served", "failed"}
  /\ ~unheard /\ Settled(sending, committed) => Reads([rows |-> rows, edits |-> edits], fetch, list)

LEMMA PagesBegin == PagesInit => PageIsTrue
BY DEF PagesInit, PageIsTrue, Numbered, Settled, Reads, Sent

LEMMA PagesStep == PageIsTrue /\ [PagesNext]_pageVars => PageIsTrue'
<1> SUFFICES ASSUME PageIsTrue, [PagesNext]_pageVars PROVE PageIsTrue'
  OBVIOUS
<1>0. /\ Numbered(sending, writes, committed, audit)
      /\ fetch.at \in {"none", "sent", "served", "failed"}
      /\ ~unheard /\ Settled(sending, committed) => Reads([rows |-> rows, edits |-> edits], fetch, list)
  BY DEF PageIsTrue
<1>1. ASSUME ServeList PROVE PageIsTrue'
  BY <1>0, <1>1 DEF ServeList, PageIsTrue, Reads
<1>2. ASSUME ShowList PROVE PageIsTrue'
  <2>1. /\ fetch.at \in {"served", "failed"} /\ fetch' = NoFetch
        /\ list' = IF fetch.at = "failed" THEN list ELSE fetch.answer
        /\ (unheard' <=> unheard \/ fetch.at = "failed")
        /\ rows' = rows /\ edits' = edits /\ sending' = sending /\ writes' = writes
        /\ audit' = audit /\ committed' = committed
    BY <1>2 DEF ShowList
  <2> QED
    BY <1>0, <2>1 DEF PageIsTrue, Reads, NoFetch
<1>3. ASSUME OpenDialog PROVE PageIsTrue'
  BY <1>0, <1>3 DEF OpenDialog, PageIsTrue
<1>4. ASSUME NEW op, NEW id, Send(op, id) PROVE PageIsTrue'
  <2> DEFINE new == [nr |-> writes + 1, op |-> op, id |-> id, at |-> "sent"]
  <2>1. /\ writes' = writes + 1 /\ sending' = sending \cup {new} /\ rows' = rows /\ edits' = edits
        /\ list' = list /\ fetch' = fetch /\ unheard' = unheard
        /\ audit' = audit /\ committed' = committed
    BY <1>4 DEF Send
  <2>2. writes \in Nat /\ writes + 1 \notin committed /\ \A r \in sending : r.nr # writes + 1
    BY <1>0 DEF Numbered
  <2>3. Numbered(sending', writes', committed', audit')
    <3>1. \A r \in sending' : /\ r.nr \in Nat /\ r.nr <= writes'
                              /\ DOMAIN r = {"nr", "op", "id", "at"}
                              /\ r.at \in {"sent", "2xx", "error", "ok", "refused"}
                              /\ r.nr \in committed' <=> r.at \in {"2xx", "ok"}
      BY <1>0, <2>1, <2>2 DEF Numbered
    <3>2. \A r, q \in sending' : r.nr = q.nr => r = q
      BY <1>0, <2>1, <2>2 DEF Numbered
    <3>3. \A n \in committed' : n \in Nat /\ n <= writes'
      BY <1>0, <2>1, <2>2 DEF Numbered
    <3> QED
      BY <1>0, <2>1, <2>2, <3>1, <3>2, <3>3 DEF Numbered
  <2>4. Settled(sending', committed') <=> Settled(sending, committed)
    BY <2>1, <2>2 DEF Settled
  <2> QED
    BY <1>0, <2>1, <2>3, <2>4 DEF PageIsTrue
<1>5. ASSUME NEW r \in sending, NEW step, At(r, step) PROVE sending' = (sending \ {r}) \cup {[r EXCEPT !.at = step]}
  BY <1>5 DEF At
<1>6. ASSUME NEW r \in sending, RunStatement(r) PROVE PageIsTrue'
  <2>1. /\ r.at = "sent" /\ list' = list /\ fetch' = fetch /\ writes' = writes
        /\ audit' = audit /\ unheard' = unheard
    BY <1>6 DEF RunStatement
  <2>2. CASE committed' = committed \cup {r.nr} /\ At(r, "2xx")
    <3>1. PICK q : q = [r EXCEPT !.at = "2xx"]
      OBVIOUS
    <3>2. /\ q.nr = r.nr /\ q.at = "2xx" /\ DOMAIN q = {"nr", "op", "id", "at"}
          /\ sending' = (sending \ {r}) \cup {q}
      BY <1>0, <1>5, <2>2, <3>1 DEF Numbered
    <3>3. ASSUME NEW s \in sending'
          PROVE  /\ s.nr \in Nat /\ s.nr <= writes'
                 /\ DOMAIN s = {"nr", "op", "id", "at"}
                 /\ s.at \in {"sent", "2xx", "error", "ok", "refused"}
                 /\ s.nr \in committed' <=> s.at \in {"2xx", "ok"}
      <4>1. CASE s = q
        BY <1>0, <2>1, <2>2, <3>2, <4>1 DEF Numbered
      <4>2. CASE s # q
        <5>1. s \in sending /\ s.nr # r.nr
          BY <1>0, <3>2, <4>2 DEF Numbered
        <5> QED
          BY <1>0, <2>1, <2>2, <5>1 DEF Numbered
      <4> QED
        BY <4>1, <4>2
    <3>4. \A s, t \in sending' : s.nr = t.nr => s = t
      BY <1>0, <3>2 DEF Numbered
    <3>5. Numbered(sending', writes', committed', audit')
      BY <1>0, <2>1, <2>2, <3>3, <3>4 DEF Numbered
    <3>6. ~Settled(sending', committed')
      BY <2>2, <3>2 DEF Settled
    <3> QED
      BY <1>0, <2>1, <3>5, <3>6 DEF PageIsTrue
  <2>3. CASE At(r, "error") /\ UNCHANGED <<rows, edits, committed>>
    <3>1. PICK q : q = [r EXCEPT !.at = "error"]
      OBVIOUS
    <3>2. /\ q.nr = r.nr /\ q.at = "error" /\ DOMAIN q = {"nr", "op", "id", "at"}
          /\ sending' = (sending \ {r}) \cup {q}
      BY <1>0, <1>5, <2>3, <3>1 DEF Numbered
    <3>3. \A s \in sending' :
                 /\ s.nr \in Nat /\ s.nr <= writes'
                 /\ DOMAIN s = {"nr", "op", "id", "at"}
                 /\ s.at \in {"sent", "2xx", "error", "ok", "refused"}
                 /\ s.nr \in committed' <=> s.at \in {"2xx", "ok"}
      BY <1>0, <2>1, <2>3, <3>2 DEF Numbered
    <3>4. \A s, t \in sending' : s.nr = t.nr => s = t
      BY <1>0, <3>2 DEF Numbered
    <3>5. Numbered(sending', writes', committed', audit')
      BY <1>0, <2>1, <2>3, <3>3, <3>4 DEF Numbered
    <3>6. Settled(sending', committed') => Settled(sending, committed)
      BY <2>3, <3>2 DEF Settled
    <3> QED
      BY <1>0, <2>1, <2>3, <3>5, <3>6 DEF PageIsTrue
  <2> QED
    BY <1>6, <2>2, <2>3 DEF RunStatement
<1>7. ASSUME NEW r \in sending, AuditHook(r) PROVE PageIsTrue'
  <2>1. /\ r.at \in {"2xx", "error"} /\ At(r, IF r.at = "2xx" THEN "ok" ELSE "refused")
        /\ audit' \in {audit, IF r.at = "2xx" THEN audit \cup {r.nr} ELSE audit}
        /\ list' = list /\ fetch' = fetch /\ writes' = writes /\ rows' = rows /\ edits' = edits
        /\ committed' = committed /\ unheard' = unheard
    BY <1>7 DEF AuditHook
  <2>2. PICK q : q = [r EXCEPT !.at = IF r.at = "2xx" THEN "ok" ELSE "refused"]
    OBVIOUS
  <2>3. /\ q.nr = r.nr /\ q.at = (IF r.at = "2xx" THEN "ok" ELSE "refused") /\ DOMAIN q = {"nr", "op", "id", "at"}
        /\ sending' = (sending \ {r}) \cup {q}
    BY <1>0, <1>5, <2>1, <2>2 DEF Numbered
  <2>4. \A s \in sending' :
                 /\ s.nr \in Nat /\ s.nr <= writes'
                 /\ DOMAIN s = {"nr", "op", "id", "at"}
                 /\ s.at \in {"sent", "2xx", "error", "ok", "refused"}
                 /\ s.nr \in committed' <=> s.at \in {"2xx", "ok"}
    BY <1>0, <2>1, <2>3 DEF Numbered
  <2>5. \A s, t \in sending' : s.nr = t.nr => s = t
    BY <1>0, <2>3 DEF Numbered
  <2>6. audit' \subseteq committed'
    BY <1>0, <2>1 DEF Numbered
  <2>7. Numbered(sending', writes', committed', audit')
    BY <1>0, <2>1, <2>4, <2>5, <2>6 DEF Numbered
  <2>8. Settled(sending', committed') => Settled(sending, committed)
    BY <2>1, <2>3 DEF Settled
  <2> QED
    BY <1>0, <2>1, <2>7, <2>8 DEF PageIsTrue
<1>8. ASSUME NEW r \in sending, sending' = sending \ {r},
             UNCHANGED <<writes, committed, audit>>
      PROVE  Numbered(sending', writes', committed', audit')
  BY <1>0, <1>8 DEF Numbered
<1>9. ASSUME NEW r \in sending, Answered(r) PROVE PageIsTrue'
  <2>1. fetch' = Sent /\ Numbered(sending', writes', committed', audit')
    BY <1>8, <1>9 DEF Answered
  <2> QED
    BY <2>1 DEF PageIsTrue, Reads, Sent
<1>10. ASSUME NEW r \in sending, Lost(r) PROVE PageIsTrue'
  <2>1. /\ Numbered(sending', writes', committed', audit')
        /\ sending' = sending \ {r} /\ committed' = committed
        /\ (unheard' <=> unheard \/ r.nr \in committed)
        /\ rows' = rows /\ edits' = edits /\ list' = list /\ fetch' = fetch
    BY <1>8, <1>10 DEF Lost
  <2>2. ~unheard' /\ Settled(sending', committed') => ~unheard /\ Settled(sending, committed)
    BY <2>1 DEF Settled
  <2> QED
    BY <1>0, <2>1, <2>2 DEF PageIsTrue
<1>11. CASE UNCHANGED pageVars
  BY <1>11 DEF pageVars, PageIsTrue
<1>12. CASE Submit
  BY <1>4, <1>12 DEF Submit
<1> QED
  BY <1>1, <1>2, <1>3, <1>6, <1>7, <1>9, <1>10, <1>11, <1>12 DEF PagesNext

LEMMA PageMeant == PageIsTrue => ShownIsCurrent /\ AuditedWereDone
BY DEF PageIsTrue, Numbered, Settled, Reads, ShownIsCurrent, AuditedWereDone, NoFetch

\* For any rows and any number of requests at once, a page at rest that has heard
\* of all changes shows what there is.
THEOREM ShownIsCurrentEver == PagesSpec => []ShownIsCurrent
BY PagesBegin, PagesStep, PageMeant, PTL DEF PagesSpec

\* For any requests, answered or lost, the audit log is about what took effect.
THEOREM AuditedWereDoneEver == PagesSpec => []AuditedWereDone
BY PagesBegin, PagesStep, PageMeant, PTL DEF PagesSpec

-----------------------------------------------------------------------------
(* All services.                                                           *)

\* Every step is one of each part, or leaves it alone; statements and probes
\* share the clock.
LEMMA ServicesStep ==
  [ServicesNext]_servicesVars =>
    /\ [WsNext]_wsVars /\ [PubSubNext]_pubsubVars /\ [NotifyNext]_notifyVars /\ [RateNext]_rateVars
    /\ part' = part
    /\ \/ HealthNext /\ part = "health"
       \/ QueryNext /\ part = "queries"
       \/ UNCHANGED diagnosticsVars
<1> SUFFICES ASSUME [ServicesNext]_servicesVars
             PROVE  /\ [WsNext]_wsVars /\ [PubSubNext]_pubsubVars /\ [NotifyNext]_notifyVars /\ [RateNext]_rateVars
                    /\ part' = part
                    /\ \/ HealthNext /\ part = "health"
                       \/ QueryNext /\ part = "queries"
                       \/ UNCHANGED diagnosticsVars
  OBVIOUS
<1>1. CASE UNCHANGED servicesVars
  <2>1. /\ UNCHANGED wsVars /\ UNCHANGED pubsubVars /\ UNCHANGED notifyVars /\ UNCHANGED rateVars
        /\ part' = part /\ UNCHANGED diagnosticsVars
    BY <1>1 DEF servicesVars
  <2> QED
    BY <2>1
<1>2. CASE ServicesNext
  <2>1. part' = part
    BY <1>2 DEF ServicesNext
  <2>2. [WsNext]_wsVars
    BY <1>2 DEF ServicesNext, Idle
  <2>3. [PubSubNext]_pubsubVars
    BY <1>2 DEF ServicesNext, Idle
  <2>4. [NotifyNext]_notifyVars
    BY <1>2 DEF ServicesNext, Idle
  <2>5. [RateNext]_rateVars
    BY <1>2 DEF ServicesNext, Idle
  <2>6. \/ HealthNext /\ part = "health"
        \/ QueryNext /\ part = "queries"
        \/ UNCHANGED diagnosticsVars
    BY <1>2 DEF ServicesNext
  <2> QED
    BY <2>1, <2>2, <2>3, <2>4, <2>5, <2>6
<1> QED
  BY <1>1, <1>2

LEMMA ServicesBegin ==
  ServicesInit => WsInit /\ PubSubInit /\ NotifyInit /\ RateInit /\ DiagnosticsInit
BY DEF ServicesInit

\* Deliveries, for any clients, channels and providers.
THEOREM DeliveriesEver == ServicesSpec => []Deliveries
<1>1. ServicesInit => AllTold /\ SentToThoseWhoAsked /\ AllOwe /\ Fanning
  BY ServicesBegin, RoomsInit, ChannelsInit, FanningInit
<1>2. AllTold /\ SentToThoseWhoAsked /\ AllOwe /\ Fanning /\ [ServicesNext]_servicesVars
        => AllTold' /\ SentToThoseWhoAsked' /\ AllOwe' /\ Fanning'
  BY ServicesStep, RoomsNext, ChannelsNext, FanningNext
<1>3. SentToThoseWhoAsked /\ AllOwe /\ Fanning => Deliveries
  BY WaitsForAll, FanningMeant DEF Deliveries
<1> QED
  BY <1>1, <1>2, <1>3, PTL DEF ServicesSpec

\* The clock of the probes is that of the statements.
LEMMA TimedWhileProbing == Timed /\ HealthNext => Timed'
<1> SUFFICES ASSUME Timed, HealthNext PROVE Timed'
  OBVIOUS
<1>1. UNCHANGED queryVars /\ (clock' = clock \/ Elapse)
  BY DEF HealthNext, Begin, PingAfterwards, Report, TimeOut, Settle
<1>2. /\ current' = current /\ begun' = begun /\ overlapped' = overlapped /\ ended' = ended
      /\ clock \in 0..MaxClock /\ MaxClock \in Nat
  BY <1>1, DiagnosticsAssumption DEF queryVars, Timed
<1>3. clock' \in 0..MaxClock /\ clock <= clock' /\ clock \in Nat /\ clock' \in Nat
  BY <1>1, <1>2 DEF Elapse
<1>4. Running' = Running /\ \A s \in Running : begun'[s] <= clock' /\ begun[s] \in Nat
  BY <1>2, <1>3 DEF Timed, Running
<1>5. WarningsAreTrue'
  BY <1>2 DEF Timed, WarningsAreTrue
<1> QED
  BY <1>2, <1>3, <1>4, <1>5 DEF Timed

LEMMA ProbingWhileTimed == Probing /\ ~Busy /\ QueryNext => Probing' /\ ~Busy'
<1> SUFFICES ASSUME Probing, ~Busy, QueryNext PROVE Probing' /\ ~Busy'
  OBVIOUS
<1>1. UNCHANGED healthVars /\ (clock' = clock \/ clock' = clock + 1)
  BY DEF QueryNext, OnQuery, OnResult, Elapse
<1>2. ask' = ask /\ probe' = probe /\ replied' = replied /\ told' = told /\ clock' \in Nat
  BY <1>1 DEF healthVars, Probing
<1> QED
  BY <1>2 DEF Probing, Busy, ToldTruly

LEMMA PollStays == ServicesSpec => PollSpec
<1>1. ServicesInit => PollInit
  BY DEF ServicesInit
<1>2. [ServicesNext]_servicesVars => [PollNext]_pollVars
  <2>1. CASE ServicesNext
    BY <2>1 DEF ServicesNext, Idle
  <2>2. CASE UNCHANGED servicesVars
    BY <2>2 DEF servicesVars
  <2> QED
    BY <2>1, <2>2
<1> QED
  BY <1>1, <1>2, PTL DEF ServicesSpec, PollSpec

\* KeepsTime, for any limits, windows and clocks.
THEOREM KeepsTimeEver == ServicesSpec => []KeepsTime
<1> DEFINE Inv == RateInv /\ VerdictIsTrue /\ Probing /\ Timed /\ (part = "queries" => ~Busy)
<1>1. ServicesInit => Inv
  <2>1. RateInit => RateInv /\ VerdictIsTrue
    BY RateInductive DEF RateInit, VerdictIsTrue
  <2> QED
    BY <2>1, ServicesBegin, ProbingInit, TimedInit
<1>2. Inv /\ [ServicesNext]_servicesVars => Inv'
  <2> SUFFICES ASSUME Inv, [ServicesNext]_servicesVars PROVE Inv'
    OBVIOUS
  <2>1. RateInv' /\ VerdictIsTrue'
    BY ServicesStep, RateInductive, VerdictStep
  <2>2. CASE HealthNext /\ part = "health"
    BY <2>1, <2>2, ServicesStep, ProbingNext, TimedWhileProbing
  <2>3. CASE QueryNext /\ part = "queries"
    BY <2>1, <2>3, ServicesStep, ProbingWhileTimed, TimedNext
  <2>4. CASE UNCHANGED diagnosticsVars
    <3>1. Probing' /\ Timed' /\ (Busy' <=> Busy)
      BY <2>4 DEF Probing, Busy, ToldTruly, Timed, Running, WarningsAreTrue, diagnosticsVars, healthVars, queryVars
    <3> QED
      BY <2>1, <3>1, ServicesStep
  <2> QED
    BY <2>2, <2>3, <2>4, ServicesStep
<1>3. Inv /\ OneTimer => KeepsTime
  <2>1. RateInv /\ VerdictIsTrue => LimitsHold
    BY WindowsBound, WindowsEnd DEF LimitsHold, RetryAfterSuffices, VerdictIsTrue
  <2>2. Timed => WarningsAreTrue
    BY DEF Timed
  <2> QED
    BY <2>1, <2>2, ProbingMeant DEF KeepsTime
<1> HIDE DEF Inv
<1> QED
  BY <1>1, <1>2, <1>3, PollStays, OneTimerEver, PTL DEF ServicesSpec
=============================================================================
