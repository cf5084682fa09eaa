----------------------------- MODULE ParselmouthDb -----------------------------
(***************************************************************************)
(* open_parselmouth_database: several processes keep one sqlite file       *)
(* current with an upstream relations table by conditional requests, and   *)
(* each returns a connection to whatever the file's name denotes then.     *)
(*                                                                         *)
(* A file is an inode: os.replace moves the name db_path to another one,   *)
(* while a connection stays on the inode it opened.  A table is abstracted *)
(* to its version, an ETag to the version it identifies.                   *)
(*                                                                         *)
(* A definition introduced by "Bug:" is no part of the specification: it   *)
(* is a plausible mistake in the action after it, used to confirm that the *)
(* properties would notice.                                                *)
(***************************************************************************)
EXTENDS Integers

CONSTANTS
    Proc,         \* processes sharing one cache directory
    Url,          \* relations_url values in use
    Inode,        \* files that can exist at once
    NoInode,      \* no such file, or no connection
    MaxVersion,   \* bound of the model: publications per url
    MaxFailures   \* bound of the model: failures and kills

ASSUME InodeAssumption == NoInode \notin Inode
ASSUME UrlAssumption == "none" \notin Url
ASSUME BoundAssumption == MaxVersion \in Nat \ {0} /\ MaxFailures \in Nat

VARIABLES
    upstream,     \* upstream[u]: version being served
    disk,         \* disk[i]: contents of an inode
    db_path,      \* the inode the database's name denotes
    pc,           \* where each process is inside open_parselmouth_database
    url,          \* its relations_url
    etag,         \* previous_etag: what it sends as If-None-Match
    body,         \* the response it downloaded, then the database built from it
    staged,       \* its mkstemp file beside db_path
    conn,         \* the inode of the last connection it was returned
    since,        \* version upstream served when its call began
    opened,       \* "undisturbed": no other process installed since it read the ETag
    failures

vars == <<upstream, disk, db_path, pc, url, etag, body, staged, conn, since, opened,
          failures>>

-----------------------------------------------------------------------------

Version == 1 .. MaxVersion
NoEtag == 0
NoRows == 0   \* the version of a table that has none

Blank == [state |-> "blank", url |-> "none", version |-> NoRows, etag |-> NoEtag]
Contents ==
    {Blank} \cup
    [state : {"partial", "whole"}, url : Url, version : Version \cup {NoRows},
     etag : Version \cup {NoEtag}]

Exists(i) == i # NoInode

(* The kernel keeps an inode while a name or an open file refers to it. *)
InUse(i) ==
    \/ i = db_path
    \/ \E p \in Proc : staged[p] = i \/ conn[p] = i

KeepReferenced(contents) ==
    disk' = [i \in Inode |-> IF InUse(i)' THEN contents[i] ELSE Blank]

Init ==
    /\ upstream = [u \in Url |-> 1]
    /\ disk = [i \in Inode |-> Blank]
    /\ db_path = NoInode
    /\ pc = [p \in Proc |-> "idle"]
    /\ url \in [Proc -> Url]
    /\ etag = [p \in Proc |-> NoEtag]
    /\ body = [p \in Proc |-> Blank]
    /\ staged = [p \in Proc |-> NoInode]
    /\ conn = [p \in Proc |-> NoInode]
    /\ since = [p \in Proc |-> 1]
    /\ opened = [p \in Proc |-> "none"]
    /\ failures = 0

-----------------------------------------------------------------------------

(* Upstream publishes a new relations table at u. *)
Publish(u) ==
    /\ upstream[u] < MaxVersion
    /\ upstream' = [upstream EXCEPT ![u] = @ + 1]
    /\ UNCHANGED <<disk, db_path, pc, url, etag, body, staged, conn, since, opened, failures>>

Goto(p, next) == pc' = [pc EXCEPT ![p] = next]

(* The call begins.  The mapper of the process's previous call is gone by  *)
(* then, and its connection with it; a caller that keeps one converts with *)
(* it and does not call again, or is one more process of this model.       *)
Call(p, u) ==
    /\ pc[p] = "idle"
    /\ Goto(p, "etag")
    /\ url' = [url EXCEPT ![p] = u]
    /\ since' = [since EXCEPT ![p] = upstream[u]]
    /\ opened' = [opened EXCEPT ![p] = "none"]
    /\ conn' = [conn EXCEPT ![p] = NoInode]
    /\ UNCHANGED <<upstream, db_path, etag, body, staged, failures>>
    /\ KeepReferenced(disk)

(* Bug: the ETag is looked up without its url. *)
StoredEtagOfAnyUrl(p) == IF Exists(db_path) THEN disk[db_path].etag ELSE NoEtag

(* _stored_etag: the row for this url in the file the name denotes now. *)
StoredEtag(p) ==
    IF Exists(db_path) /\ disk[db_path].url = url[p]
    THEN disk[db_path].etag
    ELSE NoEtag

ReadEtag(p) ==
    /\ pc[p] = "etag"
    /\ Goto(p, "request")
    /\ etag' = [etag EXCEPT ![p] = StoredEtag(p)]
    /\ opened' = [opened EXCEPT ![p] = "undisturbed"]
    /\ UNCHANGED <<upstream, disk, db_path, url, body, staged, conn, since, failures>>

(* 304: the file is taken to be current, and connected to next. *)
NotModified(p) ==
    /\ pc[p] = "request"
    /\ etag[p] = upstream[url[p]]
    /\ Goto(p, "connect")
    /\ UNCHANGED <<upstream, disk, db_path, url, etag, body, staged, conn, since, opened,
                   failures>>

(* 200: the body of the version served now, with that version's ETag if    *)
(* the server sends one.  A server may answer so whatever it was sent.     *)
Modified(p) ==
    /\ pc[p] = "request"
    /\ Goto(p, "build")
    /\ \E tag \in {NoEtag, upstream[url[p]]} :
        body' = [body EXCEPT ![p] = [state |-> "whole", url |-> url[p],
                                     version |-> upstream[url[p]], etag |-> tag]]
    /\ UNCHANGED <<upstream, disk, db_path, url, etag, staged, conn, since, opened, failures>>

(* The connection drops and copyfileobj ends as if the body were complete: *)
(* part of a gzip file, or, dropped before the first byte, an empty file,  *)
(* which gzip reads as one without lines.  The ETag came with the headers. *)
Truncate(p) ==
    /\ pc[p] = "build"
    /\ body[p].state = "whole"
    /\ body[p].version # NoRows
    /\ failures < MaxFailures
    /\ failures' = failures + 1
    /\ \/ body' = [body EXCEPT ![p].state = "partial"]
       \/ body' = [body EXCEPT ![p].version = NoRows]
    /\ UNCHANGED <<upstream, disk, db_path, pc, url, etag, staged, conn, since, opened>>

(* Bug: the staged file is left behind. *)
LeaveLeaky(p) ==
    /\ Goto(p, "idle")
    /\ etag' = [etag EXCEPT ![p] = NoEtag]
    /\ body' = [body EXCEPT ![p] = Blank]
    /\ opened' = [opened EXCEPT ![p] = "none"]
    /\ UNCHANGED <<upstream, disk, db_path, url, staged, conn, since>>

(* An exception leaves the call: its staged file is unlinked, its scratch  *)
(* directory removed, the database untouched.                              *)
Leave(p) ==
    /\ Goto(p, "idle")
    /\ etag' = [etag EXCEPT ![p] = NoEtag]
    /\ body' = [body EXCEPT ![p] = Blank]
    /\ staged' = [staged EXCEPT ![p] = NoInode]
    /\ opened' = [opened EXCEPT ![p] = "none"]
    /\ UNCHANGED <<upstream, db_path, url, conn, since>>
    /\ KeepReferenced(disk)

(* Bug: the ETag is asked for when the build is stored, not kept from the  *)
(* response the build came from.                                           *)
BuildWithLaterEtag(p) ==
    /\ pc[p] = "build"
    /\ body[p].state = "whole"
    /\ Goto(p, "stage")
    /\ body' = [body EXCEPT ![p].etag = upstream[url[p]]]
    /\ UNCHANGED <<upstream, disk, db_path, url, etag, staged, conn, since, opened, failures>>

(* write_relations and _store_etag into a scratch database of its own, for *)
(* however many rows iter_relations yields, none included.                 *)
Build(p) ==
    /\ pc[p] = "build"
    /\ body[p].state = "whole"
    /\ Goto(p, "stage")
    /\ UNCHANGED <<upstream, disk, db_path, url, etag, body, staged, conn, since, opened,
                   failures>>

(* gzip finds no end-of-stream marker after the bytes there are. *)
BuildRejects(p) ==
    /\ pc[p] = "build"
    /\ body[p].state = "partial"
    /\ Leave(p)
    /\ UNCHANGED failures

(* Bug: the build is copied over the file in use. *)
StageInPlace(p) ==
    /\ pc[p] = "stage"
    /\ Goto(p, "install")
    /\ UNCHANGED <<upstream, url, etag, body, conn, since, opened, failures>>
    /\ \E i \in Inode :
        /\ i = db_path \/ (db_path = NoInode /\ ~InUse(i))
        /\ staged' = [staged EXCEPT ![p] = i]
        /\ db_path' = i
        /\ KeepReferenced([disk EXCEPT ![i] = [body[p] EXCEPT !.state = "partial"]])

(* mkstemp beside db_path, and copy2 begins. *)
Stage(p) ==
    /\ pc[p] = "stage"
    /\ Goto(p, "copy")
    /\ UNCHANGED <<upstream, db_path, url, etag, body, conn, since, opened, failures>>
    /\ \E i \in Inode :
        /\ ~InUse(i)
        /\ staged' = [staged EXCEPT ![p] = i]
        /\ KeepReferenced([disk EXCEPT ![i] = [body[p] EXCEPT !.state = "partial"]])

CopyDone(p) ==
    /\ pc[p] = "copy"
    /\ Goto(p, "install")
    /\ disk' = [disk EXCEPT ![staged[p]] = body[p]]
    /\ UNCHANGED <<upstream, db_path, url, etag, body, staged, conn, since, opened, failures>>

Disturbed(p) ==
    [q \in Proc |-> IF q # p /\ pc[q] # "idle" /\ opened[q] = "undisturbed"
                    THEN "disturbed" ELSE opened[q]]

(* os.replace: the name moves to the new file, whatever it denoted. *)
Install(p) ==
    /\ pc[p] = "install"
    /\ Goto(p, "connect")
    /\ db_path' = staged[p]
    /\ staged' = [staged EXCEPT ![p] = NoInode]
    /\ opened' = Disturbed(p)
    /\ UNCHANGED <<upstream, url, etag, body, conn, since, failures>>
    /\ KeepReferenced(disk)

(* sqlite3.connect(db_path) opens what the name denotes by then. *)
Connect(p) ==
    /\ pc[p] = "connect"
    /\ Goto(p, "idle")
    /\ conn' = [conn EXCEPT ![p] = db_path]
    /\ etag' = [etag EXCEPT ![p] = NoEtag]
    /\ body' = [body EXCEPT ![p] = Blank]
    /\ UNCHANGED <<upstream, db_path, url, staged, since, opened, failures>>
    /\ KeepReferenced(disk)

(* A sqlite, network, parse or filesystem error, or a kill.  A kill leaves *)
(* the staged file on disk under a name nothing looks for, so it is no     *)
(* longer part of this state either.                                       *)
Fails(p) ==
    /\ pc[p] # "idle"
    /\ failures < MaxFailures
    /\ failures' = failures + 1
    /\ Leave(p)

Work(p) ==
    \/ \E u \in Url : Call(p, u)
    \/ ReadEtag(p) \/ NotModified(p) \/ Modified(p) \/ Build(p) \/ BuildRejects(p)
    \/ Stage(p) \/ CopyDone(p) \/ Install(p) \/ Connect(p)

Next ==
    \/ \E u \in Url : Publish(u)
    \/ \E p \in Proc : Work(p) \/ Truncate(p) \/ Fails(p)

Spec == Init /\ [][Next]_vars

(* Processes keep converting wheels, and upstream answers every request    *)
(* (urlopen is given no timeout, so the code itself does not ensure it).   *)
FairSpec == Spec /\ \A p \in Proc : WF_vars(Work(p))

-----------------------------------------------------------------------------

(* Every variable stays in its set, and a staged file exists exactly while *)
(* its call is between mkstemp and os.replace.                             *)
TypeOK ==
    /\ upstream \in [Url -> Version]
    /\ disk \in [Inode -> Contents]
    /\ db_path \in Inode \cup {NoInode}
    /\ pc \in [Proc -> {"idle", "etag", "request", "build", "stage", "copy", "install",
                        "connect"}]
    /\ url \in [Proc -> Url]
    /\ etag \in [Proc -> Version \cup {NoEtag}]
    /\ body \in [Proc -> Contents]
    /\ staged \in [Proc -> Inode \cup {NoInode}]
    /\ conn \in [Proc -> Inode \cup {NoInode}]
    /\ since \in [Proc -> Version]
    /\ opened \in [Proc -> {"none", "undisturbed", "disturbed"}]
    /\ failures \in 0 .. MaxFailures
    /\ \A p \in Proc : Exists(staged[p]) <=> pc[p] \in {"copy", "install"}

(* The response that left a file without rows may have been of version v:  *)
(* that is all its ETag, or the lack of one, still tells.                  *)
Emptied(file, v) == file.version = NoRows /\ file.etag \in {NoEtag, v}

(* A stored ETag names the very version it is stored with: were it any     *)
(* later one, upstream would answer 304 and the file stay stale for good.  *)
(* The exception is an empty body's table, under an ETag already served:   *)
(* it lasts until the next publication, and is what LocalCopyIsCurrent is  *)
(* violated by.                                                            *)
EtagDescribesContent ==
    Exists(db_path) =>
        \E v \in 1 .. upstream[disk[db_path].url] :
            \/ disk[db_path].version = v /\ disk[db_path].etag \in {NoEtag, v}
            \/ Emptied(disk[db_path], v)

(* A file made of version v or of a later one, as far as it has rows. *)
AsNewAs(file, v) ==
    \/ file.version >= v
    \/ \E w \in Version : w >= v /\ Emptied(file, w)

Current(p) == disk[conn[p]].url = url[p] /\ AsNewAs(disk[conn[p]], since[p])

(* A call nobody installs over returns its own url's table, no older than  *)
(* what upstream served when the call began, whether it rebuilt or not, or *)
(* what an empty body made of such a table.                                *)
UndisturbedOpenIsCurrent ==
    \A p \in Proc : pc[p] = "idle" /\ opened[p] = "undisturbed" => Current(p)

(* The table in an inode, as a caller of the database sees it. *)
Table(i) ==
    IF Exists(i)
    THEN IF disk[i].state = "whole"
         THEN [url |-> disk[i].url, version |-> disk[i].version]
         ELSE [url |-> "corrupt", version |-> 0]
    ELSE [url |-> "none", version |-> 0]

Snapshot == INSTANCE RelationsSnapshot
    WITH database <- Table(db_path), view <- [p \in Proc |-> Table(conn[p])]

(* The file is replaced as a unit by whole published tables, or by one     *)
(* without rows, and an open connection keeps the table it was opened on,  *)
(* whatever is installed, fails or dies meanwhile.                         *)
ImplementsSnapshot == Snapshot!Spec

(* If upstream stops publishing, a refresh installed late by a slow        *)
(* process is overtaken: eventually the file holds for good what upstream  *)
(* serves, or, without rows, the ETag of it.                               *)
EventuallyCurrent ==
    <>[](/\ Exists(db_path)
         /\ LET file == disk[db_path] IN
            \/ file.version = upstream[file.url]
            \/ file.version = NoRows /\ file.etag = upstream[file.url])

(* What db.py says it does, "keeping a local copy of the database current  *)
(* with upstream": a body cut before its first byte is built and installed *)
(* under the whole table's ETag, and every later request answered 304.     *)
LocalCopyIsCurrent ==
    <>[](Exists(db_path) /\ disk[db_path].version = upstream[disk[db_path].url])
=============================================================================
