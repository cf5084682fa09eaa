-------------------------- MODULE ParselmouthDbProofs --------------------------
(***************************************************************************)
(* What ParselmouthDb guarantees for any number of processes, files, urls  *)
(* and publications: its invariants, and that it implements                *)
(* RelationsSnapshot.                                                      *)
(***************************************************************************)
EXTENDS ParselmouthDb, TLAPS

(* A table is one that upstream has published, under its own ETag or none, *)
(* or what an empty body left of one.                                      *)
Published(table) ==
    \/ table = Blank
    \/ \E v \in 1 .. upstream[table.url] :
        \/ table.version = v /\ table.etag \in {NoEtag, v}
        \/ Emptied(table, v)

PublishedInv ==
    /\ \A i \in Inode : Published(disk[i])
    /\ \A p \in Proc : Published(body[p]) /\ since[p] <= upstream[url[p]]

(* A staged file has one owner, and nobody else can see it. *)
OwnerInv ==
    \A p \in Proc : Exists(staged[p]) =>
        /\ staged[p] # db_path
        /\ \A q \in Proc : staged[p] # conn[q] /\ (q # p => staged[p] # staged[q])

(* What a call builds is its own url's table, no older than the call, as   *)
(* far as it has rows; once built it is whole, and once copied it is what  *)
(* the staged file holds.                                                  *)
BuildInv ==
    \A p \in Proc :
        /\ pc[p] \in {"build", "stage", "copy", "install"} =>
            /\ body[p].state # "blank"
            /\ body[p].url = url[p]
            /\ AsNewAs(body[p], since[p])
        /\ pc[p] \in {"stage", "copy", "install"} => body[p].state = "whole"
        /\ pc[p] = "install" => disk[staged[p]] = body[p]

(* The name denotes a completed file as soon as anybody has seen an ETag   *)
(* or is about to connect, and a connection stays on a completed file.     *)
NameInv ==
    /\ Exists(db_path) => disk[db_path].state = "whole"
    /\ \A p \in Proc :
        /\ etag[p] # NoEtag \/ pc[p] = "connect" => Exists(db_path)
        /\ Exists(conn[p]) => disk[conn[p]].state = "whole"

(* What an undisturbed call knows of the file: before the request, that it *)
(* is what the ETag says or was left empty under it; after it, that it is  *)
(* current.                                                                *)
FreshInv ==
    \A p \in Proc : opened[p] = "undisturbed" =>
        /\ pc[p] = "request" /\ etag[p] # NoEtag =>
            /\ disk[db_path].url = url[p]
            /\ disk[db_path].version = etag[p] \/ Emptied(disk[db_path], etag[p])
        /\ pc[p] = "connect" =>
            disk[db_path].url = url[p] /\ AsNewAs(disk[db_path], since[p])
        /\ pc[p] = "idle" => Exists(conn[p]) /\ Current(p)

IInv == TypeOK /\ PublishedInv /\ OwnerInv /\ BuildInv /\ NameInv /\ FreshInv

-----------------------------------------------------------------------------
(* The values the actions write.                                           *)
LEMMA Values ==
    ASSUME TypeOK
    PROVE  /\ Blank \in Contents
           /\ \A c \in Contents : c.state # "blank" =>
                [c EXCEPT !.state = "partial"] \in Contents /\ [c EXCEPT !.version = NoRows] \in Contents
           /\ \A p \in Proc : upstream[url[p]] \in Version
<1>1. Blank \in Contents
  BY DEF Contents
<1>2. ASSUME NEW c \in Contents, c.state # "blank"
      PROVE  /\ [c EXCEPT !.state = "partial"] \in Contents
             /\ [c EXCEPT !.version = NoRows] \in Contents
  BY <1>2 DEF Contents, Blank
<1> QED
  BY <1>1, <1>2 DEF TypeOK

(* Rewriting the unreferenced inodes as blank ones keeps the disk typed. *)
LEMMA KeptTyped ==
    ASSUME TypeOK, NEW contents \in [Inode -> Contents], KeepReferenced(contents)
    PROVE  disk' \in [Inode -> Contents]
<1>1. Blank \in Contents
  BY DEF Contents
<1> QED
  BY <1>1 DEF KeepReferenced

LEMMA TypeStep ==
    ASSUME TypeOK, BuildInv, [Next]_vars
    PROVE  TypeOK'
<1> USE InodeAssumption DEF Exists, Goto
<1>v. /\ Blank \in Contents /\ disk \in [Inode -> Contents]
      /\ \A p \in Proc : upstream[url[p]] \in Version
  BY Values DEF TypeOK
<1>1. ASSUME NEW u \in Url, Publish(u) PROVE TypeOK'
  <2>1. upstream[u] + 1 \in Version
    BY <1>1, BoundAssumption DEF Publish, TypeOK, Version
  <2> QED
    BY <1>1, <2>1 DEF Publish, TypeOK
<1>2. ASSUME NEW p \in Proc, NEW u \in Url, Call(p, u) PROVE TypeOK'
  <2>1. disk' \in [Inode -> Contents]
    BY <1>2, <1>v, KeptTyped DEF Call
  <2> QED
    BY <1>2, <2>1 DEF Call, TypeOK
<1>3. ASSUME NEW p \in Proc, ReadEtag(p) PROVE TypeOK'
  <2>1. StoredEtag(p) \in Version \cup {NoEtag}
    <3>1. CASE db_path # NoInode /\ disk[db_path].url = url[p]
      <4>1. disk[db_path] \in Contents
        BY <3>1 DEF TypeOK
      <4> QED
        BY <4>1, <3>1 DEF StoredEtag, Contents, Blank
    <3>2. CASE ~(db_path # NoInode /\ disk[db_path].url = url[p])
      BY <3>2 DEF StoredEtag
    <3> QED
      BY <3>1, <3>2
  <2> QED
    BY <1>3, <2>1 DEF ReadEtag, TypeOK
<1>4. ASSUME NEW p \in Proc, NotModified(p) \/ Build(p) PROVE TypeOK'
  BY <1>4 DEF NotModified, Build, TypeOK
<1>5. ASSUME NEW p \in Proc, Modified(p) PROVE TypeOK'
  <2>1. PICK tag \in {NoEtag, upstream[url[p]]} :
            body' = [body EXCEPT ![p] = [state |-> "whole", url |-> url[p],
                                         version |-> upstream[url[p]], etag |-> tag]]
    BY <1>5 DEF Modified
  <2>2. [state |-> "whole", url |-> url[p], version |-> upstream[url[p]], etag |-> tag]
            \in Contents
    BY <1>v DEF Contents, TypeOK
  <2>3. body' \in [Proc -> Contents]
    BY <2>1, <2>2 DEF TypeOK
  <2> QED
    BY <1>5, <2>3 DEF Modified, TypeOK
<1>6. ASSUME NEW p \in Proc, Truncate(p) PROVE TypeOK'
  <2>1. /\ [body[p] EXCEPT !.state = "partial"] \in Contents
        /\ [body[p] EXCEPT !.version = NoRows] \in Contents
    BY <1>6, Values DEF Truncate, TypeOK
  <2>2. body' \in [Proc -> Contents] /\ failures' \in 0 .. MaxFailures
    BY <1>6, <2>1, BoundAssumption DEF Truncate, TypeOK
  <2> QED
    BY <1>6, <2>2 DEF Truncate, TypeOK
<1>7. ASSUME NEW p \in Proc, Leave(p), failures' \in 0 .. MaxFailures PROVE TypeOK'
  <2>1. disk' \in [Inode -> Contents]
    BY <1>7, <1>v, KeptTyped DEF Leave
  <2> QED
    BY <1>7, <1>v, <2>1 DEF Leave, TypeOK
<1>8. ASSUME NEW p \in Proc, Stage(p) PROVE TypeOK'
  <2>1. PICK i \in Inode :
            /\ staged' = [staged EXCEPT ![p] = i]
            /\ KeepReferenced([disk EXCEPT ![i] = [body[p] EXCEPT !.state = "partial"]])
    BY <1>8 DEF Stage
  <2>2. [body[p] EXCEPT !.state = "partial"] \in Contents
    BY <1>8, Values DEF Stage, TypeOK, BuildInv
  <2>3. disk' \in [Inode -> Contents]
    BY <1>v, <2>1, <2>2, KeptTyped
  <2>4. /\ pc' = [pc EXCEPT ![p] = "copy"]
        /\ UNCHANGED <<upstream, db_path, url, etag, body, conn, since, opened, failures>>
    BY <1>8 DEF Stage
  <2> QED
    BY <2>1, <2>3, <2>4 DEF TypeOK
<1>9. ASSUME NEW p \in Proc, CopyDone(p) PROVE TypeOK'
  <2>1. disk' \in [Inode -> Contents]
    BY <1>9 DEF CopyDone, TypeOK
  <2> QED
    BY <1>9, <2>1 DEF CopyDone, TypeOK
<1>10. ASSUME NEW p \in Proc, Install(p) PROVE TypeOK'
  <2>1. disk' \in [Inode -> Contents]
    BY <1>10, <1>v, KeptTyped DEF Install
  <2>2. Disturbed(p) \in [Proc -> {"none", "undisturbed", "disturbed"}]
    BY DEF Disturbed, TypeOK
  <2> QED
    BY <1>10, <2>1, <2>2 DEF Install, TypeOK
<1>11. ASSUME NEW p \in Proc, Connect(p) PROVE TypeOK'
  <2>1. disk' \in [Inode -> Contents]
    BY <1>11, <1>v, KeptTyped DEF Connect
  <2> QED
    BY <1>11, <1>v, <2>1 DEF Connect, TypeOK
<1>12. CASE UNCHANGED vars
  BY <1>12 DEF vars, TypeOK
<1> QED
  <2>1. ASSUME NEW p \in Proc, BuildRejects(p) \/ Fails(p) PROVE TypeOK'
    BY <2>1, <1>7, BoundAssumption DEF BuildRejects, Fails, TypeOK
  <2> QED
    BY <2>1, <1>1, <1>2, <1>3, <1>4, <1>5, <1>6, <1>8, <1>9, <1>10, <1>11, <1>12 DEF Next, Work

(* What a step leaves of the disk: a referenced inode's contents.          *)
LEMMA Kept ==
    ASSUME NEW contents, KeepReferenced(contents), NEW i \in Inode
    PROVE  /\ InUse(i)' => disk'[i] = contents[i]
           /\ disk'[i] \in {contents[i], Blank}
BY DEF KeepReferenced

(* Only the staged file of a call is ever written to. *)
LEMMA OnlyStagedWritten ==
    ASSUME TypeOK, OwnerInv, [Next]_vars, NEW i \in Inode, InUse(i), InUse(i)',
           \A p \in Proc : staged[p] # i
    PROVE  disk'[i] = disk[i]
<1> USE DEF Exists
<1>1. ASSUME NEW p \in Proc, Stage(p) PROVE disk'[i] = disk[i]
  <2>1. PICK j \in Inode :
            /\ ~InUse(j)
            /\ KeepReferenced([disk EXCEPT ![j] = [body[p] EXCEPT !.state = "partial"]])
    BY <1>1 DEF Stage
  <2>2. i # j
    BY <2>1
  <2>3. disk'[i] = [disk EXCEPT ![j] = [body[p] EXCEPT !.state = "partial"]][i]
    BY <2>1, Kept
  <2> QED
    BY <2>2, <2>3 DEF TypeOK
<1>2. ASSUME NEW p \in Proc, CopyDone(p) PROVE disk'[i] = disk[i]
  BY <1>2 DEF CopyDone, TypeOK
<1>3. ASSUME KeepReferenced(disk) PROVE disk'[i] = disk[i]
  BY <1>3, Kept
<1>4. CASE UNCHANGED disk
  BY <1>4
<1> QED
  BY <1>1, <1>2, <1>3, <1>4
     DEF Next, Work, Publish, Call, ReadEtag, NotModified, Modified, Truncate, Build,
         BuildRejects, Install, Connect, Fails, Leave, vars

LEMMA PublishedStep ==
    ASSUME TypeOK, PublishedInv, BuildInv, [Next]_vars
    PROVE  PublishedInv'
<1> USE DEF Goto
<1>u. \A u \in Url : upstream[u] \in Int /\ upstream'[u] \in Int /\ upstream[u] <= upstream'[u]
  <2>1. ASSUME NEW u \in Url, Publish(u)
        PROVE  \A w \in Url : upstream[w] \in Int /\ upstream'[w] \in Int
                              /\ upstream[w] <= upstream'[w]
    BY <2>1 DEF Publish, TypeOK, Version
  <2>2. CASE UNCHANGED upstream
    BY <2>2 DEF TypeOK, Version
  <2> QED
    BY <2>1, <2>2 DEF Next, Work, Call, ReadEtag, NotModified, Modified, Truncate, Build,
         BuildRejects, Stage, CopyDone, Install, Connect, Fails, Leave, vars
<1>p. ASSUME NEW c \in Contents, Published(c) PROVE Published(c)'
  <2>1. CASE c = Blank
    BY <2>1 DEF Published
  <2>2. CASE c # Blank
    <3>1. c.url \in Url
      BY <2>2 DEF Contents
    <3>2. 1 .. upstream[c.url] \subseteq 1 .. upstream'[c.url]
      BY <1>u, <3>1
    <3> QED
      BY <1>p, <2>2, <3>2 DEF Published, Emptied
  <2> QED
    BY <2>1, <2>2
<1>b. Published(Blank)'
  BY DEF Published
<1>d. ASSUME NEW contents \in [Inode -> Contents], KeepReferenced(contents),
             \A i \in Inode : Published(contents[i])
      PROVE  \A i \in Inode : Published(disk[i])'
  <2> TAKE i \in Inode
  <2>1. disk'[i] \in {contents[i], Blank}
    BY <1>d, Kept
  <2>2. Published(contents[i])'
    BY <1>d, <1>p
  <2> QED
    BY <1>b, <2>1, <2>2 DEF Published
<1>1. \A i \in Inode : Published(disk[i])'
  <2>1. ASSUME KeepReferenced(disk) PROVE \A i \in Inode : Published(disk[i])'
    BY <1>d, <2>1 DEF PublishedInv, TypeOK
  <2>2. ASSUME UNCHANGED disk PROVE \A i \in Inode : Published(disk[i])'
    BY <1>p, <2>2 DEF PublishedInv, TypeOK, Published
  <2>3. ASSUME NEW p \in Proc, Stage(p) PROVE \A i \in Inode : Published(disk[i])'
    <3> DEFINE c == [body[p] EXCEPT !.state = "partial"]
    <3>1. PICK j \in Inode : KeepReferenced([disk EXCEPT ![j] = c])
      BY <2>3 DEF Stage
    <3>2. body[p] \in Contents /\ body[p].state # "blank" /\ Published(body[p])
      BY <2>3 DEF Stage, TypeOK, BuildInv, PublishedInv
    <3>3. c \in Contents /\ Published(c)
      BY <3>2 DEF Contents, Blank, Published, Emptied
    <3>4. [disk EXCEPT ![j] = c] \in [Inode -> Contents]
      BY <3>3 DEF TypeOK
    <3>5. \A i \in Inode : Published([disk EXCEPT ![j] = c][i])
      BY <3>3 DEF TypeOK, PublishedInv
    <3> HIDE DEF c
    <3> QED
      BY <1>d, <3>1, <3>4, <3>5
  <2>4. ASSUME NEW p \in Proc, CopyDone(p) PROVE \A i \in Inode : Published(disk[i])'
    <3>1. \A i \in Inode : disk'[i] \in {disk[i], body[p]}
      BY <2>4 DEF CopyDone, TypeOK
    <3>3. \A i \in Inode : disk[i] \in Contents /\ Published(disk[i])
      BY DEF TypeOK, PublishedInv
    <3>4. body[p] \in Contents /\ Published(body[p])
      BY DEF TypeOK, PublishedInv
    <3> QED
      BY <1>p, <3>1, <3>3, <3>4 DEF Published
  <2> QED
    BY <2>1, <2>2, <2>3, <2>4
       DEF Next, Work, Publish, Call, ReadEtag, NotModified, Modified, Truncate, Build,
           BuildRejects, Install, Connect, Fails, Leave, vars
<1>2. \A p \in Proc : Published(body[p])'
  <2> SUFFICES ASSUME NEW q \in Proc PROVE Published(body[q])'
    OBVIOUS
  <2>1. CASE body'[q] = body[q]
    BY <1>p, <2>1 DEF TypeOK, PublishedInv, Published
  <2>2. CASE body'[q] = Blank
    BY <2>2 DEF Published
  <2>3. ASSUME NEW p \in Proc, Modified(p) PROVE Published(body[q])'
    <3>1. upstream[url[p]] \in Int /\ upstream' = upstream
      BY <2>3 DEF Modified, TypeOK, Version
    <3>2. PICK tag \in {NoEtag, upstream[url[p]]} :
              body' = [body EXCEPT ![p] = [state |-> "whole", url |-> url[p],
                                           version |-> upstream[url[p]], etag |-> tag]]
      BY <2>3 DEF Modified
    <3>3. CASE q # p
      BY <2>1, <3>2, <3>3 DEF TypeOK
    <3>4. CASE q = p
      <4>1. /\ body'[q].url = url[p] /\ body'[q].etag \in {NoEtag, upstream[url[p]]}
            /\ body'[q].version = upstream[url[p]]
        BY <3>2, <3>4 DEF TypeOK
      <4>2. upstream[url[p]] \in 1 .. upstream'[url[p]]
        BY <3>1 DEF TypeOK, Version
      <4> QED
        BY <4>1, <4>2 DEF Published
    <3> QED
      BY <3>3, <3>4
  <2>4. ASSUME NEW p \in Proc, Truncate(p) PROVE Published(body[q])'
    <3>1. body[p] \in Contents /\ body[p].state # "blank" /\ Published(body[p])
      BY <2>4 DEF Truncate, TypeOK, PublishedInv
    <3>2. PICK c \in Contents :
            /\ c \in {[body[p] EXCEPT !.state = "partial"], [body[p] EXCEPT !.version = NoRows]}
            /\ Published(c)
            /\ body' = [body EXCEPT ![p] = c]
      <4>1. /\ [body[p] EXCEPT !.state = "partial"] \in Contents
            /\ Published([body[p] EXCEPT !.state = "partial"])
        BY <3>1 DEF Contents, Blank, Published, Emptied
      <4>2. /\ [body[p] EXCEPT !.version = NoRows] \in Contents
            /\ Published([body[p] EXCEPT !.version = NoRows])
        BY <3>1 DEF Contents, Blank, Published, Emptied
      <4>3. CASE body' = [body EXCEPT ![p].state = "partial"]
        BY <4>1, <4>3, Zenon
      <4>4. CASE body' = [body EXCEPT ![p].version = NoRows]
        BY <4>2, <4>4, Zenon
      <4> QED
        BY <2>4, <4>3, <4>4 DEF Truncate
    <3>3. body' = [body EXCEPT ![p] = c]
      BY <3>2
    <3>4. Published(c)'
      BY <1>p, <3>2
    <3> QED
      BY <2>1, <3>3, <3>4 DEF TypeOK, Published
  <2> QED
    BY <2>1, <2>2, <2>3, <2>4
       DEF Next, Work, Publish, Call, ReadEtag, NotModified, Build, BuildRejects, Stage,
           CopyDone, Install, Connect, Fails, Leave, vars, TypeOK
<1>3. \A p \in Proc : since'[p] <= upstream'[url'[p]]
  <2> SUFFICES ASSUME NEW q \in Proc PROVE since'[q] <= upstream'[url'[q]]
    OBVIOUS
  <2>1. CASE since'[q] = since[q] /\ url'[q] = url[q]
    <3>1. since[q] \in Int /\ url[q] \in Url /\ since[q] <= upstream[url[q]]
      BY DEF TypeOK, Version, PublishedInv
    <3> QED
      BY <1>u, <2>1, <3>1
  <2>2. ASSUME NEW p \in Proc, NEW u \in Url, Call(p, u)
        PROVE  since'[q] <= upstream'[url'[q]]
    BY <1>u, <2>1, <2>2 DEF Call, TypeOK
  <2> QED
    BY <2>1, <2>2
       DEF Next, Work, Publish, ReadEtag, NotModified, Modified, Truncate, Build,
           BuildRejects, Stage, CopyDone, Install, Connect, Fails, Leave, vars
<1> QED
  BY <1>1, <1>2, <1>3 DEF PublishedInv

LEMMA OwnerStep ==
    ASSUME TypeOK, OwnerInv, [Next]_vars
    PROVE  OwnerInv'
<1> USE InodeAssumption DEF OwnerInv, Exists, Goto
<1>1. ASSUME NEW p \in Proc, Stage(p) PROVE OwnerInv'
  <2>1. PICK i \in Inode : ~InUse(i) /\ staged' = [staged EXCEPT ![p] = i]
    BY <1>1 DEF Stage
  <2>2. i # db_path /\ \A q \in Proc : staged[q] # i /\ conn[q] # i
    BY <2>1 DEF InUse
  <2> QED
    BY <1>1, <2>1, <2>2 DEF Stage, TypeOK
<1>2. ASSUME NEW p \in Proc, Install(p) PROVE OwnerInv'
  BY <1>2 DEF Install, TypeOK
<1>3. ASSUME NEW p \in Proc, Connect(p) PROVE OwnerInv'
  BY <1>3 DEF Connect, TypeOK
<1>4. ASSUME NEW p \in Proc, NEW u \in Url, Call(p, u) PROVE OwnerInv'
  BY <1>4 DEF Call, TypeOK
<1>5. ASSUME NEW p \in Proc, Leave(p) PROVE OwnerInv'
  BY <1>5 DEF Leave, TypeOK
<1>6. CASE UNCHANGED <<staged, db_path, conn>>
  BY <1>6
<1> QED
  BY <1>1, <1>2, <1>3, <1>4, <1>5, <1>6
     DEF Next, Work, Publish, ReadEtag, NotModified, Modified, Truncate, Build,
         BuildRejects, CopyDone, Fails, vars

LEMMA BuildStep ==
    ASSUME TypeOK, PublishedInv, OwnerInv, BuildInv, [Next]_vars
    PROVE  BuildInv'
<1> USE InodeAssumption DEF Exists, Goto
<1> DEFINE Built(p) ==
        /\ pc[p] \in {"build", "stage", "copy", "install"} =>
            /\ body[p].state # "blank"
            /\ body[p].url = url[p]
            /\ AsNewAs(body[p], since[p])
        /\ pc[p] \in {"stage", "copy", "install"} => body[p].state = "whole"
        /\ pc[p] = "install" => disk[staged[p]] = body[p]
<1>1. \A p \in Proc : Built(p)
  BY DEF BuildInv
<1>2. ASSUME NEW q \in Proc, UNCHANGED <<pc[q], body[q], url[q], since[q], staged[q]>>
      PROVE  Built(q)'
  <2>1. CASE pc[q] # "install"
    BY <1>1, <1>2, <2>1
  <2>2. CASE pc[q] = "install"
    <3> PICK i \in Inode : i = staged[q]
      BY <2>2 DEF TypeOK
    <3>1. i = staged'[q] /\ InUse(i) /\ InUse(i)'
      BY <1>2, <2>2 DEF InUse
    <3>2. disk'[i] = disk[i]
      <4>1. ASSUME NEW p \in Proc, Stage(p) PROVE disk'[i] = disk[i]
        <5>1. PICK j \in Inode :
                  /\ ~InUse(j)
                  /\ KeepReferenced([disk EXCEPT ![j] = [body[p] EXCEPT !.state = "partial"]])
          BY <4>1 DEF Stage
        <5>2. i # j
          BY <3>1, <5>1
        <5>3. disk'[i]
                = [disk EXCEPT ![j] = [body[p] EXCEPT !.state = "partial"]][i]
          BY <3>1, <5>1, Kept
        <5> QED
          BY <3>1, <5>2, <5>3 DEF TypeOK
      <4>2. ASSUME NEW p \in Proc, CopyDone(p) PROVE disk'[i] = disk[i]
        <5>1. p # q
          BY <1>2, <2>2, <4>2 DEF CopyDone
        <5>2. staged[p] # i
          BY <3>1, <5>1 DEF OwnerInv
        <5> QED
          BY <3>1, <4>2, <5>2 DEF CopyDone, TypeOK
      <4>3. ASSUME KeepReferenced(disk) PROVE disk'[i] = disk[i]
        BY <3>1, <4>3, Kept
      <4>4. CASE UNCHANGED disk
        BY <4>4
      <4> QED
        BY <4>1, <4>2, <4>3, <4>4
           DEF Next, Work, Publish, Call, ReadEtag, NotModified, Modified, Truncate, Build,
               BuildRejects, Install, Connect, Fails, Leave, vars
    <3> QED
      BY <1>1, <1>2, <2>2, <3>1, <3>2
  <2> QED
    BY <2>1, <2>2
<1>3. ASSUME NEW p \in Proc, Modified(p) PROVE Built(p)'
  <2>1. /\ pc'[p] = "build" /\ UNCHANGED <<url, since>>
        /\ body'[p].state = "whole" /\ body'[p].url = url[p]
        /\ body'[p].version = upstream[url[p]]
    BY <1>3 DEF Modified, TypeOK
  <2>2. upstream[url[p]] >= since[p]
    BY DEF PublishedInv, TypeOK, Version
  <2> QED
    BY <2>1, <2>2 DEF AsNewAs
<1>4. ASSUME NEW p \in Proc, Truncate(p) \/ Build(p) PROVE Built(p)'
  <2>1. CASE Build(p)
    BY <1>1, <2>1 DEF Build, TypeOK, AsNewAs, Emptied
  <2>2. CASE Truncate(p)
    <3>1. /\ pc[p] = "build" /\ pc' = pc /\ UNCHANGED <<url, since>>
          /\ body[p] \in Contents /\ body[p].url = url[p]
          /\ body[p].state = "whole" /\ body[p].version # NoRows
          /\ AsNewAs(body[p], since[p]) /\ Published(body[p])
      BY <1>1, <2>2 DEF Truncate, TypeOK, PublishedInv
    <3>2. /\ body[p].version \in Version /\ body[p].version >= since[p]
          /\ body[p].etag \in {NoEtag, body[p].version}
      BY <3>1 DEF Contents, Blank, Published, AsNewAs, Emptied
    <3>3. /\ body'[p].state # "blank" /\ body'[p].url = url[p]
          /\ body'[p].etag = body[p].etag
          /\ body'[p].version \in {body[p].version, NoRows}
      BY <2>2, <3>1 DEF Truncate, TypeOK, Contents, Blank
    <3>4. AsNewAs(body'[p], since[p])
      BY <3>2, <3>3 DEF AsNewAs, Emptied
    <3> QED
      BY <3>1, <3>3, <3>4 DEF AsNewAs, Emptied
  <2> QED
    BY <1>4, <2>1, <2>2
<1>5. ASSUME NEW p \in Proc, Stage(p) PROVE Built(p)'
  BY <1>1, <1>5 DEF Stage, TypeOK
<1>6. ASSUME NEW p \in Proc, CopyDone(p) PROVE Built(p)'
  BY <1>1, <1>6 DEF CopyDone, TypeOK
<1>7. ASSUME NEW p \in Proc, pc'[p] \in {"idle", "etag", "request", "connect"} PROVE Built(p)'
  BY <1>7
<1>8. ASSUME NEW p \in Proc, Work(p) \/ Truncate(p) \/ Fails(p) PROVE Built(p)'
  <2>1. \/ Modified(p) \/ Truncate(p) \/ Build(p) \/ Stage(p) \/ CopyDone(p)
        \/ pc'[p] \in {"idle", "etag", "request", "connect"}
    BY <1>8 DEF Work, Call, ReadEtag, NotModified, BuildRejects, Install, Connect, Fails,
                Leave, TypeOK
  <2> QED
    BY <1>3, <1>4, <1>5, <1>6, <1>7, <2>1
<1>9. ASSUME NEW p \in Proc, Work(p) \/ Truncate(p) \/ Fails(p), NEW q \in Proc \ {p}
      PROVE  UNCHANGED <<pc[q], body[q], url[q], since[q], staged[q]>>
  BY <1>9 DEF Work, Call, ReadEtag, NotModified, Modified, Truncate, Build, BuildRejects,
              Stage, CopyDone, Install, Connect, Fails, Leave, TypeOK
<1>10. ASSUME UNCHANGED <<pc, body, url, since, staged>> PROVE \A q \in Proc : Built(q)'
  BY <1>2, <1>10
<1>11. \A q \in Proc : Built(q)'
  <2>1. ASSUME NEW p \in Proc, Work(p) \/ Truncate(p) \/ Fails(p), NEW q \in Proc
        PROVE  Built(q)'
    BY <1>2, <1>8, <1>9, <2>1
  <2> QED
    BY <1>10, <2>1 DEF Next, Publish, vars
<1> QED
  BY <1>11 DEF BuildInv

(* A step moves the name only to a staged file, and changes nothing of a   *)
(* file that the name or a connection denotes before and after it.         *)
LEMMA NamedUnchanged ==
    ASSUME TypeOK, OwnerInv, [Next]_vars, NEW i \in Inode,
           i = db_path \/ \E q \in Proc : i = conn[q],
           i = db_path' \/ \E q \in Proc : i = conn'[q]
    PROVE  disk'[i] = disk[i]
<1>1. \A p \in Proc : staged[p] # i
  BY InodeAssumption DEF OwnerInv, Exists
<1> QED
  BY <1>1, OnlyStagedWritten DEF InUse

LEMMA NameStep ==
    ASSUME TypeOK, OwnerInv, BuildInv, NameInv, [Next]_vars
    PROVE  NameInv'
<1> USE InodeAssumption DEF Exists, Goto
<1>i. ASSUME NEW p \in Proc, Install(p)
      PROVE  /\ db_path' = staged[p] /\ staged[p] \in Inode
             /\ disk'[db_path'] = body[p] /\ body[p].state = "whole"
             /\ UNCHANGED <<etag, conn>>
  <2>1. PICK i \in Inode : i = staged[p]
    BY <1>i DEF Install, TypeOK
  <2>2. i = db_path' /\ InUse(i)' /\ KeepReferenced(disk)
    BY <1>i, <2>1 DEF Install, InUse
  <2>3. disk'[i] = disk[i]
    BY <2>2, Kept
  <2> QED
    BY <1>i, <2>1, <2>2, <2>3 DEF Install, BuildInv
<1>1. Exists(db_path)' => disk'[db_path'].state = "whole"
  <2>1. CASE db_path' = db_path
    <3> SUFFICES ASSUME db_path # NoInode PROVE disk'[db_path'].state = "whole"
      BY <2>1
    <3>1. PICK i \in Inode : i = db_path
      BY DEF TypeOK
    <3>2. disk'[i] = disk[i]
      BY <2>1, <3>1, NamedUnchanged
    <3> QED
      BY <2>1, <3>1, <3>2 DEF NameInv
  <2> QED
    BY <1>i, <2>1
       DEF Next, Work, Publish, Call, ReadEtag, NotModified, Modified, Truncate, Build,
           BuildRejects, Stage, CopyDone, Connect, Fails, Leave, vars
<1>2. Exists(db_path) => Exists(db_path)'
  BY <1>i
     DEF Next, Work, Publish, Call, ReadEtag, NotModified, Modified, Truncate, Build,
         BuildRejects, Stage, CopyDone, Connect, Fails, Leave, vars
<1>3. \A p \in Proc : etag'[p] # NoEtag \/ pc'[p] = "connect" => Exists(db_path)'
  <2> SUFFICES ASSUME NEW q \in Proc, etag'[q] # NoEtag \/ pc'[q] = "connect"
               PROVE  Exists(db_path)'
    OBVIOUS
  <2>1. CASE etag[q] # NoEtag \/ pc[q] = "connect"
    BY <1>2, <2>1 DEF NameInv
  <2>2. ASSUME NEW p \in Proc, ReadEtag(p) PROVE Exists(db_path)'
    BY <2>1, <2>2 DEF ReadEtag, StoredEtag, TypeOK
  <2>3. ASSUME NEW p \in Proc, NotModified(p) PROVE Exists(db_path)'
    <3>1. etag[p] # NoEtag
      BY <2>3 DEF NotModified, TypeOK, Version, NoEtag
    <3> QED
      BY <1>2, <3>1 DEF NameInv
  <2>4. ASSUME NEW p \in Proc, Install(p) PROVE Exists(db_path)'
    BY <1>i, <2>4
  <2> QED
    BY <2>1, <2>2, <2>3, <2>4
       DEF Next, Work, Publish, Call, Modified, Truncate, Build, BuildRejects, Stage,
           CopyDone, Connect, Fails, Leave, vars, TypeOK
<1>4. \A p \in Proc : Exists(conn'[p]) => disk'[conn'[p]].state = "whole"
  <2> SUFFICES ASSUME NEW q \in Proc, conn'[q] # NoInode
               PROVE  disk'[conn'[q]].state = "whole"
    OBVIOUS
  <2>1. conn'[q] \in {conn[q], db_path, NoInode}
    BY DEF Next, Work, Publish, Call, ReadEtag, NotModified, Modified, Truncate, Build,
         BuildRejects, Stage, CopyDone, Install, Connect, Fails, Leave, vars, TypeOK
  <2>2. PICK i \in Inode : i = conn'[q]
    BY <2>1 DEF TypeOK
  <2>3. disk[i].state = "whole"
    BY <2>1, <2>2 DEF NameInv
  <2>4. disk'[i] = disk[i]
    BY <2>1, <2>2, NamedUnchanged
  <2> QED
    BY <2>2, <2>3, <2>4
<1> QED
  BY <1>1, <1>3, <1>4 DEF NameInv

LEMMA FreshStep ==
    ASSUME IInv, [Next]_vars
    PROVE  FreshInv'
<1> USE InodeAssumption DEF Exists, Goto, IInv
<1> DEFINE Fresh(p) ==
        opened[p] = "undisturbed" =>
            /\ pc[p] = "request" /\ etag[p] # NoEtag =>
                /\ disk[db_path].url = url[p]
                /\ disk[db_path].version = etag[p] \/ Emptied(disk[db_path], etag[p])
            /\ pc[p] = "connect" =>
                disk[db_path].url = url[p] /\ AsNewAs(disk[db_path], since[p])
            /\ pc[p] = "idle" => Exists(conn[p]) /\ Current(p)
<1>s. \A p \in Proc : Fresh(p)
  BY DEF FreshInv
<1>1. ASSUME NEW q \in Proc, opened'[q] = "undisturbed",
             UNCHANGED <<pc[q], url[q], etag[q], conn[q], since[q], opened[q]>>
      PROVE  Fresh(q)'
  <2>1. CASE pc[q] = "idle"
    <3>1. PICK i \in Inode : i = conn[q]
      BY <1>1, <1>s, <2>1 DEF TypeOK
    <3>2. disk'[i] = disk[i]
      BY <1>1, <3>1, NamedUnchanged
    <3> QED
      BY <1>1, <1>s, <2>1, <3>1, <3>2 DEF Current
  <2>2. CASE (pc[q] = "request" /\ etag[q] # NoEtag) \/ pc[q] = "connect"
    <3>1. db_path' = db_path
      <4>1. ASSUME NEW p \in Proc, Install(p) PROVE FALSE
        <5>1. p # q
          BY <1>1, <2>2, <4>1 DEF Install
        <5> QED
          BY <1>1, <2>2, <4>1, <5>1 DEF Install, Disturbed
      <4> QED
        BY <4>1
           DEF Next, Work, Publish, Call, ReadEtag, NotModified, Modified, Truncate, Build,
               BuildRejects, Stage, CopyDone, Connect, Fails, Leave, vars
    <3>2. PICK i \in Inode : i = db_path
      BY <2>2 DEF NameInv, TypeOK
    <3>3. disk'[i] = disk[i]
      BY <3>1, <3>2, NamedUnchanged
    <3> QED
      BY <1>1, <1>s, <2>2, <3>1, <3>2, <3>3
  <2> QED
    BY <1>1, <2>1, <2>2
<1>2. ASSUME NEW p \in Proc, ReadEtag(p) PROVE Fresh(p)'
  <2> DEFINE says(tag) == disk[db_path].version = tag \/ Emptied(disk[db_path], tag)
  <2>1. StoredEtag(p) # NoEtag => disk[db_path].url = url[p] /\ says(StoredEtag(p))
    <3> SUFFICES ASSUME db_path # NoInode, disk[db_path].etag # NoEtag
                 PROVE  says(disk[db_path].etag)
      BY DEF StoredEtag
    <3> QED
      BY DEF TypeOK, PublishedInv, Published, Emptied, Blank
  <2> QED
    BY <1>2, <2>1 DEF ReadEtag, TypeOK, Emptied
<1>3. ASSUME NEW p \in Proc, NotModified(p) PROVE Fresh(p)'
  <2>1. since[p] <= etag[p] /\ etag[p] # NoEtag
    BY <1>3 DEF NotModified, PublishedInv, TypeOK, Version, NoEtag
  <2>2. opened[p] = "undisturbed" =>
            /\ disk[db_path].url = url[p]
            /\ disk[db_path].version = etag[p] \/ Emptied(disk[db_path], etag[p])
    BY <1>3, <1>s, <2>1 DEF NotModified
  <2>3. since[p] \in Int /\ etag[p] \in Version
    BY <2>1 DEF TypeOK, Version
  <2>4. opened[p] = "undisturbed" => AsNewAs(disk[db_path], since[p])
    BY <2>1, <2>2, <2>3 DEF AsNewAs
  <2> QED
    BY <1>3, <2>2, <2>4 DEF NotModified, TypeOK, AsNewAs, Emptied
<1>4. ASSUME NEW p \in Proc, Install(p) PROVE Fresh(p)'
  <2>1. PICK i \in Inode : i = staged[p]
    BY <1>4 DEF Install, TypeOK
  <2>2. i = db_path' /\ InUse(i)' /\ KeepReferenced(disk)
    BY <1>4, <2>1 DEF Install, InUse
  <2>3. disk'[i] = disk[i]
    BY <2>2, Kept
  <2>4. disk'[db_path'] = body[p] /\ body[p].url = url[p] /\ AsNewAs(body[p], since[p])
    BY <1>4, <2>1, <2>2, <2>3 DEF Install, BuildInv
  <2> QED
    BY <1>4, <2>4 DEF Install, TypeOK, AsNewAs, Emptied
<1>5. ASSUME NEW p \in Proc, Connect(p) PROVE Fresh(p)'
  <2>1. PICK i \in Inode : i = db_path
    BY <1>5 DEF Connect, NameInv, TypeOK
  <2>2. conn'[p] = i /\ db_path' = i
    BY <1>5, <2>1 DEF Connect, TypeOK
  <2>3. disk'[i] = disk[i]
    BY <2>1, <2>2, NamedUnchanged
  <2> QED
    BY <1>5, <1>s, <2>1, <2>2, <2>3 DEF Connect, Current, TypeOK, AsNewAs, Emptied
<1>6. ASSUME NEW p \in Proc,
             pc'[p] \notin {"request", "connect", "idle"} \/ opened'[p] # "undisturbed"
      PROVE  Fresh(p)'
  BY <1>6
<1>7. ASSUME NEW p \in Proc, Work(p) \/ Truncate(p) \/ Fails(p) PROVE Fresh(p)'
  <2>1. \/ ReadEtag(p) \/ NotModified(p) \/ Install(p) \/ Connect(p)
        \/ pc'[p] \notin {"request", "connect", "idle"} \/ opened'[p] # "undisturbed"
    BY <1>7 DEF Work, Call, Modified, Truncate, Build, BuildRejects, Stage, CopyDone,
                Fails, Leave, TypeOK
  <2> QED
    BY <1>2, <1>3, <1>4, <1>5, <1>6, <2>1
<1>8. ASSUME NEW p \in Proc, Work(p) \/ Truncate(p) \/ Fails(p), NEW q \in Proc \ {p},
             opened'[q] = "undisturbed"
      PROVE  UNCHANGED <<pc[q], url[q], etag[q], conn[q], since[q], opened[q]>>
  BY <1>8 DEF Work, Call, ReadEtag, NotModified, Modified, Truncate, Build, BuildRejects,
              Stage, CopyDone, Install, Disturbed, Connect, Fails, Leave, TypeOK
<1>9. \A q \in Proc : Fresh(q)'
  <2> SUFFICES ASSUME NEW q \in Proc, opened'[q] = "undisturbed" PROVE Fresh(q)'
    OBVIOUS
  <2>1. ASSUME NEW p \in Proc, Work(p) \/ Truncate(p) \/ Fails(p) PROVE Fresh(q)'
    BY <1>1, <1>7, <1>8, <2>1
  <2>2. CASE UNCHANGED <<pc, url, etag, conn, since, opened>>
    BY <1>1, <2>2
  <2> QED
    BY <2>1, <2>2 DEF Next, Publish, vars
<1> QED
  BY <1>9 DEF FreshInv

-----------------------------------------------------------------------------

(* How the files on disk, what each call has in hand and what upstream has *)
(* published belong together, through every install, failure and kill.     *)
THEOREM Inductive == Spec => []IInv
<1>1. Init => IInv
  <2> SUFFICES ASSUME Init PROVE IInv
    OBVIOUS
  <2>1. TypeOK
    BY InodeAssumption, BoundAssumption
       DEF Init, TypeOK, Version, Contents, Exists
  <2>2. PublishedInv
    BY DEF Init, PublishedInv, Published
  <2>3. OwnerInv /\ BuildInv /\ NameInv /\ FreshInv
    BY DEF Init, OwnerInv, BuildInv, NameInv, FreshInv, Exists, NoEtag
  <2> QED
    BY <2>1, <2>2, <2>3 DEF IInv
<1>2. IInv /\ [Next]_vars => IInv'
  BY TypeStep, PublishedStep, OwnerStep, BuildStep, NameStep, FreshStep DEF IInv
<1> QED
  BY <1>1, <1>2, PTL DEF Spec

(* Every variable stays in its set, and a staged file exists exactly while *)
(* its call is between mkstemp and os.replace.                             *)
THEOREM TypeCorrect == Spec => []TypeOK
<1>1. IInv => TypeOK
  BY DEF IInv
<1> QED
  BY <1>1, Inductive, PTL

(* No ETag is ever stored with rows of another version than it identifies, *)
(* so a 304 can leave the file stale only if an empty body left it without *)
(* any, and then not beyond the next publication.                          *)
THEOREM EtagsAreTrue == Spec => []EtagDescribesContent
<1>1. IInv => EtagDescribesContent
  BY DEF IInv, TypeOK, PublishedInv, Published, NameInv, EtagDescribesContent, Exists, Blank
<1> QED
  BY <1>1, Inductive, PTL

(* A call nobody installs over returns a table of its own url, at least as *)
(* recent as its own beginning, however many others fail or refresh, or    *)
(* one that an empty body left of such a table.                            *)
THEOREM UndisturbedOpens == Spec => []UndisturbedOpenIsCurrent
<1>1. IInv => UndisturbedOpenIsCurrent
  BY DEF IInv, FreshInv, UndisturbedOpenIsCurrent
<1> QED
  BY <1>1, Inductive, PTL

-----------------------------------------------------------------------------

(* The refinement of RelationsSnapshot.                                    *)

(* A table that is denoted before and after a step reads the same.         *)
LEMMA SameTable ==
    ASSUME IInv, [Next]_vars, NEW i \in Inode \cup {NoInode},
           i = db_path \/ \E q \in Proc : i = conn[q],
           i = db_path' \/ \E q \in Proc : i = conn'[q]
    PROVE  Table(i)' = Table(i)
<1>1. CASE i = NoInode
  BY <1>1 DEF Table, Exists
<1>2. CASE i \in Inode
  <2>1. disk'[i] = disk[i]
    BY <1>2, NamedUnchanged DEF IInv
  <2> QED
    BY <2>1 DEF Table, Exists
<1> QED
  BY <1>1, <1>2

LEMMA StepRefines ==
    ASSUME IInv, IInv', [Next]_vars
    PROVE  [Snapshot!Next]_(Snapshot!vars)
<1> USE DEF Goto, Exists
<1> DEFINE database == Table(db_path)
           view == [p \in Proc |-> Table(conn[p])]
<1>d. ASSUME db_path' = db_path PROVE database' = database
  <2>1. PICK i \in Inode \cup {NoInode} : i = db_path
    BY DEF IInv, TypeOK
  <2>2. Table(i)' = Table(i)
    BY <1>d, <2>1, SameTable
  <2> QED
    BY <1>d, <2>1, <2>2 DEF Table
<1>v. ASSUME NEW q \in Proc, conn'[q] = conn[q] PROVE Table(conn[q])' = Table(conn[q])
  <2>1. PICK i \in Inode \cup {NoInode} : i = conn[q]
    BY DEF IInv, TypeOK
  <2>2. Table(i)' = Table(i)
    BY <1>v, <2>1, SameTable
  <2> QED
    BY <1>v, <2>1, <2>2 DEF Table
<1>1. ASSUME NEW u \in Url, Publish(u) PROVE Snapshot!Next
  <2>1. database' = database /\ view' = view
    BY <1>1, <1>d, <1>v DEF Publish
  <2>2. Snapshot!Publish(u)
    BY <1>1, <2>1 DEF Publish, Snapshot!Publish
  <2> QED
    BY <2>2 DEF Snapshot!Next
<1>2. ASSUME NEW p \in Proc, NEW u \in Url, Call(p, u) PROVE Snapshot!Next
  <2>1. /\ upstream' = upstream /\ db_path' = db_path
        /\ conn' = [conn EXCEPT ![p] = NoInode]
    BY <1>2 DEF Call
  <2>2. database' = database
    BY <1>d, <2>1
  <2>3. \A q \in Proc :
            Table(conn[q])' = IF q = p THEN [url |-> "none", version |-> 0] ELSE Table(conn[q])
    <3> TAKE q \in Proc
    <3>1. CASE q = p
      BY <2>1, <3>1 DEF Table, IInv, TypeOK
    <3>2. CASE q # p
      BY <1>v, <2>1, <3>2 DEF IInv, TypeOK
    <3> QED
      BY <3>1, <3>2
  <2>4. view' = [view EXCEPT ![p] = Snapshot!NoTable]
    BY <2>3 DEF Snapshot!NoTable, Snapshot!NoRows
  <2>5. Snapshot!Close(p)
    BY <2>1, <2>2, <2>4 DEF Snapshot!Close
  <2> QED
    BY <2>5 DEF Snapshot!Next
<1>3. ASSUME NEW p \in Proc, Install(p) PROVE Snapshot!Next
  <2>1. PICK i \in Inode : i = staged[p]
    BY <1>3 DEF Install, IInv, TypeOK
  <2>2. i = db_path' /\ InUse(i)' /\ KeepReferenced(disk) /\ UNCHANGED <<upstream, conn>>
    BY <1>3, <2>1 DEF Install, InUse
  <2>3. disk'[i] = body[p]
    <3>1. disk'[i] = disk[i]
      BY <2>2, Kept
    <3> QED
      BY <1>3, <2>1, <3>1 DEF Install, IInv, BuildInv
  <2>4. /\ body[p].state = "whole" /\ body[p].url \in Url
        /\ body[p].version \in {Snapshot!NoRows} \cup 1 .. upstream[body[p].url]
    BY <1>3 DEF Install, IInv, TypeOK, BuildInv, PublishedInv, Published, Emptied, Contents,
                Blank, NoRows, Snapshot!NoRows
  <2>5. database' = [url |-> body[p].url, version |-> body[p].version]
    BY <2>1, <2>2, <2>3, <2>4, InodeAssumption DEF Table
  <2>6. view' = view
    BY <1>v, <2>2
  <2>7. Snapshot!Replace(body[p].url, body[p].version)
    BY <2>2, <2>5, <2>6 DEF Snapshot!Replace
  <2> QED
    BY <2>4, <2>7 DEF Snapshot!Next
<1>4. ASSUME NEW p \in Proc, Connect(p) PROVE Snapshot!Next
  <2>1. /\ upstream' = upstream /\ db_path' = db_path
        /\ conn' = [conn EXCEPT ![p] = db_path]
    BY <1>4 DEF Connect
  <2>2. database' = database
    BY <1>d, <2>1
  <2>3. database # Snapshot!NoTable
    <3>1. db_path \in Inode /\ disk[db_path].state = "whole"
      BY <1>4 DEF Connect, IInv, TypeOK, NameInv
    <3>2. disk[db_path].url \in Url
      BY <3>1 DEF IInv, TypeOK, Contents, Blank
    <3> QED
      BY <3>1, <3>2, InodeAssumption, UrlAssumption DEF Table, Snapshot!NoTable
  <2>4. \A q \in Proc :
            Table(conn[q])' = IF q = p THEN database ELSE Table(conn[q])
    <3> TAKE q \in Proc
    <3>1. CASE q = p
      <4>1. conn'[q] = db_path'
        BY <2>1, <3>1 DEF IInv, TypeOK
      <4>2. Table(conn[q])' = database'
        BY <4>1 DEF Table
      <4> QED
        BY <2>2, <3>1, <4>2
    <3>2. CASE q # p
      BY <1>v, <2>1, <3>2 DEF IInv, TypeOK
    <3> QED
      BY <3>1, <3>2
  <2>5. view' = [view EXCEPT ![p] = database]
    BY <2>4
  <2>6. Snapshot!Open(p)
    BY <2>1, <2>2, <2>3, <2>5 DEF Snapshot!Open
  <2> QED
    BY <2>6 DEF Snapshot!Next
<1>5. ASSUME UNCHANGED <<upstream, db_path, conn>> PROVE UNCHANGED Snapshot!vars
  <2>1. database' = database /\ view' = view
    BY <1>5, <1>d, <1>v
  <2> QED
    BY <1>5, <2>1 DEF Snapshot!vars
<1> QED
  BY <1>1, <1>2, <1>3, <1>4, <1>5
     DEF Next, Work, ReadEtag, NotModified, Modified, Truncate, Build, BuildRejects, Stage,
         CopyDone, Fails, Leave, vars

(* The file only ever goes from one whole table to another, published or   *)
(* without rows, and a connection keeps the table it was opened on: every  *)
(* step is one of the abstract specification's, or changes nothing it      *)
(* speaks of.                                                              *)
THEOREM Refinement == Spec => ImplementsSnapshot
<1>1. Init => Snapshot!Init
  BY DEF Init, Snapshot!Init, Snapshot!NoTable, Snapshot!NoRows, Table, Exists
<1>2. IInv /\ IInv' /\ [Next]_vars => [Snapshot!Next]_(Snapshot!vars)
  BY StepRefines
<1> QED
  BY <1>1, <1>2, Inductive, PTL DEF Spec, ImplementsSnapshot, Snapshot!Spec
=============================================================================
