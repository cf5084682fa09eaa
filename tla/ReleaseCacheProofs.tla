-------------------------- MODULE ReleaseCacheProofs --------------------------
(***************************************************************************)
(* What ReleaseCache guarantees for any number of processes, any cache age *)
(* and any length of the clock.                                            *)
(***************************************************************************)
EXTENDS ReleaseCache, TLAPS

(* The clock is never behind a call's start or a download's stamp, and a   *)
(* download's stamp is never before the call that made it.                 *)
ClockInv ==
    \A p \in Proc :
        /\ started[p] <= now
        /\ pc[p] \in {"request", "body", "install", "rescan"} =>
               started[p] <= stamp[p] /\ stamp[p] <= now

(* A file, staged or installed, is at least as recent as its own name, and *)
(* an installed one is complete.                                           *)
ContentInv ==
    /\ \A t \in Time : files[t].kind # "absent" =>
           files[t].kind \in Complete /\ files[t].asOf >= t
    /\ \A p \in Proc :
        /\ pc[p] \in {"request", "body", "install"} => staged[p].asOf >= stamp[p]
        /\ pc[p] = "install" => staged[p].kind \in Complete

(* What a refresher relies on: nothing newer than its own download goes    *)
(* away before it scans again, and it unlinks only files older than one    *)
(* that is there.                                                          *)
KeeperInv ==
    \A p \in Proc :
        /\ pc[p] = "rescan" => \E t \in Cached : t >= stamp[p]
        /\ pc[p] = "clean" =>
            /\ \A v \in victims[p] : v < path[p]
            /\ \E t \in Cached : t >= path[p]

(* A settled path is recent enough for the call that settled on it.        *)
PathInv ==
    \A p \in Proc : pc[p] \in {"clean", "read"} => path[p] + MaxAge >= started[p]

IInv == TypeOK /\ ClockInv /\ ContentInv /\ KeeperInv /\ PathInv /\ BoundedStaleness

-----------------------------------------------------------------------------

(* The values the actions write. *)
LEMMA Values ==
    /\ Absent \in File
    /\ \A t \in Time, k \in Complete \cup {"empty", "partial"} :
           [asOf |-> t, kind |-> k] \in File
    /\ \A e \in Errors : Failure(e) \in Result
    /\ \A f \in File : ReadResult(f) \in Result
<1> USE TimeAssumption DEF Time, File, Complete, Absent, Errors, Result, Failure
<1>1. Absent \in File
  OBVIOUS
<1>2. \A t \in Time, k \in Complete \cup {"empty", "partial"} :
          [asOf |-> t, kind |-> k] \in File
  OBVIOUS
<1>3. \A e \in Errors : Failure(e) \in Result
  OBVIOUS
<1>4. \A f \in File : ReadResult(f) \in Result
  BY DEF ReadResult
<1> QED
  BY <1>1, <1>2, <1>3, <1>4

(* A call that ends keeps everything in its set. *)
LEMMA EndTyped ==
    ASSUME TypeOK, NEW p \in Proc, NEW r \in Result, End(p, r),
           files' = files, abandoned' \in BOOLEAN
    PROVE  TypeOK'
BY Values DEF TypeOK, End, NoTime

LEMMA TypeStep == TypeOK /\ [Next]_vars => TypeOK'
<1> SUFFICES ASSUME TypeOK, [Next]_vars PROVE TypeOK'
  OBVIOUS
<1>t. now \in Time /\ 0 \in Time
  BY TimeAssumption DEF TypeOK, Time
<1>e. \A e \in Errors : Failure(e) \in Result
  BY Values
<1>1. CASE Tick
  BY <1>1, TimeAssumption DEF Tick, TypeOK, locals, Time
<1>2. ASSUME NEW p \in Proc, Call(p) PROVE TypeOK'
  <2>1. Failure("pending") \in Result
    BY <1>e DEF Errors
  <2> QED
    BY <1>2, <1>t, <2>1 DEF Call, TypeOK
<1>3. ASSUME NEW p \in Proc, ScanFresh(p) PROVE TypeOK'
  BY <1>3 DEF ScanFresh, Cached, TypeOK
<1>4. ASSUME NEW p \in Proc, ScanStale(p) PROVE TypeOK'
  BY <1>4 DEF ScanStale, TypeOK, locals
<1>5. ASSUME NEW p \in Proc, BeginDownload(p) PROVE TypeOK'
  <2>1. [asOf |-> now, kind |-> "empty"] \in File
    BY Values, <1>t
  <2> QED
    BY <1>5, <1>t, <2>1 DEF BeginDownload, TypeOK
<1>6. ASSUME NEW p \in Proc, Answer(p) PROVE TypeOK'
  <2>1. [asOf |-> now, kind |-> "partial"] \in File
    BY Values, <1>t
  <2> QED
    BY <1>6, <2>1 DEF Answer, TypeOK
<1>7. ASSUME NEW p \in Proc, BodyComplete(p) PROVE TypeOK'
  <2>1. PICK k \in Complete :
            staged' = [staged EXCEPT ![p] = [asOf |-> staged[p].asOf, kind |-> k]]
    BY <1>7 DEF BodyComplete
  <2>2. staged[p].asOf \in Time
    BY DEF TypeOK, File
  <2>4. staged' \in [Proc -> File]
    BY <2>1, <2>2, Values DEF TypeOK
  <2>5. stamp[p] \in Time
    BY <1>7 DEF BodyComplete, TypeOK
  <2>6. /\ pc' = [pc EXCEPT ![p] = "install"]
        /\ UNCHANGED <<now, files, started, stamp, path, victims, result, abandoned>>
    BY <1>7 DEF BodyComplete
  <2> QED
    BY <2>4, <2>5, <2>6 DEF TypeOK
<1>8. ASSUME NEW p \in Proc, DownloadFails(p) \/ DownloadAborts(p) \/ InstallFails(p)
      PROVE TypeOK'
  BY <1>8, <1>e, EndTyped DEF DownloadFails, DownloadAborts, InstallFails, Errors, TypeOK
<1>9. ASSUME NEW p \in Proc, Install(p) PROVE TypeOK'
  <2>1. stamp[p] \in Time
    BY <1>9 DEF Install, TypeOK
  <2> QED
    BY <1>9, <2>1, Values DEF Install, TypeOK
<1>10. ASSUME NEW p \in Proc, Rescan(p) PROVE TypeOK'
  <2>1. CASE Cached = {}
    BY <1>10, <2>1, <1>e, EndTyped DEF Rescan, Errors, TypeOK
  <2>2. CASE Cached # {}
    <3>1. PICK t \in Cached : Settle(p, t, Cached \ {t})
      BY <1>10, <2>2 DEF Rescan
    <3>2. t \in Time /\ Cached \subseteq Time
      BY DEF Cached
    <3>3. AfterUnlinks(Cached \ {t}) \in {"read", "clean"}
      BY DEF AfterUnlinks
    <3> QED
      BY <3>1, <3>2, <3>3 DEF Settle, TypeOK
  <2> QED
    BY <2>1, <2>2
<1>11. ASSUME NEW p \in Proc, Unlink(p) PROVE TypeOK'
  <2>1. PICK v \in victims[p] :
            /\ files' = [files EXCEPT ![v] = Absent]
            /\ victims' = [victims EXCEPT ![p] = @ \ {v}]
            /\ pc' = [pc EXCEPT ![p] = AfterUnlinks(victims[p] \ {v})]
    BY <1>11 DEF Unlink
  <2>2. path[p] \in Time
    BY <1>11 DEF Unlink, TypeOK
  <2>3. AfterUnlinks(victims[p] \ {v}) \in {"read", "clean"}
    BY DEF AfterUnlinks
  <2>4. UNCHANGED <<now, started, stamp, path, staged, result, abandoned>>
    BY <1>11 DEF Unlink
  <2>5. files' \in [Time -> File] /\ victims' \in [Proc -> SUBSET Time]
    BY <2>1, Values DEF TypeOK
  <2> QED
    BY <2>1, <2>2, <2>3, <2>4, <2>5 DEF TypeOK
<1>12. ASSUME NEW p \in Proc, Read(p) PROVE TypeOK'
  <2>1. ReadResult(files[path[p]]) \in Result
    BY <1>12, Values DEF Read, TypeOK
  <2> QED
    BY <1>12, <2>1, EndTyped DEF Read, TypeOK
<1>13. ASSUME NEW p \in Proc, LocalFsError(p) \/ Crash(p) PROVE TypeOK'
  <2>1. Abandons(p) \in BOOLEAN
    BY DEF Abandons, TypeOK
  <2> QED
    BY <1>13, <2>1, <1>e, EndTyped DEF LocalFsError, Crash, Errors
<1>14. CASE UNCHANGED vars
  BY <1>14 DEF vars, TypeOK
<1> QED
  BY <1>1, <1>2, <1>3, <1>4, <1>5, <1>6, <1>7, <1>8, <1>9, <1>10, <1>11, <1>12, <1>13,
     <1>14 DEF Next, Step

(* Type correctness, for any number of processes and any clock. *)
THEOREM TypeCorrect == Spec => []TypeOK
<1>1. Init => TypeOK
  <2> SUFFICES ASSUME Init PROVE TypeOK
    OBVIOUS
  <2>1. 0 \in Time /\ Failure("pending") \in Result
    BY Values, TimeAssumption DEF Errors, Time
  <2> QED
    BY <2>1, Values DEF Init, TypeOK
<1>2. TypeOK /\ [Next]_vars => TypeOK'
  BY TypeStep
<1> QED
  BY <1>1, <1>2, PTL DEF Spec

-----------------------------------------------------------------------------

(* A file stays in the cache unless this very step unlinks it.             *)
LEMMA OthersStay ==
    ASSUME TypeOK, NEW v \in Time,
           files' = [files EXCEPT ![v] = Absent]
    PROVE  /\ Cached' = Cached \ {v}
           /\ \A t \in Time : t # v => files'[t] = files[t]
BY DEF TypeOK, Cached, Absent

LEMMA InstallAdds ==
    ASSUME TypeOK, StagedFileOwned, NEW p \in Proc, Install(p)
    PROVE  Cached' = Cached \cup {stamp[p]} /\ stamp[p] \in Time
<1>1. stamp[p] \in Time /\ staged[p].kind # "absent"
  BY DEF TypeOK, StagedFileOwned, Install
<1>2. files' = [files EXCEPT ![stamp[p]] = staged[p]]
  BY DEF Install
<1>3. \A t \in Time : files'[t] = IF t = stamp[p] THEN staged[p] ELSE files[t]
  BY <1>1, <1>2 DEF TypeOK
<1>4. \A t \in Time : t \in Cached' <=> t \in Cached \cup {stamp[p]}
  BY <1>1, <1>3 DEF Cached
<1>5. Cached \subseteq Time /\ Cached' \subseteq Time
  BY DEF Cached
<1> QED
  BY <1>1, <1>4, <1>5

(* _download removes its staged file however it fails.                     *)
THEOREM StagedFilesRemoved == Spec => []StagedFileOwned
<1>1. Init => StagedFileOwned
  <2> SUFFICES ASSUME Init, NEW p \in Proc
               PROVE  staged[p].kind = "absent" /\ pc[p] = "idle"
    BY DEF StagedFileOwned
  <2> QED
    BY DEF Init, Absent
<1>2. TypeOK /\ StagedFileOwned /\ [Next]_vars => StagedFileOwned'
  <2> SUFFICES ASSUME TypeOK, StagedFileOwned, [Next]_vars PROVE StagedFileOwned'
    OBVIOUS
  <2> USE DEF StagedFileOwned, TypeOK
  <2>1. CASE Tick \/ UNCHANGED vars
    BY <2>1 DEF Tick, vars, locals
  <2>2. ASSUME NEW p \in Proc,
               Call(p) \/ ScanFresh(p) \/ ScanStale(p) \/ Unlink(p)
        PROVE  StagedFileOwned'
    BY <2>2 DEF Call, ScanFresh, ScanStale, Unlink, AfterUnlinks, locals
  <2>3. ASSUME NEW p \in Proc, BeginDownload(p) \/ Answer(p) \/ BodyComplete(p)
        PROVE  StagedFileOwned'
    BY <2>3 DEF BeginDownload, Answer, BodyComplete, Complete
  <2>4. ASSUME NEW p \in Proc, Install(p)
        PROVE  StagedFileOwned'
    BY <2>4 DEF Install, Absent
  <2>5. ASSUME NEW p \in Proc, NEW r, End(p, r)
        PROVE  StagedFileOwned'
    BY <2>5 DEF End, Absent
  <2>6. ASSUME NEW p \in Proc, Rescan(p)
        PROVE  StagedFileOwned'
    BY <2>5, <2>6 DEF Rescan, Settle, AfterUnlinks
  <2> QED
    BY <2>1, <2>2, <2>3, <2>4, <2>5, <2>6
       DEF Next, Step, DownloadFails, DownloadAborts, InstallFails, Read, LocalFsError, Crash
<1> QED
  BY <1>1, <1>2, TypeCorrect, PTL DEF Spec

-----------------------------------------------------------------------------

(* The invariant that carries the cache's guarantees.  BoundedStaleness    *)
(* alone is not inductive: a value is only as fresh as the file it is read *)
(* from (ContentInv), which was chosen by a scan (PathInv), which must     *)
(* have seen at least the process's own download or a newer one            *)
(* (KeeperInv), whatever the other processes have unlinked since.          *)

LEMMA ClockStep ==
    ASSUME TypeOK, ClockInv, [Next]_vars
    PROVE  ClockInv'
<1> USE DEF ClockInv
<1>1. CASE Tick \/ UNCHANGED vars
  BY <1>1 DEF Tick, vars, locals, TypeOK, Time
<1>2. ASSUME NEW p \in Proc, Call(p) \/ BeginDownload(p) PROVE ClockInv'
  <2>1. now \in Int
    BY DEF TypeOK, Time
  <2>2. CASE Call(p)
    BY <2>1, <2>2 DEF Call, TypeOK
  <2>3. CASE BeginDownload(p)
    BY <2>1, <2>3 DEF BeginDownload, TypeOK
  <2> QED
    BY <1>2, <2>2, <2>3
<1>3. ASSUME NEW p \in Proc, ScanFresh(p) \/ ScanStale(p) \/ Unlink(p) PROVE ClockInv'
  BY <1>3 DEF ScanFresh, ScanStale, Unlink, AfterUnlinks, locals, TypeOK
<1>4. ASSUME NEW p \in Proc, Answer(p) \/ BodyComplete(p) \/ Install(p) PROVE ClockInv'
  BY <1>4 DEF Answer, BodyComplete, Install, TypeOK
<1>5. ASSUME NEW p \in Proc, NEW r, End(p, r) PROVE ClockInv'
  BY <1>5 DEF End, TypeOK
<1>6. ASSUME NEW p \in Proc, Rescan(p) PROVE ClockInv'
  BY <1>5, <1>6 DEF Rescan, Settle, AfterUnlinks, TypeOK
<1> QED
  BY <1>1, <1>2, <1>3, <1>4, <1>5, <1>6
     DEF Next, Step, DownloadFails, DownloadAborts, InstallFails, Read, LocalFsError, Crash

LEMMA ContentStep ==
    ASSUME TypeOK, ClockInv, ContentInv, [Next]_vars
    PROVE  ContentInv'
<1> USE DEF ContentInv
<1>1. CASE Tick \/ UNCHANGED vars
  BY <1>1 DEF Tick, vars, locals
<1>2. ASSUME NEW p \in Proc, Call(p) \/ ScanFresh(p) \/ ScanStale(p) PROVE ContentInv'
  BY <1>2 DEF Call, ScanFresh, ScanStale, locals, TypeOK
<1>3. ASSUME NEW p \in Proc, BeginDownload(p) \/ Answer(p) PROVE ContentInv'
  <2>1. now \in Int
    BY DEF TypeOK, Time
  <2>2. CASE BeginDownload(p)
    BY <2>1, <2>2 DEF BeginDownload, TypeOK
  <2>3. CASE Answer(p)
    BY <2>1, <2>3 DEF Answer, TypeOK, ClockInv
  <2> QED
    BY <1>3, <2>2, <2>3
<1>4. ASSUME NEW p \in Proc, BodyComplete(p) PROVE ContentInv'
  BY <1>4 DEF BodyComplete, TypeOK
<1>5. ASSUME NEW p \in Proc, Install(p) PROVE ContentInv'
  BY <1>5 DEF Install, TypeOK
<1>6. ASSUME NEW p \in Proc, Unlink(p) PROVE ContentInv'
  <2>1. PICK v \in Time : files' = [files EXCEPT ![v] = Absent]
    BY <1>6 DEF Unlink, TypeOK
  <2>2. \A t \in Time : files'[t].kind # "absent" =>
            files'[t].kind \in Complete /\ files'[t].asOf >= t
    BY <2>1 DEF TypeOK, Absent
  <2> QED
    BY <1>6, <2>2 DEF Unlink, AfterUnlinks, TypeOK
<1>7. ASSUME NEW p \in Proc, NEW r, End(p, r), files' = files PROVE ContentInv'
  BY <1>7 DEF End, TypeOK
<1>8. ASSUME NEW p \in Proc, Rescan(p) PROVE ContentInv'
  BY <1>7, <1>8 DEF Rescan, Settle, AfterUnlinks, TypeOK
<1> QED
  BY <1>1, <1>2, <1>3, <1>4, <1>5, <1>6, <1>7, <1>8
     DEF Next, Step, DownloadFails, DownloadAborts, InstallFails, Read, LocalFsError, Crash

LEMMA KeeperStep ==
    ASSUME TypeOK, StagedFileOwned, KeeperInv, [Next]_vars
    PROVE  KeeperInv'
<1> USE DEF KeeperInv
<1>t. \A t \in Time : t \in Int
  BY DEF Time
<1>c. \A t \in Cached : t \in Time /\ t \in Int
  BY <1>t DEF Cached
<1>1. CASE Tick \/ UNCHANGED vars
  BY <1>1 DEF Tick, vars, locals, Cached
<1>2. ASSUME NEW p \in Proc,
             \/ Call(p) \/ ScanFresh(p) \/ ScanStale(p)
             \/ BeginDownload(p) \/ Answer(p) \/ BodyComplete(p)
      PROVE  KeeperInv'
  <2>1. Cached' = Cached
    BY <1>2 DEF Call, ScanFresh, ScanStale, BeginDownload, Answer, BodyComplete, Cached
  <2> QED
    BY <1>2, <2>1 DEF Call, ScanFresh, ScanStale, BeginDownload, Answer, BodyComplete,
                      locals, TypeOK
<1>3. ASSUME NEW p \in Proc, NEW r, End(p, r), files' = files PROVE KeeperInv'
  <2>1. Cached' = Cached
    BY <1>3 DEF Cached
  <2> QED
    BY <1>3, <2>1 DEF End, TypeOK
<1>4. ASSUME NEW p \in Proc, Install(p) PROVE KeeperInv'
  <2>1. Cached' = Cached \cup {stamp[p]} /\ stamp[p] \in Time
    BY <1>4, InstallAdds
  <2>2. stamp[p] >= stamp[p]
    BY <2>1, <1>t
  <2> QED
    BY <1>4, <2>1, <2>2 DEF Install, TypeOK
<1>5. ASSUME NEW p \in Proc, Rescan(p) PROVE KeeperInv'
  <2>1. CASE Cached = {}
    BY <1>3, <1>5, <2>1 DEF Rescan
  <2>2. CASE Cached # {}
    <3>1. PICK t \in Cached : IsNewest(t, Cached) /\ Settle(p, t, Cached \ {t})
      BY <1>5, <2>2 DEF Rescan
    <3>2. Cached' = Cached
      BY <3>1 DEF Settle, Cached
    <3>3. \A v \in Cached \ {t} : v < t
      BY <3>1, <1>c DEF IsNewest
    <3>4. t >= t
      BY <1>c
    <3>5. AfterUnlinks(Cached \ {t}) # "rescan"
      BY DEF AfterUnlinks
    <3> QED
      BY <3>1, <3>2, <3>3, <3>4, <3>5 DEF Settle, TypeOK
  <2> QED
    BY <2>1, <2>2
<1>6. ASSUME NEW p \in Proc, Unlink(p) PROVE KeeperInv'
  <2>1. PICK v \in victims[p] :
            /\ files' = [files EXCEPT ![v] = Absent]
            /\ victims' = [victims EXCEPT ![p] = @ \ {v}]
            /\ pc' = [pc EXCEPT ![p] = AfterUnlinks(victims[p] \ {v})]
    BY <1>6 DEF Unlink
  <2>2. pc[p] = "clean" /\ UNCHANGED <<stamp, path>>
    BY <1>6 DEF Unlink
  <2>3. v \in Time /\ Cached' = Cached \ {v}
    BY <2>1, OthersStay DEF TypeOK
  <2>4. PICK u \in Cached : u >= path[p]
    BY <2>2
  <2>5. v < u /\ u \in Cached'
    <3>1. path[p] \in Int /\ u \in Int /\ v \in Int
      BY <2>2, <2>3, <1>t, <1>c DEF TypeOK
    <3>2. v < path[p]
      BY <2>1, <2>2
    <3>3. v < u
      BY <2>4, <3>1, <3>2
    <3> QED
      BY <2>3, <3>1, <3>3
  <2>6. \A x \in Time : (\E t \in Cached : t >= x) => (\E t \in Cached' : t >= x)
    BY <2>3, <2>5, <1>t, <1>c
  <2>7. AfterUnlinks(victims[p] \ {v}) # "rescan"
    BY DEF AfterUnlinks
  <2>8. \A q \in Proc : pc'[q] = "rescan" => \E t \in Cached' : t >= stamp'[q]
    BY <2>1, <2>2, <2>6, <2>7 DEF TypeOK
  <2>9. ASSUME NEW q \in Proc, pc'[q] = "clean"
        PROVE  /\ \A w \in victims'[q] : w < path'[q]
               /\ \E t \in Cached' : t >= path'[q]
    <3>1. pc[q] = "clean" /\ path[q] \in Time /\ victims'[q] \subseteq victims[q]
      BY <2>1, <2>2, <2>9 DEF TypeOK
    <3> QED
      BY <3>1, <2>2, <2>6
  <2> QED
    BY <2>8, <2>9
<1> QED
  BY <1>1, <1>2, <1>3, <1>4, <1>5, <1>6
     DEF Next, Step, DownloadFails, DownloadAborts, InstallFails, Read, LocalFsError, Crash

LEMMA PathStep ==
    ASSUME TypeOK, ClockInv, KeeperInv, PathInv, [Next]_vars
    PROVE  PathInv'
<1> USE AgeAssumption DEF PathInv
<1>t. \A t \in Time : t \in Int
  BY DEF Time
<1>1. CASE Tick \/ UNCHANGED vars
  BY <1>1 DEF Tick, vars, locals
<1>2. ASSUME NEW p \in Proc,
             \/ Call(p) \/ ScanStale(p) \/ BeginDownload(p) \/ Answer(p) \/ BodyComplete(p)
             \/ Install(p) \/ Unlink(p)
      PROVE  PathInv'
  BY <1>2 DEF Call, ScanStale, BeginDownload, Answer, BodyComplete, Install, Unlink,
              AfterUnlinks, locals, TypeOK
<1>3. ASSUME NEW p \in Proc, ScanFresh(p) PROVE PathInv'
  <2>1. PICK t \in Cached : now - t <= MaxAge /\ path' = [path EXCEPT ![p] = t]
    BY <1>3 DEF ScanFresh
  <2>2. t \in Int /\ now \in Int /\ started[p] \in Int /\ started[p] <= now
    BY <1>t DEF Cached, TypeOK, ClockInv
  <2>3. t + MaxAge >= started[p]
    BY <2>1, <2>2
  <2> QED
    BY <1>3, <2>1, <2>3 DEF ScanFresh, TypeOK
<1>4. ASSUME NEW p \in Proc, NEW r, End(p, r) PROVE PathInv'
  BY <1>4 DEF End, TypeOK
<1>5. ASSUME NEW p \in Proc, Rescan(p) PROVE PathInv'
  <2>1. CASE Cached = {}
    BY <1>4, <1>5, <2>1 DEF Rescan
  <2>2. CASE Cached # {}
    <3>1. PICK t \in Cached : IsNewest(t, Cached) /\ Settle(p, t, Cached \ {t})
      BY <1>5, <2>2 DEF Rescan
    <3>2. PICK u \in Cached : u >= stamp[p]
      BY <1>5 DEF Rescan, KeeperInv
    <3>3. u <= t
      BY <3>1 DEF IsNewest
    <3>4. /\ t \in Int /\ u \in Int /\ stamp[p] \in Int /\ started[p] \in Int
          /\ started[p] <= stamp[p]
      BY <1>5, <1>t DEF Cached, TypeOK, ClockInv, Rescan
    <3>5. t + MaxAge >= started[p]
      BY <3>2, <3>3, <3>4
    <3> QED
      BY <3>1, <3>5 DEF Settle, TypeOK
  <2> QED
    BY <2>1, <2>2
<1> QED
  BY <1>1, <1>2, <1>3, <1>4, <1>5
     DEF Next, Step, DownloadFails, DownloadAborts, InstallFails, Read, LocalFsError, Crash

LEMMA StalenessStep ==
    ASSUME TypeOK, ContentInv, PathInv, BoundedStaleness, [Next]_vars
    PROVE  BoundedStaleness'
<1> USE AgeAssumption DEF BoundedStaleness
<1>1. CASE Tick \/ UNCHANGED vars
  BY <1>1 DEF Tick, vars, locals
<1>2. ASSUME NEW p \in Proc,
             \/ ScanFresh(p) \/ ScanStale(p) \/ BeginDownload(p) \/ Answer(p)
             \/ BodyComplete(p) \/ Install(p) \/ Unlink(p)
      PROVE  BoundedStaleness'
  BY <1>2 DEF ScanFresh, ScanStale, BeginDownload, Answer, BodyComplete, Install, Unlink,
              locals
<1>3. ASSUME NEW p \in Proc, Call(p) PROVE BoundedStaleness'
  BY <1>3 DEF Call, Failure, TypeOK
<1>4. ASSUME NEW p \in Proc, NEW r \in Result, End(p, r),
             r.error \in {"none", "UpstreamDataError", "JSONDecodeError"} =>
                 r.asOf + MaxAge >= started[p]
      PROVE  BoundedStaleness'
  BY <1>4 DEF End, TypeOK
<1>e. ASSUME NEW p \in Proc,
             NEW e \in Errors \ {"none", "UpstreamDataError", "JSONDecodeError"},
             End(p, Failure(e))
      PROVE  BoundedStaleness'
  <2>1. Failure(e) \in Result /\ Failure(e).error = e
    BY Values DEF Failure
  <2> QED
    BY <1>4, <1>e, <2>1
<1>5. ASSUME NEW p \in Proc, Rescan(p) PROVE BoundedStaleness'
  BY <1>5, <1>e DEF Rescan, Settle, Errors
<1>6. ASSUME NEW p \in Proc, Read(p) PROVE BoundedStaleness'
  <2> DEFINE f == files[path[p]]
  <2>1. path[p] \in Time /\ f \in File /\ ReadResult(f) \in Result
    BY <1>6, Values DEF Read, TypeOK
  <2>2. CASE f.kind = "absent"
    BY <1>6, <1>e, <2>2 DEF Read, ReadResult, Errors
  <2>3. CASE f.kind # "absent"
    <3>1. ReadResult(f).asOf = f.asOf
      BY <2>3 DEF ReadResult
    <3>2. f.asOf >= path[p] /\ path[p] + MaxAge >= started[p]
      BY <1>6, <2>1, <2>3 DEF Read, ContentInv, PathInv
    <3>3. f.asOf \in Int /\ path[p] \in Int /\ started[p] \in Int
      BY <2>1 DEF File, Time, TypeOK
    <3>4. f.asOf + MaxAge >= started[p]
      BY <3>2, <3>3
    <3> QED
      BY <1>4, <1>6, <2>1, <3>1, <3>4 DEF Read
  <2> QED
    BY <2>2, <2>3
<1> QED
  BY <1>1, <1>2, <1>3, <1>e, <1>5, <1>6
     DEF Next, Step, DownloadFails, DownloadAborts, InstallFails, LocalFsError, Crash, Errors

THEOREM Inductive == Spec => [](IInv /\ StagedFileOwned)
<1>1. Init => IInv
  <2> SUFFICES ASSUME Init PROVE IInv
    OBVIOUS
  <2>1. TypeOK
    <3>1. 0 \in Time /\ Failure("pending") \in Result
      BY Values, TimeAssumption DEF Errors, Time
    <3> QED
      BY <3>1, Values DEF Init, TypeOK
  <2>2. ClockInv /\ KeeperInv /\ PathInv
    BY DEF Init, ClockInv, KeeperInv, PathInv
  <2>3. ContentInv
    BY DEF Init, ContentInv, Absent
  <2>4. BoundedStaleness
    BY DEF Init, BoundedStaleness, Failure
  <2> QED
    BY <2>1, <2>2, <2>3, <2>4 DEF IInv
<1>2. IInv /\ StagedFileOwned /\ [Next]_vars => IInv'
  BY TypeStep, ClockStep, ContentStep, KeeperStep, PathStep, StalenessStep DEF IInv
<1> QED
  BY <1>1, <1>2, StagedFilesRemoved, PTL DEF Spec

(* No call acts on a response older than one cache age before it began:    *)
(* for any number of concurrent refreshers, failures and crashes.          *)
THEOREM StalenessBounded == Spec => []BoundedStaleness
<1>1. IInv => BoundedStaleness
  BY DEF IInv
<1> QED
  BY <1>1, Inductive, PTL

(* A name a scan can return always holds a complete response.              *)
THEOREM CompleteUnderFinalName == Spec => []OnlyCompleteResponses
<1>1. IInv => OnlyCompleteResponses
  BY DEF IInv, ContentInv, OnlyCompleteResponses, Cached
<1> QED
  BY <1>1, Inductive, PTL

(* The newest cached file is never removed, so the second scan always has  *)
(* something to keep, however stale the scans others delete from.          *)
THEOREM NewestNeverRemoved == Spec => NewestSurvives
<1> DEFINE Survives == \A t \in Cached : \E u \in Cached' : u >= t
<1>1. IInv /\ StagedFileOwned /\ [Next]_vars => [Survives]_files
  <2> SUFFICES ASSUME IInv, StagedFileOwned, Next, NEW t \in Cached
               PROVE  files' = files \/ \E u \in Cached' : u >= t
    BY DEF vars
  <2> USE DEF IInv
  <2>t. \A u \in Cached : u \in Time /\ u \in Int
    BY DEF Cached, Time
  <2>1. ASSUME NEW p \in Proc, Install(p) PROVE \E u \in Cached' : u >= t
    <3>1. t \in Cached' /\ t >= t
      BY <2>1, <2>t, InstallAdds
    <3> QED
      BY <3>1
  <2>2. ASSUME NEW p \in Proc, Unlink(p) PROVE \E u \in Cached' : u >= t
    <3>1. PICK v \in victims[p] : files' = [files EXCEPT ![v] = Absent]
      BY <2>2 DEF Unlink
    <3>2. v \in Time /\ v < path[p] /\ path[p] \in Time
      BY <2>2 DEF Unlink, KeeperInv, TypeOK
    <3>3. PICK u \in Cached : u >= path[p]
      BY <2>2 DEF Unlink, KeeperInv
    <3>4. v < u /\ v \in Int /\ u \in Int
      BY <3>2, <3>3, <2>t DEF Time
    <3>5. Cached' = Cached \ {v}
      BY <3>1, <3>2, OthersStay
    <3>6. CASE t = v
      BY <3>4, <3>5, <3>6
    <3>7. CASE t # v
      BY <3>5, <3>7, <2>t
    <3> QED
      BY <3>6, <3>7
  <2>3. ASSUME NEW p \in Proc, Rescan(p) PROVE files' = files
    BY <2>3 DEF Rescan, Settle
  <2> QED
    BY <2>1, <2>2, <2>3
       DEF Next, Step, Tick, Call, ScanFresh, ScanStale, BeginDownload, Answer, BodyComplete,
           DownloadFails, DownloadAborts, InstallFails, Read, LocalFsError, Crash
<1> QED
  BY <1>1, Inductive, PTL DEF Spec, NewestSurvives

-----------------------------------------------------------------------------

(* Of two cached files the older is on some live process's list, unless a  *)
(* process died after its rename and no refresh has rescanned since.       *)
THEOREM OldFilesAreReclaimed == Spec => []OldFilesReclaimed
<1> USE DEF OldFilesReclaimed
<1>1. Init => OldFilesReclaimed
  <2> SUFFICES ASSUME Init PROVE Cached = {}
    OBVIOUS
  <2> QED
    BY DEF Init, Cached, Absent
<1>2. TypeOK /\ StagedFileOwned /\ OldFilesReclaimed /\ [Next]_vars => OldFilesReclaimed'
  <2> SUFFICES ASSUME TypeOK, StagedFileOwned, OldFilesReclaimed, [Next]_vars,
                      ~abandoned', NEW t \in Cached', NEW u \in Cached', t < u
               PROVE  \E q \in Proc : \/ pc'[q] = "rescan"
                                      \/ pc'[q] = "clean" /\ t \in victims'[q]
    OBVIOUS
  <2> DEFINE Reclaims(q) == pc[q] = "rescan" \/ (pc[q] = "clean" /\ t \in victims[q])
  <2>1. CASE Tick \/ UNCHANGED vars
    BY <2>1 DEF Tick, vars, locals, Cached
  <2>2. ASSUME NEW p \in Proc, NEW q \in Proc \ {p}, Reclaims(q), Step(p)
        PROVE  pc'[q] = "rescan" \/ (pc'[q] = "clean" /\ t \in victims'[q])
    BY <2>2 DEF Step, Call, ScanFresh, ScanStale, BeginDownload, Answer, BodyComplete,
         DownloadFails, DownloadAborts, Install, InstallFails, Rescan, Settle, Unlink, Read,
         LocalFsError, Crash, End, locals, TypeOK
  <2>3. ASSUME NEW p \in Proc, pc[p] \notin {"rescan", "clean"}, Step(p),
               files' = files, abandoned' = abandoned
        PROVE  \E q \in Proc : pc'[q] = "rescan" \/ (pc'[q] = "clean" /\ t \in victims'[q])
    <3>1. Cached' = Cached
      BY <2>3 DEF Cached
    <3>2. PICK q \in Proc : Reclaims(q)
      BY <3>1, <2>3
    <3> QED
      BY <2>2, <2>3, <3>2
  <2>4. ASSUME NEW p \in Proc, Install(p)
        PROVE  pc'[p] = "rescan"
    BY <2>4 DEF Install, TypeOK
  <2>5. ASSUME NEW p \in Proc, Rescan(p)
        PROVE  pc'[p] = "clean" /\ t \in victims'[p]
    <3>1. Cached' = Cached
      BY <2>5 DEF Rescan, Settle, Cached
    <3>2. PICK k \in Cached : IsNewest(k, Cached) /\ Settle(p, k, Cached \ {k})
      BY <2>5, <3>1 DEF Rescan
    <3>3. u <= k /\ k \in Int /\ u \in Int /\ t \in Int
      BY <3>1, <3>2 DEF IsNewest, Cached, Time
    <3>4. t \in Cached \ {k}
      BY <3>1, <3>3
    <3> QED
      BY <3>2, <3>4 DEF Settle, AfterUnlinks, TypeOK
  <2>6. ASSUME NEW p \in Proc, Unlink(p)
        PROVE  \E q \in Proc : pc'[q] = "rescan" \/ (pc'[q] = "clean" /\ t \in victims'[q])
    <3>1. PICK v \in victims[p] :
              /\ files' = [files EXCEPT ![v] = Absent]
              /\ victims' = [victims EXCEPT ![p] = @ \ {v}]
              /\ pc' = [pc EXCEPT ![p] = AfterUnlinks(victims[p] \ {v})]
      BY <2>6 DEF Unlink
    <3>2. v \in Time /\ pc[p] = "clean" /\ abandoned' = abandoned
      BY <3>1, <2>6 DEF Unlink, TypeOK
    <3>3. t \in Cached /\ u \in Cached /\ t # v
      BY <3>1, <3>2, OthersStay
    <3>4. PICK q \in Proc : Reclaims(q)
      BY <3>2, <3>3
    <3>5. CASE q = p
      <4>1. t \in victims[p] \ {v}
        BY <3>2, <3>3, <3>4, <3>5
      <4> QED
        BY <3>1, <4>1 DEF AfterUnlinks, TypeOK
    <3>6. CASE q # p
      BY <2>2, <2>6, <3>4, <3>6 DEF Step
    <3> QED
      BY <3>5, <3>6
  <2>7. ASSUME NEW p \in Proc, LocalFsError(p) \/ Crash(p)
        PROVE  \E q \in Proc : pc'[q] = "rescan" \/ (pc'[q] = "clean" /\ t \in victims'[q])
    <3>1. pc[p] \notin {"rescan", "clean"} /\ ~abandoned /\ files' = files
      BY <2>7 DEF LocalFsError, Crash, Abandons
    <3>2. abandoned' = abandoned
      BY <3>1, <2>7 DEF LocalFsError, Crash, Abandons, TypeOK
    <3> QED
      BY <2>3, <2>7, <3>1, <3>2 DEF Step
  <2>8. ASSUME NEW p \in Proc,
               \/ Call(p) \/ ScanFresh(p) \/ ScanStale(p) \/ BeginDownload(p) \/ Answer(p)
               \/ BodyComplete(p) \/ DownloadFails(p) \/ DownloadAborts(p)
               \/ InstallFails(p) \/ Read(p)
        PROVE  \E q \in Proc : pc'[q] = "rescan" \/ (pc'[q] = "clean" /\ t \in victims'[q])
    <3>1. /\ pc[p] \notin {"rescan", "clean"} /\ files' = files /\ abandoned' = abandoned
      BY <2>8 DEF Call, ScanFresh, ScanStale, BeginDownload, Answer, BodyComplete,
                  DownloadFails, DownloadAborts, InstallFails, Read, locals
    <3> QED
      BY <2>3, <2>8, <3>1 DEF Step
  <2> QED
    BY <2>1, <2>4, <2>5, <2>6, <2>7, <2>8 DEF Next, Step
<1> QED
  BY <1>1, <1>2, TypeCorrect, StagedFilesRemoved, PTL DEF Spec
=============================================================================
