----------------------------- MODULE ReleaseCache -----------------------------
(***************************************************************************)
(* The on-disk cache of the Python release feed that latest_python_minor   *)
(* shares between every process converting abi3 wheels: a directory of     *)
(* python_version_<timestamp>.json files, each a whole feed response.      *)
(*                                                                         *)
(* A response is abstracted to the second at which the feed produced it    *)
(* (asOf) and to what json.loads and _latest_minor_from_releases make of   *)
(* it (kind): the minor itself only ever matters through how old it is.    *)
(*                                                                         *)
(* A definition introduced by "Bug:" is no part of the specification: it   *)
(* is a plausible mistake in the action after it, used to confirm that the *)
(* properties would notice.                                                *)
(***************************************************************************)
EXTENDS Integers

CONSTANTS
    Proc,      \* processes sharing one cache directory
    MaxAge,    \* _MAX_CACHE_AGE, in clock seconds
    MaxTime    \* bound of the model: the last second of the clock

ASSUME AgeAssumption == MaxAge \in Nat
ASSUME TimeAssumption == MaxTime \in Nat

VARIABLES
    now,       \* the wall clock all processes read
    files,     \* files[t]: contents of python_version_<t>.json
    pc,        \* where each process is inside latest_python_minor
    started,   \* when its current call began
    stamp,     \* _download's timestamp, NoTime when it did not download
    path,      \* the file _ensure_fresh_cache settled on
    victims,   \* refreshed[1:], the files it still has to unlink
    staged,    \* its mkstemp file
    result,    \* what its last call returned or raised
    abandoned  \* a process died after its rename, and no refresh has rescanned since

vars == <<now, files, pc, started, stamp, path, victims, staged, result, abandoned>>

locals == <<started, stamp, path, victims, staged, result>>

-----------------------------------------------------------------------------

Time == 0 .. MaxTime
NoTime == -1

(* good: names a 3.x release.  norelease: JSON without one.  junk: not JSON. *)
Complete == {"good", "norelease", "junk"}
Absent == [asOf |-> 0, kind |-> "absent"]
File == [asOf : Time, kind : Complete \cup {"absent", "empty", "partial"}]

(* What a call ends with; "none" is a value returned. *)
Errors == {"none", "NetworkFetchError", "CacheWriteError", "UpstreamDataError",
           "JSONDecodeError", "FileNotFoundError", "HTTPException", "IndexError",
           "OSError", "pending", "crashed"}
Result == [error : Errors, asOf : Time]
Failure(e) == [error |-> e, asOf |-> 0]

Cached == {t \in Time : files[t].kind # "absent"}

(* _cached_files sorts newest first, so its element 0 is the newest file. *)
IsNewest(t, S) == t \in S /\ \A u \in S : u <= t

Init ==
    /\ now = 0
    /\ files = [t \in Time |-> Absent]
    /\ pc = [p \in Proc |-> "idle"]
    /\ started = [p \in Proc |-> 0]
    /\ stamp = [p \in Proc |-> NoTime]
    /\ path = [p \in Proc |-> NoTime]
    /\ victims = [p \in Proc |-> {}]
    /\ staged = [p \in Proc |-> Absent]
    /\ result = [p \in Proc |-> Failure("pending")]
    /\ abandoned = FALSE

-----------------------------------------------------------------------------

(* A call of latest_python_minor begins. *)
Call(p) ==
    /\ pc[p] = "idle"
    /\ pc' = [pc EXCEPT ![p] = "scan"]
    /\ started' = [started EXCEPT ![p] = now]
    /\ result' = [result EXCEPT ![p] = Failure("pending")]
    /\ UNCHANGED <<now, files, stamp, path, victims, staged, abandoned>>

(* The call returns or raises, and its locals are gone. *)
End(p, r) ==
    /\ pc' = [pc EXCEPT ![p] = "idle"]
    /\ result' = [result EXCEPT ![p] = r]
    /\ stamp' = [stamp EXCEPT ![p] = NoTime]
    /\ path' = [path EXCEPT ![p] = NoTime]
    /\ victims' = [victims EXCEPT ![p] = {}]
    /\ staged' = [staged EXCEPT ![p] = Absent]
    /\ UNCHANGED <<now, started>>

(* First scan.  The clock is read with microseconds and the stamp without, *)
(* so in the second where the age reaches MaxAge either answer is possible. *)
ScanFresh(p) ==
    /\ pc[p] = "scan"
    /\ \E t \in Cached :
        /\ IsNewest(t, Cached)
        /\ now - t <= MaxAge
        /\ path' = [path EXCEPT ![p] = t]
    /\ pc' = [pc EXCEPT ![p] = "read"]
    /\ UNCHANGED <<now, files, started, stamp, victims, staged, result, abandoned>>

ScanStale(p) ==
    /\ pc[p] = "scan"
    /\ \A t \in Cached : now - t >= MaxAge
    /\ pc' = [pc EXCEPT ![p] = "download"]
    /\ UNCHANGED <<now, files, locals, abandoned>>

(* The timestamp is taken, and the staged file made, before the request. *)
BeginDownload(p) ==
    /\ pc[p] = "download"
    /\ stamp' = [stamp EXCEPT ![p] = now]
    /\ staged' = [staged EXCEPT ![p] = [asOf |-> now, kind |-> "empty"]]
    /\ pc' = [pc EXCEPT ![p] = "request"]
    /\ UNCHANGED <<now, files, started, path, victims, result, abandoned>>

(* The feed produces its response: the moment that decides its contents. *)
Answer(p) ==
    /\ pc[p] = "request"
    /\ staged' = [staged EXCEPT ![p] = [asOf |-> now, kind |-> "partial"]]
    /\ pc' = [pc EXCEPT ![p] = "body"]
    /\ UNCHANGED <<now, files, started, stamp, path, victims, result, abandoned>>

BodyComplete(p) ==
    /\ pc[p] = "body"
    /\ \E k \in Complete :
        staged' = [staged EXCEPT ![p] = [asOf |-> staged[p].asOf, kind |-> k]]
    /\ pc' = [pc EXCEPT ![p] = "install"]
    /\ UNCHANGED <<now, files, started, stamp, path, victims, result, abandoned>>

(* Bug: the staged file is left behind. *)
DownloadFailsLeaky(p) ==
    /\ pc[p] \in {"request", "body"}
    /\ pc' = [pc EXCEPT ![p] = "idle"]
    /\ result' = [result EXCEPT ![p] = Failure("NetworkFetchError")]
    /\ stamp' = [stamp EXCEPT ![p] = NoTime]
    /\ UNCHANGED <<now, files, started, path, victims, staged, abandoned>>

(* OSError from the request, the read or the local write: unlink and wrap. *)
DownloadFails(p) ==
    /\ pc[p] \in {"request", "body"}
    /\ End(p, Failure("NetworkFetchError"))
    /\ UNCHANGED <<files, abandoned>>

(* Bug: the truncated body is installed instead. *)
DownloadAbortInstalls(p) ==
    /\ pc[p] \in {"request", "body"}
    /\ pc' = [pc EXCEPT ![p] = "install"]
    /\ UNCHANGED <<now, files, locals, abandoned>>

(* Anything else (IncompleteRead, an interrupt): unlink and re-raise as is. *)
DownloadAborts(p) ==
    /\ pc[p] \in {"request", "body"}
    /\ End(p, Failure("HTTPException"))
    /\ UNCHANGED <<files, abandoned>>

(* Bug: the timestamp is taken when the download ends, not before it. *)
InstallStampedLate(p) ==
    /\ pc[p] = "install"
    /\ files' = [files EXCEPT ![now] = staged[p]]
    /\ stamp' = [stamp EXCEPT ![p] = now]
    /\ staged' = [staged EXCEPT ![p] = Absent]
    /\ pc' = [pc EXCEPT ![p] = "rescan"]
    /\ UNCHANGED <<now, started, path, victims, result, abandoned>>

(* The atomic rename; a file of the same second is overwritten. *)
Install(p) ==
    /\ pc[p] = "install"
    /\ files' = [files EXCEPT ![stamp[p]] = staged[p]]
    /\ staged' = [staged EXCEPT ![p] = Absent]
    /\ pc' = [pc EXCEPT ![p] = "rescan"]
    /\ UNCHANGED <<now, started, stamp, path, victims, result, abandoned>>

InstallFails(p) ==
    /\ pc[p] = "install"
    /\ End(p, Failure("CacheWriteError"))
    /\ UNCHANGED <<files, abandoned>>

AfterUnlinks(rest) == IF rest = {} THEN "read" ELSE "clean"

(* refreshed[0] is kept, refreshed[1:] are to be unlinked. *)
Settle(p, keep, rest) ==
    /\ path' = [path EXCEPT ![p] = keep]
    /\ victims' = [victims EXCEPT ![p] = rest]
    /\ pc' = [pc EXCEPT ![p] = AfterUnlinks(rest)]
    /\ abandoned' = FALSE
    /\ UNCHANGED <<now, files, started, stamp, staged, result>>

(* Bug: the settled path is not recorded. *)
RescanForgetsPath(p) == pc[p] = "rescan" /\ Settle(p, NoTime, {})

(* Bug: keeps the file it downloaded itself instead of the newest one. *)
RescanKeepsOwn(p) == pc[p] = "rescan" /\ Settle(p, stamp[p], Cached \ {stamp[p]})

(* Bug: no second scan, only the files the first one saw stale are unlinked. *)
RescanDropped(p) ==
    /\ pc[p] = "rescan"
    /\ Settle(p, stamp[p], {t \in Cached : stamp[p] - t >= MaxAge})

(* Second scan. *)
Rescan(p) ==
    /\ pc[p] = "rescan"
    /\ IF Cached = {}
       THEN /\ End(p, Failure("IndexError"))
            /\ UNCHANGED <<files, abandoned>>
       ELSE \E t \in Cached : IsNewest(t, Cached) /\ Settle(p, t, Cached \ {t})

(* One unlink(missing_ok=True) of the loop, newest victim first. *)
Unlink(p) ==
    /\ pc[p] = "clean"
    /\ \E v \in victims[p] :
        /\ IsNewest(v, victims[p])
        /\ files' = [files EXCEPT ![v] = Absent]
        /\ victims' = [victims EXCEPT ![p] = @ \ {v}]
        /\ pc' = [pc EXCEPT ![p] = AfterUnlinks(victims[p] \ {v})]
    /\ UNCHANGED <<now, started, stamp, path, staged, result, abandoned>>

(* read_text, json.loads and _latest_minor_from_releases on that file. *)
ReadResult(f) ==
    CASE f.kind = "absent" -> Failure("FileNotFoundError")
      [] f.kind = "good" -> [error |-> "none", asOf |-> f.asOf]
      [] f.kind = "norelease" -> [error |-> "UpstreamDataError", asOf |-> f.asOf]
      [] OTHER -> [error |-> "JSONDecodeError", asOf |-> f.asOf]

Read(p) ==
    /\ pc[p] = "read"
    /\ End(p, ReadResult(files[path[p]]))
    /\ UNCHANGED <<files, abandoned>>

Abandons(p) == abandoned \/ pc[p] \in {"rescan", "clean"}

(* mkdir, glob, mkstemp, unlink and read_text are not guarded. *)
LocalFsError(p) ==
    /\ pc[p] \in {"scan", "download", "rescan", "clean", "read"}
    /\ End(p, Failure("OSError"))
    /\ abandoned' = Abandons(p)
    /\ UNCHANGED files

(* The process is killed.  Its staged file stays, under a name no scan     *)
(* matches, so it is no longer part of this state.                         *)
Crash(p) ==
    /\ pc[p] # "idle"
    /\ End(p, Failure("crashed"))
    /\ abandoned' = Abandons(p)
    /\ UNCHANGED files

Tick ==
    /\ now < MaxTime
    /\ now' = now + 1
    /\ UNCHANGED <<files, pc, locals, abandoned>>

Step(p) ==
    \/ Call(p) \/ ScanFresh(p) \/ ScanStale(p)
    \/ BeginDownload(p) \/ Answer(p) \/ BodyComplete(p)
    \/ DownloadFails(p) \/ DownloadAborts(p)
    \/ Install(p) \/ InstallFails(p) \/ Rescan(p) \/ Unlink(p) \/ Read(p)
    \/ LocalFsError(p) \/ Crash(p)

Next == Tick \/ \E p \in Proc : Step(p)

Spec == Init /\ [][Next]_vars

-----------------------------------------------------------------------------

(* Every variable stays in its set; a process that downloads has its stamp, *)
(* and one that reads or unlinks has settled on a path.                     *)
TypeOK ==
    /\ now \in Time
    /\ files \in [Time -> File]
    /\ pc \in [Proc -> {"idle", "scan", "download", "request", "body", "install",
                        "rescan", "clean", "read"}]
    /\ started \in [Proc -> Time]
    /\ stamp \in [Proc -> Time \cup {NoTime}]
    /\ path \in [Proc -> Time \cup {NoTime}]
    /\ victims \in [Proc -> SUBSET Time]
    /\ staged \in [Proc -> File]
    /\ result \in [Proc -> Result]
    /\ abandoned \in BOOLEAN
    /\ \A p \in Proc :
        /\ pc[p] \in {"request", "body", "install", "rescan"} => stamp[p] \in Time
        /\ pc[p] \in {"clean", "read"} => path[p] \in Time

(* _download's docstring: a reader finds "the complete response, or nothing *)
(* at all" under a name a scan can return, whatever fails or dies midway.   *)
OnlyCompleteResponses == \A t \in Cached : files[t].kind \in Complete

(* The staged file exists exactly while its download is in progress: every *)
(* failure of _download removes it (only a kill leaves it behind).         *)
StagedFileOwned ==
    \A p \in Proc :
        staged[p].kind # "absent" <=> pc[p] \in {"request", "body", "install"}

(* A call never acts on a response older than one cache age before it      *)
(* began, whichever process fetched it and however the refreshes overlap.  *)
BoundedStaleness ==
    \A p \in Proc :
        result[p].error \in {"none", "UpstreamDataError", "JSONDecodeError"} =>
            result[p].asOf + MaxAge >= started[p]

(* No step ever removes the newest cache file, although every refresher    *)
(* deletes from a scan that may be out of date: this is why refreshed[0]   *)
(* exists and a refresh is never undone by a slower one.                   *)
NewestSurvives ==
    [][\A t \in Cached : \E u \in Cached' : u >= t]_files

(* Whenever two files coexist, some live process is bound to delete the    *)
(* older one, and the next refresh takes over from one that died: the      *)
(* second scan is what keeps files from piling up.                         *)
OldFilesReclaimed ==
    ~abandoned =>
        \A t, u \in Cached : t < u =>
            \E p \in Proc : pc[p] = "rescan" \/ (pc[p] = "clean" /\ t \in victims[p])

-----------------------------------------------------------------------------

(* What the repository says and the code does not do, so this is violated. *)
(* docs/errors_and_logging.md: when "loading cache files from disk" fails, *)
(* a Runtime Issue category error is raised.                               *)
CacheLoadFailuresCategorised ==
    \A p \in Proc : result[p].error # "FileNotFoundError"
=============================================================================
