--------------------------- MODULE RelationsSnapshot ---------------------------
(***************************************************************************)
(* What open_parselmouth_database promises its callers, without saying     *)
(* how: the database file is only ever a whole build of one published      *)
(* relations table, or of none of its rows, replaced as a unit, and a      *)
(* connection keeps seeing the table it was opened on                      *)
(* (docs/pypi_conda_mapping.md, "swap out the database").  It does not     *)
(* promise that replacements go forward.                                   *)
(***************************************************************************)
EXTENDS Integers

CONSTANTS
    Proc,        \* processes sharing one cache directory
    Url,         \* relations tables (channels)
    MaxVersion   \* bound of the model: publications per table

VARIABLES
    upstream,    \* upstream[u]: version of table u being served
    database,    \* the table in the file, NoTable before the first build
    view         \* view[p]: the table p's connection reads

vars == <<upstream, database, view>>

NoRows == 0
NoTable == [url |-> "none", version |-> NoRows]

Init ==
    /\ upstream = [u \in Url |-> 1]
    /\ database = NoTable
    /\ view = [p \in Proc |-> NoTable]

Publish(u) ==
    /\ upstream[u] < MaxVersion
    /\ upstream' = [upstream EXCEPT ![u] = @ + 1]
    /\ UNCHANGED <<database, view>>

(* A complete table some opener downloaded, perhaps a while ago, or the    *)
(* NoRows that a connection dropped at the start leaves of one.            *)
Replace(u, v) ==
    /\ database' = [url |-> u, version |-> v]
    /\ UNCHANGED <<upstream, view>>

Open(p) ==
    /\ database # NoTable
    /\ view' = [view EXCEPT ![p] = database]
    /\ UNCHANGED <<upstream, database>>

Close(p) ==
    /\ view' = [view EXCEPT ![p] = NoTable]
    /\ UNCHANGED <<upstream, database>>

Next ==
    \/ \E u \in Url : Publish(u) \/ \E v \in {NoRows} \cup 1 .. upstream[u] : Replace(u, v)
    \/ \E p \in Proc : Open(p) \/ Close(p)

Spec == Init /\ [][Next]_vars
=============================================================================
