----------------------------- MODULE Settings -----------------------------
(***************************************************************************)
(* Runtime settings (service/system_config.go): the rows of system_configs,*)
(* the copy of them every reader uses, and the seeding of missing rows at  *)
(* start-up.                                                               *)
(*                                                                         *)
(* A refresh is two steps, the SELECT and the replacement of the cache     *)
(* under the lock, and any number of them overlap: one after each write,   *)
(* one for each reader that finds the cache cold. A process is a request   *)
(* or a background loop. The admin's PUT stores first and checks the       *)
(* values afterwards.                                                      *)
(***************************************************************************)
EXTENDS Integers

CONSTANTS
    Keys, Default,        \* settings, the values they are seeded with
    Values, Missing,      \* what a setting may be set to; no row
    Rejected,             \* <<key, value>> pairs the admin's PUT answers 400 to
    Procs, Idle,          \* requests and loops of the process
    MaxWrites, MaxCrashes, MaxFailures   \* bounds: PUTs, restarts, database errors

ASSUME SettingsAssumption ==
    /\ Missing \notin Values
    /\ Default \in [Keys -> Values]
    /\ MaxWrites \in Nat /\ MaxCrashes \in Nat /\ MaxFailures \in Nat

Table == [Keys -> Values \cup {Missing}]

\* Where a process is that is not idle.
Request ==
    [op : {"load"}, reader : BOOLEAN]
        \cup [op : {"store"}, reader : BOOLEAN, snap : Table]
        \cup [op : {"read"}]

ASSUME IdleAssumption == Idle \notin Request

VARIABLES
    phase,      \* "down", "seeding", "serving"
    todo,       \* keys ApplyOverrides has found missing and not seeded yet
    rows,       \* system_configs
    cache,      \* s.cache
    ready,      \* s.ready
    req,        \* where each process is
    overlap,    \* history: a refresh failed or met another one since the last alone
    writes, crashes, failures

settingsVars == <<phase, todo, rows, cache, ready, req, overlap, writes, crashes, failures>>

Free(p) == req[p] = Idle

Hold(p, r) == req' = [req EXCEPT ![p] = r]

Serving == phase = "serving"

\* Processes in the middle of refreshCache.
Refreshing == {p \in Procs : ~Free(p) /\ req[p].op \in {"load", "store"}}

Fail == failures < MaxFailures /\ failures' = failures + 1

-----------------------------------------------------------------------------
(* refreshCache. *)

\* Its call; a reader goes on to read the cache.
Refresh(p, reader) ==
    /\ Hold(p, [op |-> "load", reader |-> reader])
    /\ overlap' = (Refreshing # {})

\* The SELECT.
Load(p) ==
    /\ ~Free(p) /\ req[p].op = "load"
    /\ Hold(p, [op |-> "store", reader |-> req[p].reader, snap |-> rows])
    /\ UNCHANGED <<phase, todo, rows, cache, ready, overlap, writes, crashes, failures>>

\* The SELECT fails: the caller returns the error, the cache stays.
LoadFails(p) ==
    /\ ~Free(p) /\ req[p].op = "load" /\ Fail
    /\ Hold(p, Idle)
    /\ overlap' = TRUE
    /\ UNCHANGED <<phase, todo, rows, cache, ready, writes, crashes>>

\* s.cache is replaced as a whole.
Store(p) ==
    /\ ~Free(p) /\ req[p].op = "store"
    /\ cache' = req[p].snap
    /\ ready' = TRUE
    /\ Hold(p, IF req[p].reader THEN [op |-> "read"] ELSE Idle)
    /\ UNCHANGED <<phase, todo, rows, overlap, writes, crashes, failures>>

-----------------------------------------------------------------------------
(* Get, GetAll. *)

\* On a warm cache a read changes nothing; on a cold one it refreshes first.
ColdRead(p) ==
    /\ Serving /\ Free(p) /\ ~ready
    /\ Refresh(p, TRUE)
    /\ UNCHANGED <<phase, todo, rows, cache, ready, writes, crashes, failures>>

\* The read after that refresh: of the cache as it is then.
ReadAfter(p) ==
    /\ ~Free(p) /\ req[p].op = "read"
    /\ Hold(p, Idle)
    /\ UNCHANGED <<phase, todo, rows, cache, ready, overlap, writes, crashes, failures>>

-----------------------------------------------------------------------------
(* SetAll, from the admin's PUT. *)

WrittenOnly(p) == Hold(p, Idle) /\ overlap' = overlap              \* mutant

\* What SetAll does after its transaction.
AfterWrite(p) == Refresh(p, FALSE)

\* The rows of the body in one transaction. The handler checks the values
\* after SetAll has returned: a rejected one is in the table by then.
SetAll(p, new) ==
    /\ Serving /\ Free(p) /\ writes < MaxWrites
    /\ rows' = [k \in Keys |-> IF k \in DOMAIN new THEN new[k] ELSE rows[k]]
    /\ writes' = writes + 1
    /\ AfterWrite(p)
    /\ UNCHANGED <<phase, todo, cache, ready, crashes, failures>>

Bodies == UNION {[ks -> Values] : ks \in SUBSET Keys \ {{}}}

-----------------------------------------------------------------------------
(* Start-up. *)

\* NewSystemConfigService warms the cache and ApplyOverrides reads it. If the
\* database answers neither, the service runs on config.yml with a cold cache.
Start ==
    /\ phase = "down"
    /\ \/ /\ phase' = "seeding" /\ cache' = rows /\ ready' = TRUE
          /\ todo' = {k \in Keys : rows[k] = Missing}
          /\ UNCHANGED failures
       \/ /\ phase' = "serving" /\ Fail
          /\ UNCHANGED <<todo, cache, ready>>
    /\ overlap' = FALSE
    /\ UNCHANGED <<rows, req, writes, crashes>>

\* persistDefault: an insert that leaves a row that is there, and a refresh.
\* Either may fail; ApplyOverrides goes on.
Seed(k) ==
    /\ phase = "seeding" /\ k \in todo
    /\ todo' = todo \ {k}
    /\ LET seeded == [rows EXCEPT ![k] = IF @ = Missing THEN Default[k] ELSE @]
       IN \/ rows' = seeded /\ cache' = seeded /\ UNCHANGED <<overlap, failures>>
          \/ rows' = seeded /\ overlap' = TRUE /\ UNCHANGED cache /\ Fail
          \/ UNCHANGED <<rows, cache, overlap>> /\ Fail
    /\ UNCHANGED <<phase, ready, req, writes, crashes>>

Serve ==
    /\ phase = "seeding" /\ todo = {}
    /\ phase' = "serving"
    /\ UNCHANGED <<todo, rows, cache, ready, req, overlap, writes, crashes, failures>>

\* The process ends: the rows stay.
Crash ==
    /\ phase # "down" /\ crashes < MaxCrashes
    /\ phase' = "down" /\ todo' = {}
    /\ cache' = [k \in Keys |-> Missing] /\ ready' = FALSE
    /\ req' = [p \in Procs |-> Idle]
    /\ crashes' = crashes + 1
    /\ UNCHANGED <<rows, overlap, writes, failures>>

\* A fresh database, or one an older version has left without some rows.
SettingsInit ==
    /\ phase = "down" /\ todo = {}
    /\ rows \in {t \in [Keys -> Values \cup {Missing}] :
                    \A k \in Keys : t[k] \in {Default[k], Missing}}
    /\ cache = [k \in Keys |-> Missing] /\ ready = FALSE
    /\ req = [p \in Procs |-> Idle]
    /\ overlap = FALSE
    /\ writes = 0 /\ crashes = 0 /\ failures = 0

RefreshStep(p) == Load(p) \/ LoadFails(p) \/ Store(p)

SettingsNext ==
    \/ Start \/ Serve \/ Crash \/ \E k \in Keys : Seed(k)
    \/ \E p \in Procs : RefreshStep(p) \/ ColdRead(p) \/ ReadAfter(p)
    \/ \E p \in Procs, new \in Bodies : SetAll(p, new)

SettingsSpec == SettingsInit /\ [][SettingsNext]_settingsVars
=============================================================================
