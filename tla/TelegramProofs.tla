---------------------------- MODULE TelegramProofs ----------------------------
(***************************************************************************)
(* Proofs about the settings cache and the Telegram bot, for any settings, *)
(* any number of requests and loops, restarts and failures.                *)
(***************************************************************************)
EXTENDS TelegramProperties, TLAPS

-----------------------------------------------------------------------------
(* Types. *)

\* The part of the type invariant that is about Settings.
SettingsType ==
    /\ phase \in {"down", "seeding", "serving"}
    /\ todo \subseteq Keys
    /\ rows \in Table /\ cache \in Table
    /\ ready \in BOOLEAN /\ overlap \in BOOLEAN
    /\ req \in [Procs -> Request \cup {Idle}]
    /\ writes \in Nat /\ crashes \in Nat /\ failures \in Nat

\* The part that is about the bot.
BotType ==
    /\ seen \in Values \cup {Missing, None} /\ sig \in Values \cup {Missing, None}
    /\ bot \in (Values \ {Off}) \cup {None} /\ refused \in BOOLEAN

LEMMA TypeSplit == TelegramTypeOK <=> SettingsType /\ BotType
BY DEF TelegramTypeOK, SettingsType, BotType

\* A process that is at one of the steps of a refresh is not idle.
LEMMA NotIdle ==
    /\ \A b \in BOOLEAN : [op |-> "load", reader |-> b] # Idle
    /\ \A b \in BOOLEAN, t \in Table : [op |-> "store", reader |-> b, snap |-> t] # Idle
    /\ [op |-> "read"] # Idle
BY IdleAssumption DEF Request

LEMMA SettingsTypeInit == SettingsInit => SettingsType
<1> SUFFICES ASSUME SettingsInit PROVE SettingsType
  OBVIOUS
<1>1. rows \in Table /\ cache \in Table
  BY DEF SettingsInit, Table
<1> QED
  BY <1>1 DEF SettingsInit, SettingsType

LEMMA RefreshStepType ==
    ASSUME SettingsType, NEW p \in Procs, RefreshStep(p)
    PROVE  SettingsType'
<1>1. CASE Load(p)
  BY <1>1 DEF SettingsType, Load, Hold, Request, Free
<1>2. CASE LoadFails(p)
  BY <1>2 DEF SettingsType, LoadFails, Hold, Fail
<1>3. CASE Store(p)
  BY <1>3 DEF SettingsType, Store, Hold, Request, Free
<1> QED
  BY <1>1, <1>2, <1>3 DEF RefreshStep

LEMMA ColdReadType ==
    ASSUME SettingsType, NEW p \in Procs, ColdRead(p)
    PROVE  SettingsType'
BY DEF SettingsType, ColdRead, Refresh, Hold, Request

LEMMA ReadAfterType ==
    ASSUME SettingsType, NEW p \in Procs, ReadAfter(p)
    PROVE  SettingsType'
BY DEF SettingsType, ReadAfter, Hold

LEMMA SetAllType ==
    ASSUME SettingsType, NEW p \in Procs, NEW new \in Bodies, SetAll(p, new)
    PROVE  SettingsType'
<1>1. PICK ks \in SUBSET Keys : new \in [ks -> Values]
  BY DEF Bodies
<1>2. rows' \in Table
  BY <1>1 DEF SettingsType, SetAll, Table
<1>3. [op |-> "load", reader |-> FALSE] \in Request
  BY DEF Request
<1>4. req' \in [Procs -> Request \cup {Idle}] /\ overlap' \in BOOLEAN /\ writes' \in Nat
  BY <1>3 DEF SettingsType, SetAll, AfterWrite, Refresh, Hold
<1> QED
  BY <1>2, <1>4 DEF SettingsType, SetAll

LEMMA StartingType ==
    ASSUME SettingsType, Starting
    PROVE  SettingsType'
<1>1. CASE Start
  <2>1. failures' \in {failures, failures + 1} /\ failures' \in Nat
    BY <1>1 DEF SettingsType, Start, Fail
  <2>2. /\ phase' \in {"seeding", "serving"} /\ todo' \subseteq Keys /\ cache' \in Table
        /\ ready' \in BOOLEAN /\ overlap' \in BOOLEAN
        /\ UNCHANGED <<rows, req, writes, crashes>>
    BY <1>1, Zenon DEF SettingsType, Start
  <2> QED
    BY <2>1, <2>2, Zenon DEF SettingsType
<1>2. CASE Serve
  BY <1>2 DEF SettingsType, Serve
<1>3. ASSUME NEW k \in Keys, Seed(k) PROVE SettingsType'
  <2> DEFINE seeded == [rows EXCEPT ![k] = IF @ = Missing THEN Default[k] ELSE @]
  <2>1. seeded \in Table
    BY SettingsAssumption DEF SettingsType, Table
  <2>2. failures' \in Nat
    BY <1>3 DEF Seed, Fail, SettingsType
  <2>3. /\ rows' \in {rows, seeded} /\ cache' \in {cache, seeded}
        /\ todo' \subseteq todo /\ overlap' \in {overlap, TRUE}
        /\ UNCHANGED <<phase, ready, req, writes, crashes>>
    BY <1>3, Zenon DEF Seed
  <2>4. rows' \in Table /\ cache' \in Table
    BY <2>1, <2>3, Zenon DEF SettingsType
  <2>5. overlap' \in BOOLEAN /\ todo' \subseteq Keys
    BY <2>3, Zenon DEF SettingsType
  <2> QED
    BY <2>2, <2>3, <2>4, <2>5, Zenon DEF SettingsType
<1> QED
  BY <1>1, <1>2, <1>3 DEF Starting

LEMMA CrashType ==
    ASSUME SettingsType, Crash
    PROVE  SettingsType'
<1>1. cache' \in Table
  BY DEF Crash, Table
<1>2. req' \in [Procs -> Request \cup {Idle}]
  BY DEF Crash
<1>3. crashes' \in Nat
  BY DEF SettingsType, Crash
<1>4. phase' = "down" /\ todo' = {} /\ ready' = FALSE /\ UNCHANGED <<rows, overlap, writes, failures>>
  BY DEF Crash
<1> QED
  BY <1>1, <1>2, <1>3, <1>4, Zenon DEF SettingsType

-----------------------------------------------------------------------------
(* Telegram only adds to Settings. *)

LEMMA StepOfSettings == [Next]_telegramVars => [SettingsNext]_settingsVars
<1> SUFFICES ASSUME [Next]_telegramVars PROVE [SettingsNext]_settingsVars
  OBVIOUS
<1>1. CASE Stop
  BY <1>1 DEF Stop, SettingsNext
<1>2. CASE LoopStep
  BY <1>2, BotAssumption
     DEF LoopStep, Read, ReadColdCache, Apply, SettingsNext, settingsVars
<1>3. CASE Starting
  BY <1>3 DEF Starting, SettingsNext
<1>4. ASSUME NEW p \in Requests, RequestStep(p) \/ ColdRead(p) \/ \E new \in Bodies : SetAll(p, new)
      PROVE  SettingsNext
  BY <1>4 DEF Requests, RequestStep, SettingsNext
<1>5. CASE UNCHANGED telegramVars
  BY <1>5 DEF telegramVars
<1> QED
  BY <1>1, <1>2, <1>3, <1>4, <1>5 DEF Next

\* telegram.go, reconcile: the bot's loop is a reader of the settings like any
\* other; every behaviour of Telegram is one of Settings.
THEOREM TelegramUsesSettings == Spec => SettingsSpec
<1>1. Init => SettingsInit
  BY DEF Init
<1> QED
  BY <1>1, StepOfSettings, PTL DEF Spec, SettingsSpec

LEMMA SettingsTypeNext == SettingsType /\ [SettingsNext]_settingsVars => SettingsType'
<1> SUFFICES ASSUME SettingsType, [SettingsNext]_settingsVars PROVE SettingsType'
  OBVIOUS
<1>1. CASE Starting
  BY <1>1, StartingType
<1>2. CASE Crash
  BY <1>2, CrashType
<1>3. ASSUME NEW p \in Procs, RefreshStep(p) \/ ColdRead(p) \/ ReadAfter(p)
      PROVE  SettingsType'
  BY <1>3, RefreshStepType, ColdReadType, ReadAfterType
<1>4. ASSUME NEW p \in Procs, NEW new \in Bodies, SetAll(p, new)
      PROVE  SettingsType'
  BY <1>4, SetAllType
<1>5. CASE UNCHANGED settingsVars
  BY <1>5 DEF SettingsType, settingsVars
<1> QED
  BY <1>1, <1>2, <1>3, <1>4, <1>5 DEF SettingsNext, Starting

LEMMA BotTypeNext == SettingsType /\ BotType /\ [Next]_telegramVars => BotType'
<1> SUFFICES ASSUME SettingsType, BotType, [Next]_telegramVars PROVE BotType'
  OBVIOUS
<1>1. CASE Stop
  BY <1>1 DEF Stop, BotType
<1>2. CASE UNCHANGED botVars
  BY <1>2 DEF botVars, BotType
<1>3. CASE Read \/ ReadColdCache
  <2>1. cache[BotKey] \in Values \cup {Missing}
    BY BotAssumption DEF SettingsType, Table
  <2> QED
    BY <1>3, <2>1 DEF Read, ReadColdCache, BotType
<1>4. CASE Apply
  <2>1. seen \in Values \cup {Missing} /\ Sig(seen) \in Values \cup {Missing}
    BY <1>4 DEF Apply, BotType, Sig
  <2>2. Wanted(seen) \in (Values \ {Off}) \cup {None}
    BY <2>1 DEF Wanted
  <2>3. seen' = None
    BY <1>4 DEF Apply
  <2>4. CASE Sig(seen) = sig
    BY <1>4, <2>3, <2>4 DEF Apply, BotType
  <2>5. CASE Sig(seen) # sig
    <3>1. sig' = Sig(seen) /\ bot' \in {Wanted(seen), None} /\ refused' \in BOOLEAN
      BY <1>4, <2>5, Zenon DEF Apply
    <3> QED
      BY <2>1, <2>2, <2>3, <3>1, Zenon DEF BotType
  <2> QED
    BY <2>4, <2>5
<1> QED
  BY <1>1, <1>2, <1>3, <1>4
     DEF Next, LoopStep, RequestStep, telegramVars, botVars

\* telegram.go, system_config.go: in every reachable state the tables are
\* tables, and the bot that runs is one the settings may ask for.
THEOREM TelegramTypes == Spec => []TelegramTypeOK
<1>1. Init => SettingsType /\ BotType
  BY SettingsTypeInit DEF Init, BotType
<1>2. SettingsType /\ BotType /\ [Next]_telegramVars => (SettingsType /\ BotType)'
  BY StepOfSettings, SettingsTypeNext, BotTypeNext
<1> QED
  BY <1>1, <1>2, TypeSplit, PTL DEF Spec

-----------------------------------------------------------------------------
(* The cache. *)

\* Outside of serving nobody is at work, and a process that is down has no
\* warm cache.
QuietStart ==
    /\ phase # "serving" => \A p \in Procs : Free(p)
    /\ phase = "down" => ready = FALSE

\* While refreshes do not meet, one process at most is refreshing, and what it
\* has loaded is what the rows still are: a write would have met it.
Alone ==
    overlap = FALSE =>
        /\ \A p, q \in Refreshing : p = q
        /\ \A p \in Refreshing : req[p].op = "store" => req[p].snap = rows

Fresh == ready = TRUE /\ Refreshing = {} /\ overlap = FALSE => cache = rows

FreshInv == SettingsType /\ QuietStart /\ Alone /\ Fresh

LEMMA FreshInit == SettingsInit => FreshInv
BY SettingsTypeInit, SMT DEF SettingsInit, FreshInv, QuietStart, Alone, Fresh, Refreshing, Free

\* The steps of a refresh by p: which processes are refreshing afterwards.
LEMMA Joins ==
    ASSUME SettingsType, NEW p \in Procs, NEW b \in BOOLEAN,
           Hold(p, [op |-> "load", reader |-> b])
    PROVE  Refreshing' = Refreshing \cup {p} /\ req'[p].op = "load"
<1>1. [op |-> "load", reader |-> b] # Idle
  BY NotIdle
<1> QED
  BY <1>1 DEF SettingsType, Hold, Refreshing, Free

LEMMA Leaves ==
    ASSUME SettingsType, NEW p \in Procs, NEW r, Hold(p, r), r = Idle \/ r = [op |-> "read"]
    PROVE  Refreshing' = Refreshing \ {p} /\ \A q \in Refreshing' : req'[q] = req[q]
BY DEF SettingsType, Hold, Refreshing, Free

\* A call of refreshCache, whatever it comes after: the rows may have changed.
LEMMA RefreshFresh ==
    ASSUME FreshInv, SettingsType', Serving, NEW p \in Procs, NEW b \in BOOLEAN, Refresh(p, b),
           Free(p), phase' = phase
    PROVE  FreshInv'
<1>1. Refreshing' = Refreshing \cup {p} /\ req'[p].op = "load"
  BY Joins DEF FreshInv, Refresh
<1>2. overlap' = FALSE => Refreshing' = {p}
  BY <1>1 DEF Refresh
<1>3. Alone'
  BY <1>1, <1>2 DEF Alone
<1>4. QuietStart' /\ Fresh'
  BY <1>1 DEF QuietStart, Fresh, Serving
<1> QED
  BY <1>3, <1>4 DEF FreshInv

LEMMA LoadFresh ==
    ASSUME FreshInv, SettingsType', NEW p \in Procs, Load(p)
    PROVE  FreshInv'
<1> DEFINE held == [op |-> "store", reader |-> req[p].reader, snap |-> rows]
<1>1. req[p] \in Request /\ req[p].op = "load" /\ rows \in Table /\ p \in Refreshing
  BY DEF FreshInv, SettingsType, Load, Free, Refreshing
<1>2. req[p].reader \in BOOLEAN
  BY <1>1 DEF Request
<1>3. held # Idle
  BY <1>1, <1>2, NotIdle
<1>4. req' = [req EXCEPT ![p] = held] /\ UNCHANGED <<phase, rows, cache, ready, overlap>>
  BY DEF Load, Hold
<1>5. req'[p] = held /\ \A q \in Procs \ {p} : req'[q] = req[q]
  BY <1>4 DEF FreshInv, SettingsType
<1>6. held.op = "store" /\ held.snap = rows
  OBVIOUS
<1> HIDE DEF held
<1>7. Refreshing' = Refreshing
  BY <1>1, <1>3, <1>5, <1>6 DEF Refreshing, Free
<1>8. Alone'
  BY <1>1, <1>4, <1>5, <1>6, <1>7 DEF FreshInv, Alone, Refreshing
<1>9. Fresh'
  BY <1>4, <1>7 DEF FreshInv, Fresh
<1>10. QuietStart'
  BY <1>1, <1>4 DEF FreshInv, QuietStart, Refreshing
<1> QED
  BY <1>8, <1>9, <1>10 DEF FreshInv

\* p ends its refresh with an error, or is past it.
LEMMA StoreFresh ==
    ASSUME FreshInv, SettingsType', NEW p \in Procs, Store(p)
    PROVE  FreshInv'
<1>1. p \in Refreshing /\ req[p].op = "store"
  BY DEF Store, Refreshing
<1>2. PICK r : (r = Idle \/ r = [op |-> "read"]) /\ Hold(p, r)
  BY DEF Store
<1>3. Refreshing' = Refreshing \ {p} /\ \A q \in Refreshing' : req'[q] = req[q]
  BY <1>2, Leaves DEF FreshInv
<1>4. cache' = req[p].snap /\ UNCHANGED <<phase, rows, overlap>> /\ ready' = TRUE
  BY DEF Store
<1>5. overlap = FALSE => Refreshing' = {} /\ cache' = rows'
  BY <1>1, <1>3, <1>4 DEF FreshInv, Alone
<1>6. Alone' /\ Fresh'
  BY <1>4, <1>5 DEF Alone, Fresh
<1>7. phase = "serving"
  BY <1>1 DEF FreshInv, QuietStart, Refreshing
<1>8. QuietStart'
  BY <1>4, <1>7 DEF QuietStart
<1> QED
  BY <1>6, <1>8 DEF FreshInv

LEMMA LoadFailsFresh ==
    ASSUME FreshInv, SettingsType', NEW p \in Procs, LoadFails(p)
    PROVE  FreshInv'
<1>1. overlap' = TRUE /\ UNCHANGED <<phase, ready>> /\ ~Free(p)
  BY DEF LoadFails
<1>2. phase = "serving"
  BY <1>1 DEF FreshInv, QuietStart
<1> QED
  BY <1>1, <1>2 DEF FreshInv, Alone, Fresh, QuietStart

LEMMA ReadAfterFresh ==
    ASSUME FreshInv, SettingsType', NEW p \in Procs, ReadAfter(p)
    PROVE  FreshInv'
<1>1. ~Free(p) /\ p \notin Refreshing /\ Hold(p, Idle) /\ UNCHANGED <<phase, rows, cache, ready, overlap>>
  BY DEF ReadAfter, Refreshing
<1>2. Refreshing' = Refreshing /\ \A q \in Refreshing' : req'[q] = req[q]
  BY <1>1, Leaves DEF FreshInv
<1>3. phase = "serving"
  BY <1>1 DEF FreshInv, QuietStart
<1>4. Alone' /\ Fresh'
  BY <1>1, <1>2 DEF FreshInv, Alone, Fresh
<1>5. QuietStart'
  BY <1>1, <1>3 DEF QuietStart
<1> QED
  BY <1>4, <1>5 DEF FreshInv

LEMMA StartingFresh ==
    ASSUME FreshInv, SettingsType', Starting
    PROVE  FreshInv'
<1>1. \A p \in Procs : Free(p) /\ Free(p)'
  BY DEF FreshInv, QuietStart, Starting, Start, Serve, Seed, Free
<1>2. Refreshing' = {} /\ Refreshing = {}
  BY <1>1 DEF Refreshing
<1>3. Alone'
  BY <1>2 DEF Alone
<1>4. QuietStart'
  BY <1>1, Zenon DEF QuietStart, Starting, Start, Serve, Seed
<1>5. ASSUME Start PROVE Fresh'
  <2>1. ready = FALSE
    BY <1>5 DEF Start, FreshInv, QuietStart
  <2>2. rows' = rows /\ (cache' = rows \/ ready' = ready)
    BY <1>5, Zenon DEF Start
  <2> QED
    BY <2>1, <2>2, Zenon DEF Fresh
<1>6. ASSUME Serve PROVE Fresh'
  BY <1>2, <1>6, Zenon DEF Serve, FreshInv, Fresh
<1>7. ASSUME NEW k \in Keys, Seed(k) PROVE Fresh'
  <2>1. \/ cache' = rows'
        \/ overlap' = TRUE
        \/ UNCHANGED <<rows, cache, overlap>>
    BY <1>7, Zenon DEF Seed
  <2>2. ready' = ready
    BY <1>7, Zenon DEF Seed
  <2> QED
    BY <1>2, <2>1, <2>2, Zenon DEF FreshInv, Fresh
<1> QED
  BY <1>3, <1>4, <1>5, <1>6, <1>7 DEF FreshInv, Starting

LEMMA FreshNext == FreshInv /\ [SettingsNext]_settingsVars => FreshInv'
<1> SUFFICES ASSUME FreshInv, [SettingsNext]_settingsVars PROVE FreshInv'
  OBVIOUS
<1>1. SettingsType'
  BY SettingsTypeNext DEF FreshInv
<1>2. CASE Starting
  BY <1>1, <1>2, StartingFresh
<1>3. CASE Crash
  <2>1. Refreshing' = {} /\ \A p \in Procs : Free(p)'
    BY <1>3 DEF Crash, Refreshing, Free
  <2>2. ready' = FALSE
    BY <1>3 DEF Crash
  <2> QED
    BY <1>1, <2>1, <2>2 DEF FreshInv, QuietStart, Alone, Fresh
<1>4. ASSUME NEW p \in Procs, RefreshStep(p) PROVE FreshInv'
  BY <1>1, <1>4, LoadFresh, LoadFailsFresh, StoreFresh DEF RefreshStep
<1>5. ASSUME NEW p \in Procs, ColdRead(p) PROVE FreshInv'
  BY <1>1, <1>5, RefreshFresh DEF ColdRead
<1>6. ASSUME NEW p \in Procs, ReadAfter(p) PROVE FreshInv'
  BY <1>1, <1>6, ReadAfterFresh
<1>7. ASSUME NEW p \in Procs, NEW new \in Bodies, SetAll(p, new) PROVE FreshInv'
  BY <1>1, <1>7, RefreshFresh DEF SetAll, AfterWrite
<1>8. CASE UNCHANGED settingsVars
  <2>1. UNCHANGED <<phase, rows, cache, ready, req, overlap>>
    BY <1>8 DEF settingsVars
  <2>2. Refreshing' = Refreshing /\ \A p \in Procs : Free(p)' = Free(p)
    BY <2>1 DEF Refreshing, Free
  <2> QED
    BY <1>1, <2>1, <2>2 DEF FreshInv, QuietStart, Alone, Fresh
<1> QED
  BY <1>2, <1>3, <1>4, <1>5, <1>6, <1>7, <1>8 DEF SettingsNext, Starting

\* system_config.go, refreshCache: for any number of readers, writers, restarts
\* and failures a warm cache between refreshes is the table, as long as no
\* refresh has failed or met another one since the last alone.
THEOREM CacheIsFresh == Spec => []CacheFresh
<1>1. FreshInv => CacheFresh
  BY DEF FreshInv, Fresh, CacheFresh, SettingsType
<1>2. SettingsSpec => []FreshInv
  BY FreshInit, FreshNext, PTL DEF SettingsSpec
<1> QED
  BY <1>1, <1>2, TelegramUsesSettings, PTL
=============================================================================
