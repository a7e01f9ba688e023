----------------------------- MODULE Telegram -----------------------------
(***************************************************************************)
(* The Telegram bot (service/telegram.go): a loop that every 15 seconds    *)
(* compares the settings with those it has acted on last, and stops and    *)
(* starts the bot.                                                         *)
(*                                                                         *)
(* Composed with Settings: the loop is one of its processes and reads its  *)
(* cache, warm or cold. telegram.enabled and telegram.bot_token are one    *)
(* setting, the token or Off.                                              *)
(***************************************************************************)
EXTENDS Settings

CONSTANTS
    BotKey, Off,        \* the setting, its value without a bot
    Loop,               \* the reconciling process
    None                \* no bot, nothing read, nothing acted on

ASSUME BotAssumption ==
    BotKey \in Keys /\ Off \in Values /\ None \notin Values \cup {Missing} /\ Loop \in Procs

VARIABLES
    seen,       \* the settings reconcile has read
    sig,        \* s.sig
    bot,        \* the token s.bot polls with
    refused     \* history: the last start has failed

botVars == <<seen, sig, bot, refused>>
telegramVars == <<settingsVars, botVars>>

SigSwitch(v) == IF v = Off THEN Off ELSE "on"                           \* mutant

\* What reconcile remembers of the settings it has acted on.
Sig(v) == v

\* The bot the settings ask for.
Wanted(v) == IF v \in {Off, Missing} THEN None ELSE v

\* reconcile: the settings, from the cache.
Read ==
    /\ Serving /\ Free(Loop) /\ seen = None /\ ready
    /\ seen' = cache[BotKey]
    /\ UNCHANGED <<settingsVars, sig, bot, refused>>

\* reconcile: from a cold cache, once it has been refreshed.
ReadColdCache ==
    /\ ReadAfter(Loop)
    /\ seen' = cache[BotKey]
    /\ UNCHANGED <<sig, bot, refused>>

\* reconcile, under botMu: the bot is stopped, the settings are remembered,
\* and a bot is started if they ask for one; Telegram may refuse.
Apply ==
    /\ seen # None
    /\ seen' = None
    /\ IF Sig(seen) = sig
       THEN UNCHANGED <<sig, bot, refused>>
       ELSE /\ sig' = Sig(seen)
            /\ \/ bot' = Wanted(seen) /\ refused' = FALSE
               \/ Wanted(seen) # None /\ bot' = None /\ refused' = TRUE
    /\ UNCHANGED settingsVars

\* The bot and the loop end with the process.
Stop ==
    /\ Crash
    /\ seen' = None /\ sig' = None /\ bot' = None /\ refused' = FALSE

\* StatusForAdmin: is linking a chat offered?
Available == bot # None /\ cache[BotKey] \notin {Off, Missing}

Requests == Procs \ {Loop}

Init ==
    /\ SettingsInit
    /\ seen = None /\ sig = None /\ bot = None /\ refused = FALSE

Starting == Start \/ Serve \/ \E k \in Keys : Seed(k)

LoopStep ==
    \/ Read \/ ReadColdCache \/ Apply
    \/ RefreshStep(Loop) /\ UNCHANGED botVars
    \/ seen = None /\ ColdRead(Loop) /\ UNCHANGED botVars

RequestStep(p) == (RefreshStep(p) \/ ReadAfter(p)) /\ UNCHANGED botVars

Next ==
    \/ Stop \/ LoopStep
    \/ Starting /\ UNCHANGED botVars
    \/ \E p \in Requests :
          \/ RequestStep(p)
          \/ ColdRead(p) /\ UNCHANGED botVars
          \/ \E new \in Bodies : SetAll(p, new) /\ UNCHANGED botVars

\* Nothing but a crash stops a loop or a request halfway, and a process that
\* ended is started again.
Fairness ==
    /\ WF_telegramVars(Starting /\ UNCHANGED botVars)
    /\ WF_telegramVars(LoopStep)
    /\ \A p \in Requests : WF_telegramVars(RequestStep(p))

Spec == Init /\ [][Next]_telegramVars /\ Fairness
=============================================================================
