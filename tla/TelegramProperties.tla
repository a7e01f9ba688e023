-------------------------- MODULE TelegramProperties --------------------------
(***************************************************************************)
(* What must hold of Settings and Telegram, and what comments claim.       *)
(***************************************************************************)
EXTENDS Telegram

\* The rows, the cache and what each process holds of them are tables; the
\* bot is one the settings may ask for.
TelegramTypeOK ==
    /\ phase \in {"down", "seeding", "serving"}
    /\ todo \subseteq Keys
    /\ rows \in Table /\ cache \in Table
    /\ ready \in BOOLEAN /\ overlap \in BOOLEAN
    /\ req \in [Procs -> Request \cup {Idle}]
    /\ writes \in Nat /\ crashes \in Nat /\ failures \in Nat
    /\ seen \in Values \cup {Missing, None} /\ sig \in Values \cup {Missing, None}
    /\ bot \in (Values \ {Off}) \cup {None} /\ refused \in BOOLEAN

\* system_config.go, SetAll: between refreshes a warm cache is the table, from
\* the first row seeded on and across restarts, unless a refresh failed or met
\* another one: the older of two snapshots may then be the one stored last,
\* and stays until the next write.
CacheFresh == ready /\ Refreshing = {} /\ ~overlap => cache = rows

\* telegram.go, reconcile: when settings no longer change the bot they ask for
\* is the one that runs, or none does because Telegram refused it; where the
\* portal offers to link a chat, it is to the bot of the settings. (A refused
\* bot is not started again: the settings it was refused with are remembered.)
BotFollowsSettings ==
    <>[](/\ ready /\ (refused \/ bot = Wanted(cache[BotKey]))
         /\ Available => bot = cache[BotKey])

-----------------------------------------------------------------------------
(* What comments of the code say, and some behaviour contradicts. *)

\* admin_system.go: "Invalid edits are rejected immediately".
RejectedNotStored == \A k \in Keys : <<k, rows[k]>> \notin Rejected

\* telegram.go, reconcile "compares the current config to the running bot and
\* starts/stops the bot as needed": a bot the settings keep asking for runs.
BotRuns == <>[](ready /\ bot = Wanted(cache[BotKey]))
=============================================================================
