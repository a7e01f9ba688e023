------------------------------ MODULE Requests ------------------------------
(***************************************************************************)
(* The requests a process works on at the same time. A handler reads first *)
(* and writes later; in between other requests run. It is a slot, which    *)
(* holds what the handler has read (its local variables) and where it has  *)
(* come to, or nothing.                                                    *)
(***************************************************************************)
CONSTANTS
    Slots,                \* requests, and handlers of the bot, at the same time
    Idle                  \* no request

VARIABLE
    req         \* what a request has read and not acted on yet

Free(p) == req[p] = Idle

Hold(p, r) == req' = [req EXCEPT ![p] = r]

Done(p) == Hold(p, Idle)
=============================================================================
