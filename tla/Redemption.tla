------------------------------ MODULE Redemption ------------------------------
(***************************************************************************)
(* Redemption codes (service/redemption.go, model/redemption_code.go): how *)
(* often a code is redeemed and by whom, when the requests of several      *)
(* users, or several requests of one user, overlap.                        *)
(*                                                                         *)
(* A request is a slot: it reads the code and the records first, and ends  *)
(* in one transaction. What a benefit does to the wallet, the plan and the *)
(* traffic of the user is in Billing and Traffic; here it is counted.      *)
(***************************************************************************)
EXTENDS Integers, FiniteSets, Requests

CONSTANTS
    Holders,              \* the users
    Codes, Extending,     \* redemption codes; those that extend an expiry
    MaxUses               \* of a code

ASSUME RedemptionAssumption ==
    Extending \subseteq Codes /\ MaxUses \in [Codes -> Nat \ {0}]

VARIABLES
    account,    \* users: is the row there, and the admin's switch
    code,       \* redemption_codes
    record,     \* redemption_records: pairs of code and user
    gift,       \* history: times the benefit of a code was applied to a user
    miscounted  \* history: codes whose count was written from a stale one

vars == <<account, code, record, req, gift, miscounted>>

Account == [row : {"live", "gone"}, enabled : BOOLEAN]
Code == [row : {"none", "live", "expired", "gone"}, used : Nat]

Exists(u) == account[u].row = "live"

-----------------------------------------------------------------------------
\* BatchGenerate, DeleteAdmin, and the clock.
Generate(c) == code[c].row = "none" /\ code' = [code EXCEPT ![c].row = "live"]

DeleteCode(c) ==
    code[c].row \in {"live", "expired"} /\ code' = [code EXCEPT ![c].row = "gone"]

ExpireCode(c) == code[c].row = "live" /\ code' = [code EXCEPT ![c].row = "expired"]

CodeStep(c) ==
    /\ Generate(c) \/ DeleteCode(c) \/ ExpireCode(c)
    /\ UNCHANGED <<account, record, req, gift, miscounted>>

Redeemed(c, u) == <<c, u>> \in record

RedeemableAtLast(c) == code[c].row = "live" /\ code[c].used <= MaxUses[c]   \* mutant

\* ~Exhausted
Redeemable(c) == code[c].row = "live" /\ code[c].used < MaxUses[c]

\* Redeem, its reads.
RedeemCheck(p, u, c) ==
    /\ Free(p)
    /\ Redeemable(c) /\ ~Redeemed(c, u)
    /\ Hold(p, [person |-> u, code |-> c, before |-> code[c].used])
    /\ UNCHANGED <<account, code, record, gift, miscounted>>

RecordAgain(c, u) == TRUE                       \* mutant: without the unique index

\* The unique index of redemption_records.
MayRecord(c, u) == ~Redeemed(c, u)

\* The count is written from the one read before the transaction.
Counted(p) == req[p].before + 1

\* Redeem, its transaction: benefit, record and count, or nothing.
RedeemCommit(p) ==
    /\ ~Free(p)
    /\ LET u == req[p].person
           c == req[p].code
       IN /\ Exists(u) /\ MayRecord(c, u) /\ code[c].row # "gone"
          /\ gift' = [gift EXCEPT ![u][c] = @ + 1]
          /\ account' = [account EXCEPT ![u].enabled = @ \/ c \in Extending]
          /\ record' = record \cup {<<c, u>>}
          /\ code' = [code EXCEPT ![c].used = Counted(p)]
          /\ miscounted' = IF req[p].before = code[c].used THEN miscounted ELSE miscounted \cup {c}
    /\ Done(p)

\* A check of the transaction fails, the database reports an error, or the
\* process ends: nothing was written.
Abandon(p) == ~Free(p) /\ Done(p) /\ UNCHANGED <<account, code, record, gift, miscounted>>

-----------------------------------------------------------------------------
\* AdminUserHandler.Update, on the switch.
SwitchAccount(u) ==
    /\ Exists(u)
    /\ account' = [account EXCEPT ![u].enabled = ~@]
    /\ UNCHANGED <<code, record, req, gift, miscounted>>

\* UserService.Delete: the records stay.
DeleteAccount(u) ==
    /\ Exists(u)
    /\ account' = [account EXCEPT ![u].row = "gone"]
    /\ UNCHANGED <<code, record, req, gift, miscounted>>

Init ==
    /\ account = [u \in Holders |-> [row |-> "live", enabled |-> TRUE]]
    /\ code = [c \in Codes |-> [row |-> "none", used |-> 0]]
    /\ record = {}
    /\ req = [p \in Slots |-> Idle]
    /\ gift = [u \in Holders |-> [c \in Codes |-> 0]]
    /\ miscounted = {}

Next ==
    \/ \E p \in Slots, u \in Holders, c \in Codes : RedeemCheck(p, u, c)
    \/ \E p \in Slots : RedeemCommit(p) \/ Abandon(p)
    \/ \E c \in Codes : CodeStep(c)
    \/ \E u \in Holders : SwitchAccount(u) \/ DeleteAccount(u)

Spec == Init /\ [][Next]_vars
=============================================================================
