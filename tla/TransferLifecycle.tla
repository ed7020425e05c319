-------------------------- MODULE TransferLifecycle -------------------------
(***************************************************************************)
(* What the workflow promises about a transfer, with no service in sight:  *)
(* its status walks the transition table, except that a hold is released   *)
(* to the payout it interrupted, and the sender's money moves at most      *)
(* once in and once out.                                                   *)
(***************************************************************************)
EXTENDS TransferState

VARIABLES
    status,   \* where the transfer stands
    custody   \* who has the sender's money: the sender, Hawelly, the
              \* recipient, or the sender again after a refund

vars == <<status, custody>>

Custody == {"SENDER", "HAWELLY", "RECIPIENT", "RETURNED"}

Init == status = "REQUESTED" /\ custody = "SENDER"

\* Steps before the funds are confirmed: nothing that needs the money.
Negotiate ==
    /\ custody = "SENDER"
    /\ CanMove(status, status')
    /\ status' \in BeforeFunds \cup {"CANCELLED"}
    /\ UNCHANGED custody

ReceiveFunds ==
    /\ custody = "SENDER"
    /\ status = "FUNDING_SUBMITTED"
    /\ status' = "FUNDS_CONFIRMED"
    /\ custody' = "HAWELLY"

\* Steps while Hawelly holds the money; none of them moves it.
Process ==
    /\ custody = "HAWELLY"
    /\ \/ CanMove(status, status')
       \/ status = "ON_HOLD" /\ status' = "PAYOUT_IN_PROGRESS"
    /\ status' \notin {"COMPLETED", "REFUNDED"}
    /\ UNCHANGED custody

Complete ==
    /\ custody = "HAWELLY"
    /\ CanMove(status, "COMPLETED")
    /\ status' = "COMPLETED"
    /\ custody' = "RECIPIENT"

Refund ==
    /\ custody = "HAWELLY"
    /\ status = "REFUND_PENDING"
    /\ status' = "REFUNDED"
    /\ custody' = "RETURNED"

Next == Negotiate \/ ReceiveFunds \/ Process \/ Complete \/ Refund

Spec == Init /\ [][Next]_vars
=============================================================================
