--------------------------- MODULE TransferState ---------------------------
(***************************************************************************)
(* The transfer state machine of apps/api/src/transfers/state.ts: the      *)
(* statuses of a TransferRequest row, the table of allowed transitions and *)
(* the targets of the staff review actions.  Constant level: every service *)
(* module is built on it.                                                  *)
(***************************************************************************)

TransferStatus ==
    {"REQUESTED", "NEEDS_INFO", "QUOTING", "QUOTED", "QUOTE_ACCEPTED",
     "QUOTE_EXPIRED", "FUNDING_PENDING", "FUNDING_SUBMITTED",
     "FUNDS_CONFIRMED", "PAYOUT_IN_PROGRESS", "PAYOUT_REPORTED",
     "CONFIRMATION_PENDING", "COMPLETED", "ON_HOLD", "DECLINED",
     "CANCELLED", "DISPUTED", "REFUND_PENDING", "REFUNDED", "FAILED"}

\* The transferTransitions table, one disjunct per row that is not empty.
CanMove(from, to) ==
    \/ from = "REQUESTED"  /\ to \in {"NEEDS_INFO", "QUOTING", "DECLINED", "CANCELLED"}
    \/ from = "NEEDS_INFO" /\ to \in {"REQUESTED", "QUOTING", "CANCELLED", "DECLINED"}
    \/ from = "QUOTING"    /\ to \in {"QUOTED", "NEEDS_INFO", "DECLINED", "CANCELLED"}
    \/ from = "QUOTED"     /\ to \in {"QUOTE_ACCEPTED", "QUOTE_EXPIRED", "QUOTING", "CANCELLED"}
    \/ from = "QUOTE_ACCEPTED"    /\ to \in {"FUNDING_PENDING", "ON_HOLD", "CANCELLED"}
    \/ from = "FUNDING_PENDING"   /\ to \in {"FUNDING_SUBMITTED", "ON_HOLD", "CANCELLED"}
    \/ from = "FUNDING_SUBMITTED" /\ to \in {"FUNDING_PENDING", "FUNDS_CONFIRMED", "ON_HOLD"}
    \/ from = "FUNDS_CONFIRMED"   /\ to \in {"PAYOUT_IN_PROGRESS", "ON_HOLD", "REFUND_PENDING"}
    \/ from = "PAYOUT_IN_PROGRESS" /\ to \in {"PAYOUT_REPORTED", "ON_HOLD", "DISPUTED", "FAILED"}
    \/ from = "PAYOUT_REPORTED"    /\ to \in {"CONFIRMATION_PENDING", "COMPLETED", "DISPUTED"}
    \/ from = "CONFIRMATION_PENDING" /\ to \in {"COMPLETED", "DISPUTED"}
    \/ from = "ON_HOLD"  /\ to \in {"CANCELLED", "REFUND_PENDING", "DISPUTED"}
    \/ from = "DISPUTED" /\ to \in {"PAYOUT_IN_PROGRESS", "CONFIRMATION_PENDING",
                                    "REFUND_PENDING", "COMPLETED", "FAILED"}
    \/ from = "REFUND_PENDING" /\ to \in {"REFUNDED", "FAILED"}

\* reviewActionTarget: where REQUEST_INFO, START_QUOTING and DECLINE lead.
ReviewTargets == {"NEEDS_INFO", "QUOTING", "DECLINED"}

\* The statuses a transfer can have before and after Hawelly confirms that
\* the sender's money arrived; CANCELLED and ON_HOLD belong to neither alone.
BeforeFunds ==
    {"REQUESTED", "NEEDS_INFO", "QUOTING", "QUOTED", "QUOTE_ACCEPTED",
     "QUOTE_EXPIRED", "FUNDING_PENDING", "FUNDING_SUBMITTED", "DECLINED"}
=============================================================================
