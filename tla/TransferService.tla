-------------------------- MODULE TransferService ---------------------------
(***************************************************************************)
(* The status-changing half of apps/api/src/transfers/service.ts: the      *)
(* staff review actions and the sender's cancellation, which share the     *)
(* private method transition.  It reads the status and checks the table    *)
(* outside any transaction, then updates the row only where the status is  *)
(* still the one it read.                                                  *)
(***************************************************************************)
EXTENDS QuoteService

\* The read of transition: findFirst and assertTransferTransition.
ReadStatus(c, target) ==
    /\ CanMove(status, target)
    /\ Begin(c, [Idle EXCEPT !.stage = "TRANSITION", !.seen = status, !.target = target])
    /\ UNCHANGED <<status, now, quoteVars>>

\* cancelSenderTransfer and reviewRequest differ only in the target.
RequestCancellation(c) == ReadStatus(c, "CANCELLED")

RequestReview(c, target) == target \in ReviewTargets /\ ReadStatus(c, target)

\* A mistake the properties must catch: the update does not ask for the
\* status that was read.
UnguardedTransition(c) ==
    /\ inFlight[c].stage = "TRANSITION"
    /\ status' = inFlight[c].target
    /\ quotes' = IF inFlight[c].target = "CANCELLED" THEN Superseded ELSE quotes
    /\ Finish(c)
    /\ UNCHANGED <<now, expiresAt, acceptedQuote>>

\* The transaction of transition: the update matches one row, and a
\* cancellation supersedes the sent quote.
ApplyTransition(c) ==
    /\ inFlight[c].stage = "TRANSITION"
    /\ status = inFlight[c].seen
    /\ status' = inFlight[c].target
    /\ quotes' = IF inFlight[c].target = "CANCELLED" THEN Superseded ELSE quotes
    /\ Finish(c)
    /\ UNCHANGED <<now, expiresAt, acceptedQuote>>
=============================================================================
