------------------------- MODULE MCTransferWorkflow -------------------------
(***************************************************************************)
(* Small instances of TransferWorkflow and its clients for TLC.            *)
(***************************************************************************)
EXTENDS Portal, TLC

\* One desk per panel, some with the capability the panel does not ask for.
MCDesks ==
    {{"TRANSFER_REVIEW"} \cup also : also \in
        {{}, {"QUOTE_MANAGE"}, {"FUNDING_REVIEW"}, {"PAYOUT_MANAGE"},
         {"PAYOUT_MANAGE", "TRANSFER_HOLD", "ASSOCIATE_VIEW"},
         {"DISPUTE_MANAGE"}, {"REFUND_MANAGE"}, {"DISPUTE_MANAGE", "REFUND_MANAGE"}}}

\* There are two scenes.  Quoting: two requests in flight over all the quotes.
\* Settling, from the first proof on: one request in flight, after one quote.
Settling == \E p \in Proofs : proofs[p] # "ABSENT"

\* What was read of statuses that do not come back, or of a clock by which no
\* quote expires any more, makes no difference while settling.
BeforeAcceptance == {"REQUESTED", "NEEDS_INFO", "QUOTING", "QUOTED", "QUOTE_EXPIRED"}

OneQuoteOneRequest ==
    /\ \A v \in QuoteId \ {1} : quotes[v] = "ABSENT"
    /\ expiresAt[1] = 1 /\ now <= 1
    /\ \A c, d \in Clients : c # d => "IDLE" \in {inFlight[c].stage, inFlight[d].stage}
    /\ \A c \in Clients :
          CASE inFlight[c].stage = "IDLE" -> TRUE
            [] inFlight[c].stage = "TRANSITION" -> inFlight[c].seen \notin BeforeAcceptance
            [] OTHER -> inFlight[c].at = now

ScenesSpec == Init /\ [][Next /\ (Settling' => OneQuoteOneRequest')]_vars

Symmetry == Permutations(Clients) \cup Permutations(Proofs) \cup Permutations(Disputes)
=============================================================================
