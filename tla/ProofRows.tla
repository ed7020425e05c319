----------------------------- MODULE ProofRows ------------------------------
(***************************************************************************)
(* What the funding service promises about the proofs a sender submits,    *)
(* with neither the transfer nor the files in sight.  At most one proof is *)
(* waited for; only a later submission removes it, and only once its link  *)
(* has lapsed; until then it may still arrive, however late; and what was  *)
(* recorded stays.                                                         *)
(***************************************************************************)
CONSTANT Proofs

VARIABLES
    awaited,  \* whether a proof of the sender is asked for
    proof     \* each proof: "PENDING" and then "LAPSED" until it arrives

vars == <<awaited, proof>>

Init == awaited \in BOOLEAN /\ proof = [p \in Proofs |-> "ABSENT"]

\* Others decide when the sender is asked.
Move == awaited' \in BOOLEAN /\ UNCHANGED proof

\* The links of proofs lapse.
Lapse ==
    /\ \E late \in SUBSET {p \in Proofs : proof[p] = "PENDING"} :
         proof' = [p \in Proofs |-> IF p \in late THEN "LAPSED" ELSE proof[p]]
    /\ UNCHANGED awaited

MaySubmit == awaited /\ \A p \in Proofs : proof[p] # "PENDING"

WithoutLapsed == [p \in Proofs |-> IF proof[p] = "LAPSED" THEN "ABSENT" ELSE proof[p]]

\* The sender announces a file.
Announce(p) ==
    /\ MaySubmit
    /\ proof[p] = "ABSENT"
    /\ proof' = [WithoutLapsed EXCEPT ![p] = "PENDING"]
    /\ UNCHANGED awaited

\* The sender submits a reference, which is a proof without a file.
Submit ==
    /\ MaySubmit
    /\ \/ proof' = WithoutLapsed
       \/ \E p \in Proofs : proof[p] = "ABSENT" /\ proof' = [WithoutLapsed EXCEPT ![p] = "RECORDED"]
    /\ ~awaited'

\* The file of a proof has arrived.
Record(p) ==
    /\ awaited
    /\ proof[p] \in {"PENDING", "LAPSED"}
    /\ proof' = [proof EXCEPT ![p] = "RECORDED"]
    /\ ~awaited'

Next == Move \/ Lapse \/ Submit \/ \E p \in Proofs : Announce(p) \/ Record(p)

Spec == Init /\ [][Next]_vars
=============================================================================
