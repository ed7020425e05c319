--------------------------- MODULE SessionFamilies ---------------------------
(***************************************************************************)
(* What the session service promises of a family of refresh tokens: one    *)
(* token at a time works, each works once, and a family that has ended     *)
(* never has a working token again.                                        *)
(***************************************************************************)
CONSTANTS Families, Tokens

VARIABLES
    current,  \* the token of the family that works, or "NONE", which is no token
    spent     \* the tokens that worked once

vars == <<current, spent>>

Init ==
    /\ current = [f \in Families |-> "NONE"]
    /\ spent = [f \in Families |-> {}]

\* The tokens that no family has, or had.
Fresh == Tokens \ UNION {spent[f] \cup {current[f]} : f \in Families}

Begin(f, t) ==
    /\ current[f] = "NONE" /\ spent[f] = {}
    /\ current' = [current EXCEPT ![f] = t]
    /\ UNCHANGED spent

Rotate(f, t) ==
    /\ current[f] # "NONE"
    /\ current' = [current EXCEPT ![f] = t]
    /\ spent' = [spent EXCEPT ![f] = @ \cup {current[f]}]

\* Families end together when all the sessions of a user are revoked.
End ==
    /\ current' \in [Families -> Tokens \cup {"NONE"}]
    /\ \A f \in Families : current'[f] \in {current[f], "NONE"}
    /\ spent' = [f \in Families |->
                   IF current'[f] = current[f] THEN spent[f] ELSE spent[f] \cup {current[f]}]

Next ==
    \/ End
    \/ \E t \in Fresh, f \in Families : Begin(f, t) \/ Rotate(f, t)

Spec == Init /\ [][Next]_vars
=============================================================================
