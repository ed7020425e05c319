-------------------------- MODULE TransferCreation --------------------------
(***************************************************************************)
(* A sender's recipients and the submission of transfer requests           *)
(* (transfers/service.ts).  createTransfer reads the policy, the recipient *)
(* and the clock before its transaction, which takes an advisory lock on   *)
(* the idempotency key, checks the key again, takes the sender's lock,     *)
(* counts and inserts.  It is followed through these steps, with the       *)
(* other requests of the same sender and the administrators in between.    *)
(*                                                                         *)
(* Locks, limits and keys are per sender, so there is one sender here.     *)
(***************************************************************************)
EXTENDS AdminConfiguration

CONSTANTS
    Slots,          \* submissions the API serves at once
    Keys,           \* idempotency keys
    Contents,       \* request bodies; equal fingerprints are equal contents
    Transfers,      \* TransferRequest rows
    Recipients,     \* Recipient rows, by UUID
    Addresses,      \* a country with a payout method, for a recipient
    MaxActive,      \* TRANSFER_MAXIMUM_ACTIVE_PER_SENDER
    CreateMax,      \* TRANSFER_CREATE_MAXIMUM
    CreateWindow,   \* TRANSFER_CREATE_WINDOW_SECONDS
    MaxRecipients,  \* RECIPIENT_MAXIMUM_PER_SENDER
    Attempts,       \* how often a transaction that hit a unique index is tried
    LastInstant,    \* bound on the clock
    None            \* no key, content, address, transfer or slot

ASSUME LimitsAssumption == {MaxActive, CreateMax, CreateWindow, MaxRecipients, LastInstant} \subseteq Nat
ASSUME NoneAssumption == None \notin Keys \cup Transfers \cup Slots
ASSUME ContentsAssumption == \A c \in Contents : c.recipient \in Recipients
ASSUME AttemptsAssumption == Attempts \in Nat \ {0}

VARIABLES
    instant,    \* the API's clock
    recipient,  \* the Recipient rows
    transfer,   \* the TransferRequest rows, each with its idempotency row
    creation    \* what each submission has read, and its answer

creationVars == <<instant, recipient, transfer, creation>>

-----------------------------------------------------------------------------

NoTransfer == [state |-> "NONE", key |-> None, content |-> None, at |-> 0, snapshot |-> None]

NoSubmission ==
    [stage |-> "IDLE", key |-> None, content |-> None, at |-> 0, snapshot |-> None,
     attempt |-> 1, outcome |-> "NONE", transfer |-> None]

CreationInit ==
    /\ instant = 0
    /\ recipient = [p \in Recipients |-> [state |-> "NONE", address |-> None]]
    /\ transfer = [t \in Transfers |-> NoTransfer]
    /\ creation = [q \in Slots |-> NoSubmission]

\* The rows of the sender.
Submitted == {t \in Transfers : transfer[t].state # "NONE"}
ActiveTransfers == {t \in Transfers : transfer[t].state = "ACTIVE"}
Kept(p) == recipient[p].state = "KEPT"

\* The transfer that an idempotency key was used for.
Stored(key) == {t \in Submitted : key # None /\ transfer[t].key = key}

\* A mistake the properties must catch: the key is looked up without its lock.
KeyUnlocked(q) == TRUE

\* The key's lock, and the lock on the sender's writes, both held to the end.
KeyFree(q) ==
    \A o \in Slots \ {q} :
        creation[o].stage \in {"KEYED", "COUNTED"} =>
            creation[o].key # creation[q].key \/ creation[q].key = None

\* A mistake the properties must catch: nothing keeps two counts apart.
SenderUnlocked == TRUE

SenderFree == \A o \in Slots : creation[o].stage # "COUNTED"

Answered(q, outcome, t) ==
    creation' = [creation EXCEPT ![q].stage = "ANSWERED", ![q].outcome = outcome, ![q].transfer = t]

-----------------------------------------------------------------------------
(* Recipients *)

SupportedDestination(address) ==
    \E c \in Corridors :
        c.destination = address.destination /\ address.method \in c.methods

\* One transaction under the sender's lock.  That there were not too many in
\* the window besides is left open: it only refuses more.
CreateRecipient(p, address) ==
    /\ recipient[p].state = "NONE" /\ SupportedDestination(address)
    /\ SenderFree
    /\ Cardinality({x \in Recipients : Kept(x)}) < MaxRecipients
    /\ recipient' = [recipient EXCEPT ![p] = [state |-> "KEPT", address |-> address]]
    /\ UNCHANGED <<instant, transfer, creation>>

UpdateRecipient(p, address) ==
    /\ Kept(p) /\ recipient[p].address # address /\ SupportedDestination(address)
    /\ recipient' = [recipient EXCEPT ![p].address = address]
    /\ UNCHANGED <<instant, transfer, creation>>

\* Counted first, and refused by the foreign key if a transfer came since.
DeleteRecipient(p) ==
    /\ Kept(p) /\ \A t \in Submitted : transfer[t].content.recipient # p
    /\ recipient' = [recipient EXCEPT ![p].state = "DELETED"]
    /\ UNCHANGED <<instant, transfer, creation>>

-----------------------------------------------------------------------------
(* createTransfer *)

\* A mistake the properties must catch: the fingerprint is not compared.
SameKey(t, content) == TRUE

SameRequest(t, content) == transfer[t].content = content

\* A key that was used is answered from its transfer, or refused for another
\* content.
AnswerStored(q, key, content) ==
    \E t \in Stored(key) :
        creation' = [creation EXCEPT ![q] =
                       [NoSubmission EXCEPT
                          !.stage = "ANSWERED", !.key = key, !.content = content,
                          !.outcome = IF SameRequest(t, content) THEN "CREATED" ELSE "REFUSED",
                          !.transfer = IF SameRequest(t, content) THEN t ELSE None]]

CorridorFor(content) ==
    \E c \in Corridors :
        /\ c.origin = content.origin /\ c.destination = content.destination
        /\ content.currency \in c.currencies /\ content.method \in c.methods

\* A mistake the properties must catch: any recipient of the sender will do.
OwnRecipient(content) == Kept(content.recipient)

\* The recipient is the sender's and is paid where and how the request says.
MatchingRecipient(content) ==
    /\ Kept(content.recipient)
    /\ recipient[content.recipient].address
          = [destination |-> content.destination, method |-> content.method]

Admissible(content) ==
    /\ CorridorFor(content)
    /\ WithinLimits(content.currency, content.amount)
    /\ MatchingRecipient(content)

\* What is checked before the transaction.
Receive(q, key, content) ==
    /\ creation[q].stage = "IDLE"
    /\ \/ AnswerStored(q, key, content)
       \/ /\ Stored(key) = {} /\ ~Admissible(content)
          /\ creation' = [creation EXCEPT ![q] =
                            [NoSubmission EXCEPT !.stage = "ANSWERED", !.key = key,
                                                 !.content = content, !.outcome = "REFUSED"]]
       \/ /\ Stored(key) = {} /\ Admissible(content)
          /\ creation' = [creation EXCEPT ![q] =
                            [NoSubmission EXCEPT
                               !.stage = "READ", !.key = key, !.content = content, !.at = instant,
                               !.snapshot = recipient[content.recipient].address]]
    /\ UNCHANGED <<instant, recipient, transfer>>

\* The transaction takes the key's lock and looks the key up again.
LockKey(q) ==
    LET r == creation[q] IN
    /\ r.stage = "READ" /\ KeyFree(q)
    /\ \/ AnswerStored(q, r.key, r.content)
       \/ /\ Stored(r.key) = {}
          /\ creation' = [creation EXCEPT ![q].stage = "KEYED"]
    /\ UNCHANGED <<instant, recipient, transfer>>

\* A mistake the properties must catch: the window ends at the captured clock.
RecentUntil(at) ==
    {t \in Submitted : transfer[t].at >= at - CreateWindow /\ transfer[t].at <= at}

\* The window starts before the clock that was captured, and has no end.
Recent(at) == {t \in Submitted : transfer[t].at >= at - CreateWindow}

\* It takes the sender's lock and counts.
Count(q) ==
    /\ creation[q].stage = "KEYED" /\ SenderFree
    /\ \/ /\ Cardinality(ActiveTransfers) < MaxActive
          /\ Cardinality(Recent(creation[q].at)) < CreateMax
          /\ creation' = [creation EXCEPT ![q].stage = "COUNTED"]
       \/ /\ \/ Cardinality(ActiveTransfers) >= MaxActive
             \/ Cardinality(Recent(creation[q].at)) >= CreateMax
          /\ Answered(q, "REFUSED", None)
    /\ UNCHANGED <<instant, recipient, transfer>>

\* It inserts the transfer and the key's row and commits; the connection may be
\* lost before the answer.
Create(q, t) ==
    LET r == creation[q] IN
    /\ r.stage = "COUNTED"
    /\ transfer[t].state = "NONE"
    /\ Kept(r.content.recipient) /\ Stored(r.key) = {}
    /\ transfer' = [transfer EXCEPT ![t] =
                      [state |-> "ACTIVE", key |-> r.key, content |-> r.content, at |-> r.at,
                       snapshot |-> r.snapshot]]
    /\ \/ Answered(q, "CREATED", t)
       \/ Answered(q, "FAILED", None)
    /\ UNCHANGED <<instant, recipient>>

\* A unique index refuses the reference or the key: rolled back, tried again.
Retry(q) ==
    /\ creation[q].stage = "COUNTED"
    /\ creation[q].attempt < Attempts
    /\ creation' = [creation EXCEPT ![q].stage = "READ", ![q].attempt = @ + 1]
    /\ UNCHANGED <<instant, recipient, transfer>>

\* Rolled back for good: the last attempt, a recipient that is gone, a
\* transaction that took too long, the end of the process.
Fail(q) ==
    /\ creation[q].stage \in {"READ", "KEYED", "COUNTED"}
    /\ Answered(q, "FAILED", None)
    /\ UNCHANGED <<instant, recipient, transfer>>

\* The answer is delivered, or nobody waits for it any more.
Collect(q) ==
    /\ creation[q].stage = "ANSWERED"
    /\ creation' = [creation EXCEPT ![q] = NoSubmission]
    /\ UNCHANGED <<instant, recipient, transfer>>

-----------------------------------------------------------------------------

\* The transfer comes to a terminal status: the workflow is TransferWorkflow.
EndTransfer(t) ==
    /\ transfer[t].state = "ACTIVE"
    /\ transfer' = [transfer EXCEPT ![t].state = "ENDED"]
    /\ UNCHANGED <<instant, recipient, creation>>

Pass ==
    /\ instant < LastInstant
    /\ instant' = instant + 1
    /\ UNCHANGED <<recipient, transfer, creation>>

Serve(q) ==
    \/ LockKey(q)
    \/ Count(q)
    \/ \E t \in Transfers : Create(q, t)
    \/ Retry(q)
    \/ Fail(q)

RecipientNext ==
    \E p \in Recipients :
        \/ \E a \in Addresses : CreateRecipient(p, a)
        \/ \E a \in Addresses : UpdateRecipient(p, a)
        \/ DeleteRecipient(p)

CreationNext ==
    \/ RecipientNext
    \/ \E q \in Slots : Serve(q)
    \/ \E t \in Transfers : EndTransfer(t)
    \/ Pass

-----------------------------------------------------------------------------
(* Properties *)

\* However submissions overlap, no stretch of time as long as the window has
\* more transfers than the limit, and no more of them are active than allowed:
\* createdAt is read before the lock under which the others are counted.
SubmissionLimitsKept ==
    /\ Cardinality(ActiveTransfers) <= MaxActive
    /\ \A u \in Submitted :
          Cardinality({t \in Submitted : transfer[t].at \in transfer[u].at .. transfer[u].at + CreateWindow})
             <= CreateMax

\* A key names one transfer, and every answer that reports a success for it
\* names that transfer, made from the content that was sent.
KeyNamesOneTransfer ==
    /\ \A t, u \in Submitted :
          transfer[t].key # None /\ transfer[t].key = transfer[u].key => t = u
    /\ \A q \in Slots : creation[q].outcome = "CREATED" =>
          LET t == transfer[creation[q].transfer] IN
          t.key = creation[q].key /\ t.content = creation[q].content

\* Whatever happens to the recipient and to the policy meanwhile, a transfer is
\* paid where and how its request says, to a recipient that still exists, over
\* a corridor that an administrator activated.
TransferIsPayable ==
    \A t \in Submitted :
        LET c == transfer[t].content IN
        /\ Kept(c.recipient)
        /\ transfer[t].snapshot = [destination |-> c.destination, method |-> c.method]
        /\ \E v \in configuration :
              /\ c.currency \in v.policy.send[c.origin] \cap v.policy.currencies
              /\ c.method \in v.policy.methods[c.destination]
=============================================================================
