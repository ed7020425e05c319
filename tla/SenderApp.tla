----------------------------- MODULE SenderApp -----------------------------
(***************************************************************************)
(* The Android sender's app submitting transfers (HawellyViewModel and     *)
(* HawellyRepository) over a network that loses answers, to the API of     *)
(* TransferCreation, which also serves the sender's web page.              *)
(*                                                                         *)
(* The idempotency key of a submission is in the SavedStateHandle, which   *)
(* survives a restart of the process.  Whether the API still takes the     *)
(* app's refresh token is decided in AuthSessions: here it may or may not. *)
(***************************************************************************)
EXTENDS TransferCreation

VARIABLES
    app,       \* the app: where its one submission is, what it has saved
    fate,      \* log: what became of each key it made
    uncertain  \* log: the keys of which an attempt ended without a clear answer

appVars == <<app, fate, uncertain>>

-----------------------------------------------------------------------------

NothingSaved == [key |-> None, content |-> None]

\* page: the login page, or the pages of a sender who signed in.  session: the
\* access token may be absent, fresh or expired.  retried: the request is sent
\* for the second time, with the token of a refresh.
AppInit ==
    /\ app = [stage |-> "IDLE", saved |-> NothingSaved, page |-> "LOGIN", session |-> "NONE",
              slot |-> None, retried |-> FALSE]
    /\ fate = [k \in Keys |-> "NONE"]
    /\ uncertain = {}

\* The keys that the app made.
keys == {k \in Keys : fate[k] # "NONE"}

UsedKeys == {transfer[t].key : t \in Submitted} \cup {creation[q].key : q \in Slots}

Pending == app.saved.key # None

Goes(stage) == [app EXCEPT !.stage = stage]

\* A submission that failed keeps its key; one with a definite answer drops it.
Failed == [app EXCEPT !.stage = "IDLE", !.slot = None, !.retried = FALSE]

Dropped == [Failed EXCEPT !.saved = NothingSaved]

\* failureState of a 401: the login page, with nothing of the sender's.
ToLoginPage == [Dropped EXCEPT !.page = "LOGIN"]

Ends(how) == fate' = [fate EXCEPT ![app.saved.key] = how]

\* The request that the API got is left without its answer.
Unanswered ==
    uncertain' = IF app.stage = "WAITING" THEN uncertain \cup {app.saved.key} ELSE uncertain

-----------------------------------------------------------------------------

\* A mistake the properties must catch: every tap makes a key.
ForgottenFor(content) == FALSE

\* submissionKeyFor: a key was saved for this content.
SavedFor(content) == Pending /\ app.saved.content = content

\* createTransfer of the view model; taps while one is in flight are ignored.
\* A submission of something else takes the place of the one that was saved.
Tap(content) ==
    /\ app.stage = "IDLE" /\ app.page = "PAGES"
    /\ IF SavedFor(content)
       THEN app' = Goes("SENDING") /\ UNCHANGED fate
       ELSE \E k \in Keys \ (keys \cup UsedKeys) :
               /\ app' = [Goes("SENDING") EXCEPT !.saved = [key |-> k, content |-> content]]
               /\ fate' = IF Pending /\ app.saved.content # content
                          THEN [fate EXCEPT ![k] = "HELD", ![app.saved.key] = "LEFT"]
                          ELSE [fate EXCEPT ![k] = "HELD"]
    /\ UNCHANGED <<uncertain, adminVars, creationVars>>

\* authenticated: without tokens in memory it is a 401 without a request, and
\* any 4xx drops the key.
SignedOut ==
    /\ app.stage = "SENDING" /\ app.session = "NONE"
    /\ app' = ToLoginPage
    /\ Ends("REFUSED")
    /\ UNCHANGED <<uncertain, adminVars, creationVars>>

Send(q) ==
    /\ app.stage = "SENDING" /\ app.session = "FRESH"
    /\ Receive(q, app.saved.key, app.saved.content)
    /\ app' = [Goes("WAITING") EXCEPT !.slot = q]
    /\ UNCHANGED <<fate, uncertain, adminVars>>

\* The API refuses the access token: a refresh comes first, but only once.
Unauthorized ==
    /\ app.stage = "SENDING" /\ app.session = "EXPIRED"
    /\ IF app.retried
       THEN app' = ToLoginPage /\ Ends("REFUSED")
       ELSE app' = Goes("REFRESHING") /\ UNCHANGED fate
    /\ UNCHANGED <<uncertain, adminVars, creationVars>>

\* refreshAfter: the tokens are replaced, or forgotten after any failure.  A
\* refusal is a 401; after any other failure the page and the key stay.
Refreshed ==
    /\ app.stage = "REFRESHING"
    /\ app' = [Goes("SENDING") EXCEPT !.session = "FRESH", !.retried = TRUE]
    /\ UNCHANGED <<fate, uncertain, adminVars, creationVars>>

RefreshRefused ==
    /\ app.stage = "REFRESHING"
    /\ app' = [ToLoginPage EXCEPT !.session = "NONE"]
    /\ Ends("REFUSED")
    /\ UNCHANGED <<uncertain, adminVars, creationVars>>

RefreshFails ==
    /\ app.stage = "REFRESHING"
    /\ app' = [Failed EXCEPT !.session = "NONE"]
    /\ UNCHANGED <<fate, uncertain, adminVars, creationVars>>

\* An I/O error before the request arrives, or after it has, or readTimeout:
\* the API goes on with what it got.
Disconnected ==
    /\ app.stage \in {"SENDING", "WAITING"}
    /\ app' = Failed
    /\ Unanswered
    /\ UNCHANGED <<fate, adminVars, creationVars>>

\* A success and a refusal drop the key; an error of the server tells nothing.
Answer ==
    /\ app.stage = "WAITING"
    /\ LET q == app.slot IN
       /\ Collect(q)
       /\ \/ /\ creation[q].outcome = "FAILED"
             /\ app' = Failed
             /\ Unanswered /\ UNCHANGED fate
          \/ /\ creation[q].outcome # "FAILED"
             /\ app' = Dropped
             /\ Ends(IF creation[q].outcome = "CREATED" THEN "REPORTED" ELSE "REFUSED")
             /\ UNCHANGED uncertain
    /\ UNCHANGED adminVars

-----------------------------------------------------------------------------

\* The app starts: restore refreshes, or forgets the tokens.
Started(state) ==
    {[state EXCEPT !.session = "NONE", !.page = "LOGIN"]} \cup
    {[state EXCEPT !.session = "FRESH", !.page = "PAGES"] : x \in {app.session} \ {"NONE"}}

\* The system ends the process and starts it again.
Restart ==
    /\ app' \in Started(Failed)
    /\ Unanswered
    /\ UNCHANGED <<fate, adminVars, creationVars>>

\* The sender closes the app, and with it the saved state, and opens it again.
Close ==
    /\ Pending
    /\ app' \in Started(Dropped)
    /\ Ends("LEFT")
    /\ Unanswered
    /\ UNCHANGED <<adminVars, creationVars>>

Expire ==
    /\ app.session = "FRESH"
    /\ app' = [app EXCEPT !.session = "EXPIRED"]
    /\ UNCHANGED <<fate, uncertain, adminVars, creationVars>>

\* Calls of other pages refresh the tokens too, or forget them: the page stays
\* unless the answer is a 401.
OtherCalls ==
    /\ app.stage = "IDLE" /\ app.page = "PAGES" /\ app.session # "FRESH"
    /\ \/ app' = [app EXCEPT !.session = "NONE", !.page = "LOGIN"]
       \/ /\ app.session = "EXPIRED"
          /\ \E tokens \in {"NONE", "FRESH"} : app' = [app EXCEPT !.session = tokens]
    /\ UNCHANGED <<fate, uncertain, adminVars, creationVars>>

\* login and register, and logout; what was saved stays.
SignIn ==
    /\ app.stage = "IDLE" /\ app.page = "LOGIN"
    /\ app' = [app EXCEPT !.session = "FRESH", !.page = "PAGES"]
    /\ UNCHANGED <<fate, uncertain, adminVars, creationVars>>

SignOut ==
    /\ app.stage = "IDLE" /\ app.page = "PAGES"
    /\ app' = [app EXCEPT !.session = "NONE", !.page = "LOGIN"]
    /\ UNCHANGED <<fate, uncertain, adminVars, creationVars>>

AppNext ==
    \/ \E c \in Contents : Tap(c)
    \/ \E q \in Slots : Send(q)
    \/ SignedOut
    \/ Unauthorized
    \/ Refreshed
    \/ RefreshRefused
    \/ RefreshFails
    \/ Disconnected
    \/ Answer
    \/ Restart
    \/ Close
    \/ Expire
    \/ OtherCalls
    \/ SignIn
    \/ SignOut

\* Other clients: the web page submits without a key, and no UUID is made twice.
OtherClients ==
    \E q \in Slots :
        \/ \E key \in {None} \cup (Keys \ keys), c \in Contents : Receive(q, key, c)
        \/ app.slot # q /\ Collect(q)

SubmissionsInit == AdminInit /\ CreationInit /\ AppInit

SubmissionsNext ==
    \/ AppNext
    \/ OtherClients /\ UNCHANGED <<appVars, adminVars>>
    \/ CreationNext /\ UNCHANGED <<appVars, adminVars>>
    \/ AdminNext /\ UNCHANGED <<appVars, creationVars>>

submissionsVars == <<appVars, creationVars, adminVars>>

SubmissionsSpec == SubmissionsInit /\ [][SubmissionsNext]_submissionsVars

-----------------------------------------------------------------------------
(* Properties *)

\* The values of the variables that requests share.
SubmissionsTypeOK ==
    /\ app.session \in {"NONE", "FRESH", "EXPIRED"}
    /\ app.stage # "IDLE" => app.page = "PAGES"
    /\ app.slot \in Slots <=> app.stage = "WAITING"
    /\ \A k \in Keys : fate[k] = "HELD" <=> k = app.saved.key
    /\ \A q \in Slots : creation[q].stage \in {"READ", "KEYED", "COUNTED"} =>
          /\ Stored(creation[q].key) = {} \/ creation[q].stage = "READ"
          /\ creation[q].attempt \in 1 .. Attempts
          /\ creation[q].at <= instant

\* Whatever is lost, retried or restarted, the app knows every transfer that its
\* keys made, or holds the key that finds it; the exception is a key that was
\* given up, by a refusal or by the sender, after an attempt without an answer.
AppKnowsItsTransfers ==
    \A t \in Submitted :
        LET k == transfer[t].key IN
        k \in keys =>
            \/ k = app.saved.key
            \/ fate[k] = "REPORTED"
            \/ fate[k] \in {"REFUSED", "LEFT"} /\ k \in uncertain

\* No refusal makes the app drop the key of a submission whose transfer exists
\* or comes to exist: the next tap would make another one.
KeyKeptWhileAmbiguous ==
    \A t \in Submitted : transfer[t].key \in keys => fate[transfer[t].key] # "REFUSED"

\* The transfers and the successes under way in the terms of RequestLedger.
entered ==
    [t \in Transfers |-> [state |-> transfer[t].state, key |-> transfer[t].key,
                          content |-> transfer[t].content, at |-> transfer[t].at]]

reported ==
    {[entry |-> creation[q].transfer, key |-> creation[q].key, content |-> creation[q].content] :
        q \in {x \in Slots : creation[x].outcome = "CREATED"}}

Ledger == INSTANCE RequestLedger WITH
    Entries <- Transfers, MaxOpen <- MaxActive, Rate <- CreateMax, Window <- CreateWindow,
    ledger <- entered, reports <- reported

\* Checks before the transaction, two locks, counts, retries, failed commits
\* and lost answers implement a ledger in which a submission is one step.
ImplementsLedger == Ledger!Spec
=============================================================================
