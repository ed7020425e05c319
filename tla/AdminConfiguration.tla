------------------------- MODULE AdminConfiguration -------------------------
(***************************************************************************)
(* The runtime policy of admin/service.ts and admin/runtimeConfiguration.ts*)
(* and the first administrator of scripts/bootstrapAdmin.ts.  Activation   *)
(* is a Serializable transaction whose first statement waits for an        *)
(* advisory lock, so its snapshot is older than the wait; bootstrap is a   *)
(* Read Committed one, which reads after it.                               *)
(*                                                                         *)
(* Lists of a policy are sets, and its mappings functions.                 *)
(***************************************************************************)
EXTENDS Integers, FiniteSets

CONSTANTS
    Requests,       \* activations and bootstraps under way at once
    Admins,         \* accounts the bootstrap may create
    Policies,       \* the inputs an administrator may submit
    EvidenceLimit,  \* the environment's ceiling on evidence size
    MaxVersions     \* bound on the AdminConfiguration rows

ASSUME VersionAssumption == MaxVersions \in Nat

VARIABLES
    configuration,  \* the AdminConfiguration rows
    administrator,  \* the User rows of role ADMIN
    change          \* what each transaction has read

adminVars == <<configuration, administrator, change>>

-----------------------------------------------------------------------------

NoChange == [stage |-> "IDLE", policy |-> {}, seen |-> {}]

AdminInit ==
    /\ configuration = {}
    /\ administrator = {}
    /\ change = [r \in Requests |-> NoChange]

ActiveRows(rows) == {c \in rows : c.active}

\* MAX of an empty table is null, and the version before the first is 0.
LatestVersion(rows) == Cardinality(rows)

\* Each country of a list has its values, all of them supported.
Maps(mapping, keys, values) ==
    /\ DOMAIN mapping = keys
    /\ \A k \in keys : mapping[k] \subseteq values

ValidateConfiguration(p) ==
    /\ DOMAIN p.methods = p.destinations
    /\ Maps(p.send, p.origins, p.currencies)
    /\ Maps(p.receive, p.destinations, p.currencies)
    /\ p.evidence <= EvidenceLimit
    /\ DOMAIN p.limits \subseteq p.currencies

\* An administrator's input is validated, and the first statement of the
\* transaction takes its snapshot.
OpenActivation(r, p) ==
    /\ administrator # {} /\ change[r] = NoChange
    /\ ValidateConfiguration(p)
    /\ change' = [change EXCEPT ![r] = [stage |-> "ACTIVATE", policy |-> p, seen |-> configuration]]
    /\ UNCHANGED <<configuration, administrator>>

\* A mistake the properties must catch: there are no unique indexes, and the
\* lock alone is trusted to keep activations apart.
AcceptsAny(rows) == TRUE

\* The row to deactivate is as the snapshot has it, and the unique indexes on
\* the version and on the active row accept the new one.
Accepts(rows) ==
    /\ ActiveRows(configuration) = ActiveRows(rows)
    /\ \A c \in configuration : c.version # LatestVersion(rows) + 1

Activate(r) ==
    LET rows == change[r].seen
        old == ActiveRows(configuration) \cap rows
    IN
    /\ change[r].stage = "ACTIVATE"
    /\ LatestVersion(rows) < MaxVersions
    /\ Accepts(rows)
    /\ configuration' =
          (configuration \ old) \cup {[c EXCEPT !.active = FALSE] : c \in old}
             \cup {[version |-> LatestVersion(rows) + 1, active |-> TRUE, policy |-> change[r].policy]}
    /\ change' = [change EXCEPT ![r] = NoChange]
    /\ UNCHANGED administrator

\* A mistake the properties must catch: the bootstrap takes no lock.
NobodyWaits == TRUE

\* The advisory lock of the bootstrap, held until its transaction ends.
BootstrapLockFree == \A r \in Requests : change[r].stage # "BOOTSTRAP"

CountAdministrators(r) ==
    /\ change[r] = NoChange /\ BootstrapLockFree
    /\ administrator = {}
    /\ change' = [change EXCEPT ![r].stage = "BOOTSTRAP"]
    /\ UNCHANGED <<configuration, administrator>>

CreateAdministrator(r, a) ==
    /\ change[r].stage = "BOOTSTRAP" /\ a \notin administrator
    /\ administrator' = administrator \cup {a}
    /\ change' = [change EXCEPT ![r] = NoChange]
    /\ UNCHANGED configuration

\* A conflict, a refused row, or a lost connection.
AbortChange(r) ==
    /\ change[r] # NoChange
    /\ change' = [change EXCEPT ![r] = NoChange]
    /\ UNCHANGED <<configuration, administrator>>

AdminNext ==
    \E r \in Requests :
        \/ \E p \in Policies : OpenActivation(r, p)
        \/ Activate(r)
        \/ CountAdministrators(r)
        \/ \E a \in Admins : CreateAdministrator(r, a)
        \/ AbortChange(r)

-----------------------------------------------------------------------------
(* What the other services read of the policy *)

\* effectivePolicy: the corridors of the active row, none if there is none.
Corridors ==
    UNION {{[origin |-> o, destination |-> d, currencies |-> c.policy.send[o],
             methods |-> c.policy.methods[d]] :
               o \in {x \in c.policy.origins : c.policy.send[x] # {}},
               d \in {x \in c.policy.destinations :
                        c.policy.receive[x] # {} /\ c.policy.methods[x] # {}}} :
           c \in ActiveRows(configuration)}

\* The amount is within the limits of its currency, if it has any.
WithinLimits(currency, amount) ==
    \A c \in ActiveRows(configuration) :
        currency \in DOMAIN c.policy.limits => amount \in c.policy.limits[currency]

-----------------------------------------------------------------------------
(* Properties *)

\* Two activations at once never leave two active rows, none, or one that is
\* not the latest; and versions are never given twice.
OneActiveConfiguration ==
    /\ configuration # {} => Cardinality(ActiveRows(configuration)) = 1
    /\ \A b, c \in configuration :
          /\ b.version = c.version => b = c
          /\ c.active => b.version <= c.version

\* However many shells run the bootstrap, one administrator comes of it.
OneBootstrap == Cardinality(administrator) <= 1
=============================================================================
