------------------------------ MODULE ApiKeys ------------------------------
(***************************************************************************)
(* The service account and its API keys: created at start-up               *)
(* (app/services/service_account_creator.py), presented by requests        *)
(* (authentication_service.py, app/dependencies.py) that create and        *)
(* deactivate keys (api_key_service.py, app/routers/api_keys.py).          *)
(*                                                                         *)
(* A request is a thread; each of its actions is one `with connect()`      *)
(* block.  Other requests run, and the process may die, between two.       *)
(***************************************************************************)
EXTENDS FiniteSets

CONSTANTS
    Key,            \* ids of keys
    Predefined,     \* TRADELE_SERVICE_API_KEY_ID
    Configurations, \* whether that id and its hash are both configured
    Request,
    None

ASSUME PredefinedAssumption == Predefined \in Key /\ None \notin Key
ASSUME ConfigurationsAssumption == Configurations \subseteq BOOLEAN

VARIABLES
    account,    \* whether table users has the service account
    keys,       \* table api_keys
    shown,      \* the keys whose secret somebody has seen or configured
    configured, \* settings: the predefined key is used
    startup,    \* ensure_exists: its place in the code, and the key it makes
    requests,   \* per request, its place in the code and its local variables
    overlap,    \* whether requests ran side by side: "never", "before", "now"
    unseen      \* whether a start-up died between creating a key and showing it

apiKeyVars == <<account, keys, shown, configured, startup, requests, overlap, unseen>>

Status == {"absent", "active", "inactive"}

Idle == [pc |-> "idle", key |-> None, op |-> "create", target |-> None]

Active == {k \in Key : keys[k].status = "active"}

-----------------------------------------------------------------------------
Init ==
    /\ account = FALSE
    /\ keys = [k \in Key |-> [status |-> "absent", since |-> None]]
    /\ shown = {}
    /\ configured \in Configurations
    /\ startup = [pc |-> "down", key |-> None]
    /\ requests = [r \in Request |-> Idle]
    /\ overlap = "never"
    /\ unseen = FALSE

(* ensure_exists.                                                          *)

Begin ==
    /\ startup.pc = "down"
    /\ configured' \in Configurations
    /\ startup' = [startup EXCEPT !.pc = "account"]
    /\ UNCHANGED <<account, keys, shown, requests, overlap, unseen>>

\* INSERT OR IGNORE.
EnsureAccount ==
    /\ startup.pc = "account"
    /\ account' = TRUE
    /\ startup' = [startup EXCEPT !.pc = "list"]
    /\ UNCHANGED <<keys, shown, configured, requests, overlap, unseen>>

ListServiceKeysAndCreate ==
    /\ startup.pc = "list"
    /\ startup' = [startup EXCEPT !.pc = "create"]
    /\ UNCHANGED <<account, keys, shown, configured, requests, overlap, unseen>>

\* A service account with an active key needs no other.
ListServiceKeys ==
    /\ startup.pc = "list"
    /\ startup' = [startup EXCEPT !.pc = IF Active # {} THEN "up" ELSE "create"]
    /\ UNCHANGED <<account, keys, shown, configured, requests, overlap, unseen>>

Insert(k) == keys' = [keys EXCEPT ![k].status = "active"]

\* create_predefined_key: whoever configured the hash has the secret.
CreatePredefined ==
    /\ startup.pc = "create" /\ configured
    /\ keys[Predefined].status = "absent"
    /\ Insert(Predefined)
    /\ shown' = shown \cup {Predefined}
    /\ startup' = [startup EXCEPT !.pc = "up"]
    /\ UNCHANGED <<account, configured, requests, overlap, unseen>>

\* "UNIQUE constraint failed": the id is used up, and the process does not
\* start.
CreatePredefinedRaises ==
    /\ startup.pc = "create" /\ configured
    /\ keys[Predefined].status # "absent"
    /\ startup' = [startup EXCEPT !.pc = "failed"]
    /\ UNCHANGED <<account, keys, shown, configured, requests, overlap, unseen>>

Generated(k) == k # Predefined /\ keys[k].status = "absent"

GenerateKey(k) ==
    /\ startup.pc = "create" /\ ~configured
    /\ Generated(k)
    /\ Insert(k)
    /\ startup' = [startup EXCEPT !.pc = "show", !.key = k]
    /\ UNCHANGED <<account, shown, configured, requests, overlap, unseen>>

\* The authorization header is logged, this once.
ShowKey ==
    /\ startup.pc = "show"
    /\ shown' = shown \cup {startup.key}
    /\ startup' = [pc |-> "up", key |-> None]
    /\ UNCHANGED <<account, keys, configured, requests, overlap, unseen>>

-----------------------------------------------------------------------------
(* Requests.                                                               *)

Operations == {"list", "create", "deactivate"}

Goto(r, pc) == requests' = [requests EXCEPT ![r].pc = pc]

\* Somebody who has a key's secret presents it, whatever its status is now.
Arrive(r, k, op, target) ==
    /\ startup.pc = "up"
    /\ requests[r].pc = "idle"
    /\ k \in shown /\ (op = "deactivate") = (target # None)
    /\ requests' = [requests EXCEPT ![r] =
           [pc |-> "authenticate", key |-> k, op |-> op, target |-> target]]
    /\ overlap' = IF \E s \in Request : requests[s].pc # "idle" THEN "now" ELSE overlap
    /\ UNCHANGED <<account, keys, shown, configured, startup, unseen>>

AuthenticateByHash(r) ==
    /\ requests[r].pc = "authenticate"
    /\ Goto(r, IF keys[requests[r].key].status # "absent" THEN "context" ELSE "answered")
    /\ UNCHANGED <<account, keys, shown, configured, startup, overlap, unseen>>

\* authenticate: a key that is active now; 401 otherwise.
Authenticate(r) ==
    /\ requests[r].pc = "authenticate"
    /\ Goto(r, IF requests[r].key \in Active THEN "context" ELSE "answered")
    /\ UNCHANGED <<account, keys, shown, configured, startup, overlap, unseen>>

\* _build_context: the owner exists and may use keys, and as the service
\* account it has the scope require_service_access asks for.
BuildContext(r) ==
    /\ requests[r].pc = "context"
    /\ Goto(r, IF account THEN requests[r].op ELSE "answered")
    /\ UNCHANGED <<account, keys, shown, configured, startup, overlap, unseen>>

ListKeys(r) ==
    /\ requests[r].pc = "list"
    /\ Goto(r, "answered")
    /\ UNCHANGED <<account, keys, shown, configured, startup, overlap, unseen>>

CreateKeyForLater(r, k) ==
    /\ requests[r].pc = "create"
    /\ Generated(k)
    /\ keys' = [keys EXCEPT ![k].status = "pending"]
    /\ requests' = [requests EXCEPT ![r].pc = "created", ![r].target = k]
    /\ UNCHANGED <<account, shown, configured, startup, overlap, unseen>>

CreateKey(r, k) ==
    /\ requests[r].pc = "create"
    /\ Generated(k)
    /\ Insert(k)
    /\ requests' = [requests EXCEPT ![r].pc = "created", ![r].target = k]
    /\ UNCHANGED <<account, shown, configured, startup, overlap, unseen>>

\* The answer shows the secret.
ShowCreated(r) ==
    /\ requests[r].pc = "created"
    /\ shown' = shown \cup {requests[r].target}
    /\ Goto(r, "answered")
    /\ UNCHANGED <<account, keys, configured, startup, overlap, unseen>>

\* Or it is lost, and the secret with it.
AnswerLost(r) ==
    /\ requests[r].pc = "created"
    /\ Goto(r, "answered")
    /\ UNCHANGED <<account, keys, shown, configured, startup, overlap, unseen>>

FindKeyInAnyStatus(r) ==
    /\ requests[r].pc = "deactivate"
    /\ LET target == requests[r].target
       IN  Goto(r, IF keys[target].status # "absent" /\ target # requests[r].key
                   THEN "update" ELSE "answered")
    /\ UNCHANGED <<account, keys, shown, configured, startup, overlap, unseen>>

FindKeyEvenItsOwn(r) ==
    /\ requests[r].pc = "deactivate"
    /\ Goto(r, IF requests[r].target \in Active THEN "update" ELSE "answered")
    /\ UNCHANGED <<account, keys, shown, configured, startup, overlap, unseen>>

\* deactivate_key reads the key: 404 when there is none, no change when it is
\* inactive, 409 when it is the one that authenticated the request.
FindKey(r) ==
    /\ requests[r].pc = "deactivate"
    /\ LET target == requests[r].target
       IN  Goto(r, IF target \in Active /\ target # requests[r].key
                   THEN "update" ELSE "answered")
    /\ UNCHANGED <<account, keys, shown, configured, startup, overlap, unseen>>

\* The UPDATE, whatever the key's status is by now; since is its
\* deactivated_at, told by the request that wrote it.
UpdateKey(r) ==
    /\ requests[r].pc = "update"
    /\ keys' = [keys EXCEPT ![requests[r].target] = [status |-> "inactive", since |-> r]]
    /\ Goto(r, "reread")
    /\ UNCHANGED <<account, shown, configured, startup, overlap, unseen>>

Reread(r) ==
    /\ requests[r].pc = "reread"
    /\ Goto(r, "answered")
    /\ UNCHANGED <<account, keys, shown, configured, startup, overlap, unseen>>

\* Another thread's transaction, or a locked database: 500.
RequestRaises(r) ==
    /\ requests[r].pc \notin {"idle", "created", "answered"}
    /\ Goto(r, "answered")
    /\ UNCHANGED <<account, keys, shown, configured, startup, overlap, unseen>>

Return(r) ==
    /\ requests[r].pc = "answered"
    /\ requests' = [requests EXCEPT ![r] = Idle]
    /\ UNCHANGED <<account, keys, shown, configured, startup, overlap, unseen>>

\* The process ends, by itself or not.
End ==
    /\ startup' = [pc |-> "down", key |-> None]
    /\ requests' = [r \in Request |-> Idle]
    /\ overlap' = IF overlap = "now" THEN "before" ELSE overlap
    /\ unseen' = (unseen \/ startup.pc = "show")
    /\ UNCHANGED <<account, keys, shown, configured>>

-----------------------------------------------------------------------------
StartUp ==
    \/ EnsureAccount \/ ListServiceKeys
    \/ CreatePredefined \/ CreatePredefinedRaises
    \/ \E k \in Key : GenerateKey(k)
    \/ ShowKey

Arrives(r) ==
    \E k \in Key, op \in Operations, target \in Key \cup {None} : Arrive(r, k, op, target)

Handle(r) ==
    \/ Authenticate(r) \/ BuildContext(r)
    \/ ListKeys(r)
    \/ \E k \in Key : CreateKey(r, k)
    \/ ShowCreated(r) \/ AnswerLost(r)
    \/ FindKey(r) \/ UpdateKey(r) \/ Reread(r)
    \/ RequestRaises(r)
    \/ Return(r)

Next ==
    \/ Begin \/ StartUp
    \/ \E r \in Request : Arrives(r) \/ Handle(r)
    \/ End

Spec == Init /\ [][Next]_apiKeyVars

-----------------------------------------------------------------------------
(* Properties.                                                             *)

\* Every column and local variable holds what its declaration says.
TypeOK ==
    /\ account \in BOOLEAN
    /\ keys \in [Key -> [status : Status, since : Request \cup {None}]]
    /\ shown \subseteq Key
    /\ configured \in BOOLEAN
    /\ startup \in [pc : {"down", "account", "list", "create", "show", "up", "failed"},
                    key : Key \cup {None}]
    /\ requests \in [Request ->
           [pc : {"idle", "authenticate", "context", "created", "update", "reread", "answered"}
                     \cup Operations,
            key : Key \cup {None}, op : Operations, target : Key \cup {None}]]
    /\ overlap \in {"never", "before", "now"} /\ unseen \in BOOLEAN

\* "the authenticating key always remains active": while the process serves,
\* a key is active, after any requests in turn, answers lost, crashes and new
\* settings.  Two requests that overlap may deactivate each other's key; then
\* the next start-up makes another.
KeyRemains == (startup.pc = "up" /\ overlap # "now") => Active # {}

\* Somebody also holds the secret of an active key, but for two cases: that
\* requests overlapped before, and the key left was created by one whose
\* answer was lost; and that a start-up died before it showed its key.
KeyIsHeld ==
    (startup.pc = "up" /\ overlap = "never" /\ ~unseen) => Active \cap shown # {}

\* "Existing keys are never modified": only requests that overlapped can have
\* left a database that the configured key does not fit any more, and then no
\* process starts on it.
StartsOnWhatWasLeft == startup.pc = "failed" => overlap = "before"

\* "Deactivating an already-deactivated key is a no-op": its deactivated_at
\* stands, as long as requests do not overlap.
DeactivationStands ==
    [][\A k \in Key : (overlap # "now" /\ keys[k].status = "inactive")
            => keys'[k] = keys[k]]_keys
=============================================================================
