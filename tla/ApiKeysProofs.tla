--------------------------- MODULE ApiKeysProofs ---------------------------
(* What ApiKeys guarantees of the service account's keys, for any keys and  *)
(* any number of requests.                                                  *)
EXTENDS ApiKeys, TLAPS

-----------------------------------------------------------------------------
(* The invariant.                                                          *)

\* Local variables are set where they are read.
LocalsSet ==
    /\ startup.pc = "show" => startup.key \in Key
    /\ \A r \in Request :
           /\ requests[r].pc # "idle" => requests[r].key \in Key
           /\ requests[r].pc \in {"authenticate", "context"} /\ requests[r].op = "deactivate"
                  => requests[r].target \in Key
           /\ requests[r].pc \in {"deactivate", "update", "created"}
                  => requests[r].target \in Key

\* TypeOK is not inductive by itself: a local that is None writes no column.
Typed == TypeOK /\ LocalsSet

\* Requests are served by a process that is up, and overlap belongs to it.
ServedWhileUp ==
    startup.pc # "up" => /\ \A r \in Request : requests[r].pc = "idle"
                         /\ overlap # "now"

OneAtATime ==
    overlap # "now" =>
        \A r, s \in Request : requests[r].pc # "idle" /\ requests[s].pc # "idle" => r = s

\* The places in the code of a request that authenticate has let pass.
AuthenticatedPcs == {"context", "created", "update", "reread"} \cup Operations

\* The key that authenticated a request stays active as long as no other
\* request runs beside it, and so does the one it is about to deactivate.
OwnKeyStands ==
    overlap # "now" =>
        \A r \in Request :
            /\ requests[r].pc \in AuthenticatedPcs => requests[r].key \in Active
            /\ requests[r].pc = "update" =>
                   /\ requests[r].target \in Active
                   /\ requests[r].target # requests[r].key

KeysArePresented == \A r \in Request : requests[r].pc # "idle" => requests[r].key \in shown

\* The keys as the places of ensure_exists find them.
StartUpFinds ==
    /\ startup.pc = "create" => Active = {}
    /\ startup.pc = "show" => startup.key \in Active

\* Without overlaps the last key never went, ...
NeverWithoutKey ==
    (overlap = "never" /\ \E k \in Key : keys[k].status # "absent") => Active # {}

\* ... nor the last one that somebody holds, unless start-up is about to show
\* one or died before it did.
NeverWithoutSecret ==
    (overlap = "never" /\ ~unseen /\ startup.pc # "show" /\ Active # {})
        => Active \cap shown # {}

Kept ==
    /\ Typed
    /\ ServedWhileUp /\ OneAtATime /\ OwnKeyStands /\ KeysArePresented
    /\ StartUpFinds /\ NeverWithoutKey /\ NeverWithoutSecret
    /\ KeyRemains /\ StartsOnWhatWasLeft

Quiet == \A r \in Request : requests[r].pc = "idle"

-----------------------------------------------------------------------------
(* Start-up.                                                               *)

\* While a process is not up yet, nobody presents a key.
LEMMA NobodyAsks == ASSUME Kept, startup.pc # "up" PROVE Quiet /\ overlap # "now"
  BY DEF Kept, ServedWhileUp, Quiet

\* A step of ensure_exists that leaves the keys alone.
LEMMA StartUpMoves ==
  ASSUME Kept, startup.pc \notin {"up", "show"},
         UNCHANGED <<keys, shown, requests, overlap, unseen>>,
         account' \in BOOLEAN, configured' \in BOOLEAN,
         startup' = [startup EXCEPT !.pc = startup'.pc],
         startup'.pc \in {"account", "list", "create", "up", "failed"},
         startup'.pc = "create" => Active = {},
         startup'.pc = "up" => Active # {},
         startup'.pc = "failed" => overlap = "before"
  PROVE  Kept'
  <1>1. Quiet /\ overlap # "now"
    BY NobodyAsks
  <1>2. Typed'
    BY DEF Kept, Typed, TypeOK, LocalsSet
  <1>3. Active' = Active
    BY DEF Active
  <1>4. (ServedWhileUp /\ OneAtATime /\ OwnKeyStands /\ KeysArePresented)'
    BY <1>1 DEF Quiet, ServedWhileUp, OneAtATime, OwnKeyStands, KeysArePresented,
                AuthenticatedPcs, Operations
  <1>5. (StartUpFinds /\ NeverWithoutKey /\ NeverWithoutSecret)'
    BY <1>3 DEF Kept, StartUpFinds, NeverWithoutKey, NeverWithoutSecret
  <1>6. (KeyRemains /\ StartsOnWhatWasLeft)'
    BY <1>3 DEF KeyRemains, StartsOnWhatWasLeft
  <1> QED
    BY <1>2, <1>4, <1>5, <1>6 DEF Kept

\* Inserting a key changes no other.
LEMMA Inserted ==
  ASSUME Kept, NEW k \in Key, keys[k].status = "absent", Insert(k)
  PROVE  /\ keys' \in [Key -> [status : Status, since : Request \cup {None}]]
         /\ Active' = Active \cup {k}
         /\ keys'[k].status = "active"
         /\ \A l \in Key \ {k} : keys'[l] = keys[l]
  BY DEF Kept, Typed, TypeOK, Insert, Active, Status

LEMMA StartUpKeeps == ASSUME Kept, StartUp PROVE Kept'
  <1>1. CASE EnsureAccount
    BY <1>1, StartUpMoves DEF EnsureAccount, Kept, Typed, TypeOK
  <1>2. CASE ListServiceKeys
    BY <1>2, StartUpMoves DEF ListServiceKeys, Kept, Typed, TypeOK
  <1>3. CASE CreatePredefinedRaises
    <2>1. overlap = "before"
      BY <1>3, NobodyAsks, PredefinedAssumption
      DEF CreatePredefinedRaises, Kept, NeverWithoutKey, StartUpFinds, Typed, TypeOK
    <2> QED
      BY <1>3, <2>1, StartUpMoves DEF CreatePredefinedRaises, Kept, Typed, TypeOK
  <1>4. ASSUME NEW k \in Key, Insert(k), keys[k].status = "absent", startup.pc = "create",
               UNCHANGED <<account, configured, requests, overlap, unseen>>,
               \/ shown' = shown \cup {k} /\ startup' = [startup EXCEPT !.pc = "up"]
               \/ shown' = shown /\ startup' = [startup EXCEPT !.pc = "show", !.key = k]
        PROVE  Kept'
    <2>1. Quiet /\ overlap # "now"
      BY <1>4, NobodyAsks
    <2>2. /\ keys' \in [Key -> [status : Status, since : Request \cup {None}]]
          /\ Active' = Active \cup {k}
      BY <1>4, Inserted
    <2>3. startup'.pc \in {"up", "show"} /\ (startup'.pc = "show" => startup'.key = k)
      BY <1>4 DEF Kept, Typed, TypeOK
    <2>4. Typed'
      BY <1>4, <2>2 DEF Kept, Typed, TypeOK, LocalsSet
    <2>5. (ServedWhileUp /\ OneAtATime /\ OwnKeyStands /\ KeysArePresented)'
      BY <1>4, <2>1 DEF Quiet, ServedWhileUp, OneAtATime, OwnKeyStands, KeysArePresented,
                        AuthenticatedPcs, Operations
    <2>6. (StartUpFinds /\ NeverWithoutKey /\ NeverWithoutSecret)'
      <3>1. startup'.pc = "up" => k \in shown'
        BY <1>4 DEF Kept, Typed, TypeOK
      <3> QED
        BY <2>2, <2>3, <3>1 DEF StartUpFinds, NeverWithoutKey, NeverWithoutSecret
    <2>7. (KeyRemains /\ StartsOnWhatWasLeft)'
      BY <2>2, <2>3 DEF KeyRemains, StartsOnWhatWasLeft
    <2> QED
      BY <2>4, <2>5, <2>6, <2>7 DEF Kept
  <1>5. CASE CreatePredefined
    BY <1>4, <1>5, PredefinedAssumption DEF CreatePredefined
  <1>6. ASSUME NEW k \in Key, GenerateKey(k) PROVE Kept'
    BY <1>4, <1>6 DEF GenerateKey, Generated
  <1>7. CASE ShowKey
    <2>1. Quiet /\ overlap # "now"
      BY <1>7, NobodyAsks DEF ShowKey
    <2>2. startup.key \in Key /\ startup.key \in Active /\ Active' = Active
      BY <1>7 DEF ShowKey, Kept, Typed, LocalsSet, StartUpFinds, Active
    <2>3. startup'.pc = "up" /\ startup.key \in shown'
      BY <1>7 DEF ShowKey
    <2>4. Typed'
      BY <1>7, <2>2 DEF ShowKey, Kept, Typed, TypeOK, LocalsSet
    <2>5. (ServedWhileUp /\ OneAtATime /\ OwnKeyStands /\ KeysArePresented)'
      BY <1>7, <2>1 DEF ShowKey, Quiet, ServedWhileUp, OneAtATime, OwnKeyStands,
                        KeysArePresented, AuthenticatedPcs, Operations
    <2>6. (StartUpFinds /\ NeverWithoutKey /\ NeverWithoutSecret)'
      BY <2>2, <2>3 DEF StartUpFinds, NeverWithoutKey, NeverWithoutSecret
    <2>7. (KeyRemains /\ StartsOnWhatWasLeft)'
      BY <2>2, <2>3 DEF KeyRemains, StartsOnWhatWasLeft
    <2> QED
      BY <2>4, <2>5, <2>6, <2>7 DEF Kept
  <1> QED
    BY <1>1, <1>2, <1>3, <1>5, <1>6, <1>7 DEF StartUp

LEMMA BeginKeeps == ASSUME Kept, Begin PROVE Kept'
  BY StartUpMoves, ConfigurationsAssumption DEF Begin, Kept, Typed, TypeOK

\* What a start-up has not shown stays unseen, and requests that overlapped
\* are remembered.
LEMMA EndKeeps == ASSUME Kept, End PROVE Kept'
  <1>1. startup'.pc = "down" /\ Quiet' /\ overlap' # "now" /\ Active' = Active
    BY DEF End, Quiet, Idle, Active, Kept, Typed, TypeOK
  <1>2. Typed'
    BY DEF End, Idle, Kept, Typed, TypeOK, LocalsSet, Operations
  <1>3. (ServedWhileUp /\ OneAtATime /\ OwnKeyStands /\ KeysArePresented)'
    BY <1>1 DEF Quiet, ServedWhileUp, OneAtATime, OwnKeyStands, KeysArePresented,
                AuthenticatedPcs, Operations
  <1>4. (StartUpFinds /\ NeverWithoutKey /\ NeverWithoutSecret)'
    BY <1>1 DEF End, Kept, StartUpFinds, NeverWithoutKey, NeverWithoutSecret
  <1>5. (KeyRemains /\ StartsOnWhatWasLeft)'
    BY <1>1 DEF KeyRemains, StartsOnWhatWasLeft
  <1> QED
    BY <1>2, <1>3, <1>4, <1>5 DEF Kept

-----------------------------------------------------------------------------
(* Requests.                                                               *)

RequestRecords ==
    [pc : {"idle", "authenticate", "context", "created", "update", "reread", "answered"}
              \cup Operations,
     key : Key \cup {None}, op : Operations, target : Key \cup {None}]

\* A step of a request in progress that leaves the keys alone: it needs only
\* to be right about the place it goes to.
LEMMA RequestMoves ==
  ASSUME Kept, NEW r \in Request, NEW pc \in {"context", "update", "reread", "answered"} \cup Operations,
         requests[r].pc # "idle", Goto(r, pc),
         UNCHANGED <<account, keys, configured, startup, overlap, unseen>>,
         shown \subseteq shown', shown' \subseteq Key,
         pc \in AuthenticatedPcs =>
             requests[r].pc \in AuthenticatedPcs \/ requests[r].key \in Active,
         pc = "context" => requests[r].pc = "authenticate",
         pc = "deactivate" => requests[r].pc = "context" /\ requests[r].op = "deactivate",
         pc = "update" => /\ requests[r].pc = "deactivate"
                          /\ requests[r].target \in Active
                          /\ requests[r].target # requests[r].key
  PROVE  Kept'
  <1> DEFINE x == [requests[r] EXCEPT !.pc = pc]
  <1>1. /\ requests[r] \in RequestRecords
        /\ requests' = [requests EXCEPT ![r] = x]
        /\ x \in RequestRecords
        /\ x.pc = pc /\ x.key = requests[r].key /\ x.op = requests[r].op
        /\ x.target = requests[r].target
    BY DEF Goto, Kept, Typed, TypeOK, RequestRecords
  <1>2. requests'[r] = x /\ \A s \in Request \ {r} : requests'[s] = requests[s]
    BY <1>1 DEF Kept, Typed, TypeOK
  <1>3. Active' = Active
    BY DEF Active
  <1> HIDE DEF x
  <1>4. TypeOK'
    BY <1>1 DEF Kept, Typed, TypeOK, RequestRecords
  <1>5. LocalsSet'
    BY <1>1, <1>2 DEF Kept, Typed, LocalsSet, Operations
  <1>6. (ServedWhileUp /\ OneAtATime /\ KeysArePresented)'
    BY <1>1, <1>2 DEF Kept, ServedWhileUp, OneAtATime, KeysArePresented
  <1>7. OwnKeyStands'
    BY <1>1, <1>2, <1>3 DEF Kept, OwnKeyStands
  <1>8. (StartUpFinds /\ NeverWithoutKey /\ NeverWithoutSecret)'
    BY <1>3 DEF Kept, StartUpFinds, NeverWithoutKey, NeverWithoutSecret
  <1>9. (KeyRemains /\ StartsOnWhatWasLeft)'
    BY <1>3 DEF Kept, KeyRemains, StartsOnWhatWasLeft
  <1> QED
    BY <1>4, <1>5, <1>6, <1>7, <1>8, <1>9 DEF Kept, Typed

\* A new request.  One beside others makes the rest of this process' life
\* uncertain.
LEMMA ArriveKeeps ==
  ASSUME Kept, NEW r \in Request, NEW k \in Key, NEW op \in Operations,
         NEW target \in Key \cup {None}, Arrive(r, k, op, target)
  PROVE  Kept'
  <1> DEFINE x == [pc |-> "authenticate", key |-> k, op |-> op, target |-> target]
  <1>1. /\ requests' = [requests EXCEPT ![r] = x]
        /\ requests'[r] = x /\ \A s \in Request \ {r} : requests'[s] = requests[s]
        /\ x.pc = "authenticate" /\ x.key = k /\ x.op = op /\ x.target = target
        /\ k \in shown /\ (op = "deactivate" => target \in Key)
    BY DEF Arrive, Kept, Typed, TypeOK
  <1>2. Active' = Active /\ overlap' \in {overlap, "now"} /\ startup' = startup
    BY DEF Arrive, Active
  <1>3. TypeOK'
    BY <1>1, <1>2 DEF Arrive, Kept, Typed, TypeOK
  <1> HIDE DEF x
  <1>4. LocalsSet'
    BY <1>1, <1>2 DEF Kept, Typed, LocalsSet, Operations
  <1>5. (ServedWhileUp /\ KeysArePresented)'
    BY <1>1, <1>2 DEF Arrive, Kept, ServedWhileUp, KeysArePresented
  <1>6. OneAtATime' /\ OwnKeyStands'
    <2>1. overlap' # "now" =>
              overlap = overlap' /\ \A s \in Request \ {r} : requests'[s].pc = "idle"
      BY <1>1 DEF Arrive
    <2> QED
      BY <1>1, <1>2, <2>1 DEF OneAtATime, OwnKeyStands, AuthenticatedPcs, Operations
  <1>7. (StartUpFinds /\ NeverWithoutKey /\ NeverWithoutSecret)'
    BY <1>2 DEF Arrive, Kept, StartUpFinds, NeverWithoutKey, NeverWithoutSecret
  <1>8. (KeyRemains /\ StartsOnWhatWasLeft)'
    BY <1>2 DEF Arrive, Kept, KeyRemains, StartsOnWhatWasLeft
  <1> QED
    BY <1>3, <1>4, <1>5, <1>6, <1>7, <1>8 DEF Kept, Typed

LEMMA CreateKeyKeeps ==
  ASSUME Kept, NEW r \in Request, NEW k \in Key, CreateKey(r, k)
  PROVE  Kept'
  <1> DEFINE x == [requests[r] EXCEPT !.pc = "created", !.target = k]
  <1>1. /\ requests[r] \in RequestRecords /\ requests[r].pc = "create"
        /\ requests' = [requests EXCEPT ![r] = x]
        /\ x \in RequestRecords
        /\ x.pc = "created" /\ x.key = requests[r].key /\ x.target = k
    BY DEF CreateKey, Kept, Typed, TypeOK, RequestRecords
  <1>2. requests'[r] = x /\ \A s \in Request \ {r} : requests'[s] = requests[s]
    BY <1>1 DEF Kept, Typed, TypeOK
  <1>3. /\ keys' \in [Key -> [status : Status, since : Request \cup {None}]]
        /\ Active' = Active \cup {k}
    BY Inserted DEF CreateKey, Generated
  <1>4. UNCHANGED <<account, shown, configured, startup, overlap, unseen>>
    BY DEF CreateKey
  <1> HIDE DEF x
  <1>5. TypeOK'
    BY <1>1, <1>3, <1>4 DEF Kept, Typed, TypeOK, RequestRecords
  <1>6. LocalsSet'
    BY <1>1, <1>2, <1>4 DEF Kept, Typed, LocalsSet
  <1>7. (ServedWhileUp /\ OneAtATime /\ KeysArePresented)'
    BY <1>1, <1>2, <1>4 DEF Kept, ServedWhileUp, OneAtATime, KeysArePresented
  <1>8. OwnKeyStands'
    BY <1>1, <1>2, <1>3, <1>4 DEF Kept, OwnKeyStands, AuthenticatedPcs, Operations
  <1>9. startup.pc = "up" /\ (overlap = "never" => Active \cap shown # {})
    BY <1>1 DEF Kept, ServedWhileUp, OwnKeyStands, KeysArePresented, AuthenticatedPcs, Operations
  <1>10. (StartUpFinds /\ NeverWithoutKey /\ NeverWithoutSecret)'
    BY <1>3, <1>4, <1>9 DEF StartUpFinds, NeverWithoutKey, NeverWithoutSecret
  <1>11. (KeyRemains /\ StartsOnWhatWasLeft)'
    BY <1>3, <1>4, <1>9 DEF KeyRemains, StartsOnWhatWasLeft
  <1> QED
    BY <1>5, <1>6, <1>7, <1>8, <1>10, <1>11 DEF Kept, Typed

\* The key that goes is another than the one presented, which stays.
LEMMA UpdateKeyKeeps ==
  ASSUME Kept, NEW r \in Request, UpdateKey(r)
  PROVE  Kept'
  <1> DEFINE x == [requests[r] EXCEPT !.pc = "reread"]
             k == requests[r].target
             own == requests[r].key
  <1>1. /\ requests[r] \in RequestRecords /\ requests[r].pc = "update"
        /\ requests' = [requests EXCEPT ![r] = x]
        /\ x \in RequestRecords
        /\ x.pc = "reread" /\ x.key = own /\ x.target = k
        /\ k \in Key
    BY DEF UpdateKey, Goto, Kept, Typed, TypeOK, LocalsSet, RequestRecords
  <1>2. requests'[r] = x /\ \A s \in Request \ {r} : requests'[s] = requests[s]
    BY <1>1 DEF Kept, Typed, TypeOK
  <1>3. /\ keys' \in [Key -> [status : Status, since : Request \cup {None}]]
        /\ Active' = Active \ {k}
    BY <1>1 DEF UpdateKey, Kept, Typed, TypeOK, Status, Active
  <1>4. UNCHANGED <<account, shown, configured, startup, overlap, unseen>>
    BY DEF UpdateKey
  <1>5. overlap # "now" => /\ own \in Active' \cap shown'
                           /\ \A s \in Request \ {r} : requests[s].pc = "idle"
    BY <1>1, <1>3, <1>4
    DEF Kept, OwnKeyStands, OneAtATime, KeysArePresented, AuthenticatedPcs
  <1>6. startup.pc = "up"
    BY <1>1 DEF Kept, ServedWhileUp
  <1> HIDE DEF x, k, own
  <1>7. TypeOK'
    BY <1>1, <1>3, <1>4 DEF Kept, Typed, TypeOK, RequestRecords
  <1>8. LocalsSet'
    BY <1>1, <1>2, <1>4 DEF Kept, Typed, LocalsSet, own, k
  <1>9. (ServedWhileUp /\ OneAtATime /\ KeysArePresented)'
    BY <1>1, <1>2, <1>4 DEF Kept, ServedWhileUp, OneAtATime, KeysArePresented, own
  <1>10. OwnKeyStands'
    BY <1>1, <1>2, <1>4, <1>5 DEF OwnKeyStands, AuthenticatedPcs, Operations
  <1>11. (StartUpFinds /\ NeverWithoutKey /\ NeverWithoutSecret)'
    BY <1>4, <1>5, <1>6 DEF StartUpFinds, NeverWithoutKey, NeverWithoutSecret
  <1>12. (KeyRemains /\ StartsOnWhatWasLeft)'
    BY <1>4, <1>5, <1>6 DEF KeyRemains, StartsOnWhatWasLeft
  <1> QED
    BY <1>7, <1>8, <1>9, <1>10, <1>11, <1>12 DEF Kept, Typed

LEMMA ReturnKeeps == ASSUME Kept, NEW r \in Request, Return(r) PROVE Kept'
  <1>1. /\ requests'[r] = Idle /\ \A s \in Request \ {r} : requests'[s] = requests[s]
        /\ UNCHANGED <<account, keys, shown, configured, startup, overlap, unseen>>
    BY DEF Return, Kept, Typed, TypeOK
  <1>2. Active' = Active /\ Idle.pc = "idle"
    BY <1>1 DEF Active, Idle
  <1>3. TypeOK'
    BY DEF Return, Kept, Typed, TypeOK, Idle, Operations
  <1>4. LocalsSet'
    BY <1>1, <1>2 DEF Kept, Typed, LocalsSet
  <1>5. (ServedWhileUp /\ OneAtATime /\ KeysArePresented)'
    BY <1>1, <1>2 DEF Kept, ServedWhileUp, OneAtATime, KeysArePresented
  <1>6. OwnKeyStands'
    BY <1>1, <1>2 DEF Kept, OwnKeyStands, AuthenticatedPcs, Operations
  <1>7. (StartUpFinds /\ NeverWithoutKey /\ NeverWithoutSecret)'
    BY <1>1, <1>2 DEF Kept, StartUpFinds, NeverWithoutKey, NeverWithoutSecret
  <1>8. (KeyRemains /\ StartsOnWhatWasLeft)'
    BY <1>1, <1>2 DEF Kept, KeyRemains, StartsOnWhatWasLeft
  <1> QED
    BY <1>3, <1>4, <1>5, <1>6, <1>7, <1>8 DEF Kept, Typed

LEMMA HandleKeeps == ASSUME Kept, NEW r \in Request, Handle(r) PROVE Kept'
  <1>1. requests[r] \in RequestRecords /\ shown \subseteq Key
    BY DEF Kept, Typed, TypeOK, RequestRecords
  <1>2. CASE Authenticate(r)
    BY <1>1, <1>2, RequestMoves DEF Authenticate, AuthenticatedPcs, Operations
  <1>3. CASE BuildContext(r)
    BY <1>1, <1>3, RequestMoves DEF BuildContext, AuthenticatedPcs, Operations, RequestRecords
  <1>4. CASE ListKeys(r) \/ Reread(r) \/ RequestRaises(r) \/ AnswerLost(r)
    BY <1>1, <1>4, RequestMoves
    DEF ListKeys, Reread, RequestRaises, AnswerLost, AuthenticatedPcs, Operations
  <1>5. CASE ShowCreated(r)
    <2>1. requests[r].target \in Key
      BY <1>5 DEF ShowCreated, Kept, Typed, LocalsSet
    <2> QED
      BY <1>1, <1>5, <2>1, RequestMoves DEF ShowCreated, AuthenticatedPcs, Operations
  <1>6. CASE FindKey(r)
    BY <1>1, <1>6, RequestMoves DEF FindKey, AuthenticatedPcs, Operations
  <1> QED
    BY <1>2, <1>3, <1>4, <1>5, <1>6, CreateKeyKeeps, UpdateKeyKeeps, ReturnKeeps DEF Handle

-----------------------------------------------------------------------------
LEMMA AlwaysKept == Spec => []Kept
  <1>1. Init => Kept
    <2> SUFFICES ASSUME Init PROVE Kept
      OBVIOUS
    <2>1. Typed
      BY ConfigurationsAssumption DEF Init, Typed, TypeOK, LocalsSet, Status, Idle, Operations
    <2>2. Active = {} /\ Idle.pc = "idle"
      BY DEF Init, Active, Idle
    <2> QED
      BY <2>1, <2>2
      DEF Init, Kept, ServedWhileUp, OneAtATime, OwnKeyStands, KeysArePresented, StartUpFinds,
          NeverWithoutKey, NeverWithoutSecret, KeyRemains, StartsOnWhatWasLeft,
          AuthenticatedPcs, Operations
  <1>2. Kept /\ [Next]_apiKeyVars => Kept'
    <2> SUFFICES ASSUME Kept, [Next]_apiKeyVars PROVE Kept'
      OBVIOUS
    <2>1. ASSUME NEW r \in Request, Arrives(r) PROVE Kept'
      BY <2>1, ArriveKeeps DEF Arrives
    <2>2. CASE UNCHANGED apiKeyVars
      BY <2>2
      DEF apiKeyVars, Kept, Typed, TypeOK, LocalsSet, ServedWhileUp, OneAtATime, OwnKeyStands,
          KeysArePresented, StartUpFinds, NeverWithoutKey, NeverWithoutSecret, KeyRemains,
          StartsOnWhatWasLeft, Active
    <2> QED
      BY <2>1, <2>2, BeginKeeps, StartUpKeeps, HandleKeeps, EndKeeps DEF Next
  <1> QED
    BY <1>1, <1>2, PTL DEF Spec

\* Table api_keys and the locals of start-ups and requests hold what their
\* declarations say.
THEOREM Typing == Spec => []TypeOK
  BY AlwaysKept, PTL DEF Kept, Typed

\* deactivate_key never leaves a serving process without an active key, after
\* any number of requests in turn, lost answers, crashes and new settings.
THEOREM AnActiveKeyRemains == Spec => []KeyRemains
  BY AlwaysKept, PTL DEF Kept

\* Nor without one whose secret somebody was shown or configured.
THEOREM SomebodyHoldsAKey == Spec => []KeyIsHeld
  <1>1. Kept => KeyIsHeld
    BY DEF Kept, KeyIsHeld, KeyRemains, NeverWithoutSecret
  <1> QED
    BY <1>1, AlwaysKept, PTL

\* ensure_exists fails only on what requests that overlapped have left.
THEOREM StartUpFailsOnlyAfterOverlap == Spec => []StartsOnWhatWasLeft
  BY AlwaysKept, PTL DEF Kept

\* Requests in turn never write a deactivated key again.
THEOREM DeactivationsStand == Spec => DeactivationStands
  <1> DEFINE Stands == \A k \in Key : (overlap # "now" /\ keys[k].status = "inactive")
                                          => keys'[k] = keys[k]
  <1>1. Kept /\ [Next]_apiKeyVars => [Stands]_keys
    <2> SUFFICES ASSUME Kept, Next, keys' # keys PROVE Stands
      BY DEF apiKeyVars
    <2>1. ASSUME NEW k \in Key, keys[k].status = "absent", Insert(k) PROVE Stands
      BY <2>1, Inserted
    <2>2. ASSUME NEW r \in Request, UpdateKey(r) PROVE Stands
      BY <2>2 DEF UpdateKey, Kept, Typed, TypeOK, OwnKeyStands, Active
    <2>3. \/ \E k \in Key : keys[k].status = "absent" /\ Insert(k)
          \/ \E r \in Request : UpdateKey(r)
      <3>1. ASSUME NEW r \in Request, Handle(r)
            PROVE  \/ UpdateKey(r) \/ \E k \in Key : CreateKey(r, k)
        BY <3>1 DEF Handle, Authenticate, BuildContext, ListKeys, ShowCreated, AnswerLost,
                    FindKey, Reread, RequestRaises, Return
      <3>2. ASSUME StartUp
            PROVE  CreatePredefined \/ \E k \in Key : GenerateKey(k)
        BY <3>2 DEF StartUp, EnsureAccount, ListServiceKeys, CreatePredefinedRaises, ShowKey
      <3> QED
        BY <3>1, <3>2, PredefinedAssumption
        DEF Next, Begin, Arrives, Arrive, End, CreatePredefined, GenerateKey, CreateKey, Generated
    <2> QED
      BY <2>1, <2>2, <2>3
  <1> QED
    BY <1>1, AlwaysKept, PTL DEF Spec, DeactivationStands
=============================================================================
