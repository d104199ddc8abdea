-------------------------- MODULE Recovery_proofs --------------------------
(***************************************************************************)
(* What Recovery promises for any number of players, processes and rooms,  *)
(* and whatever crashes and fails: the promise of CrashedHand is kept.     *)
(***************************************************************************)
EXTENDS Recovery, TLAPS

-----------------------------------------------------------------------------
(* Types.                                                                  *)

LEMMA DerivedIsAmounts ==
    ASSUME TypeOK
    PROVE  Derived \in [User -> Nat] /\ NoAmounts \in [User -> Nat]
<1>1. ASSUME NEW u \in User PROVE (IF Owed(u) > 0 THEN Owed(u) ELSE 0) \in Nat
      BY DEF TypeOK, Ledgers, Owed
<1> QED BY <1>1 DEF Derived, NoAmounts

LEMMA RowsHaveTypes ==
    /\ NoIncident \in Incidents /\ Offline \in Services /\ NotCreated \in Replacements
    /\ [Offline EXCEPT !.state = "down"] \in Services
    /\ Left("gone") \in Replacements /\ Left("over") \in Replacements
BY RecoveryAssumption DEF NoIncident, Incidents, Statuses, Offline, Services, Tasks, Expiries,
   NoAmounts, NotCreated, Replacements, Left

LEMMA InitTypeOK == Init => TypeOK
<1> SUFFICES ASSUME Init PROVE TypeOK OBVIOUS
<1>1. ledger \in Ledgers
  <2>1. PICK history \in Histories : ledger = LedgerAfter(history) BY DEF Init
  <2>2. history.returned \in [User -> Nat] /\ history.paid \in Nat BY RecoveryAssumption
  <2> QED BY <2>1, <2>2, RecoveryAssumption DEF LedgerAfter, Ledgers, NoAmounts
<1>2. counts \in [faults : Nat, drops : Nat] BY DEF Init
<1> QED BY <1>1, <1>2, RowsHaveTypes DEF Init, TypeOK

LEMMA DiscardKeepsType ==
    ASSUME TypeOK, NEW r \in Room \cup {NoRoom}, Discard(r)
    PROVE  rooms' \in [Room -> Replacements]
BY RowsHaveTypes DEF TypeOK, Discard

LEMMA CallKeepsType ==
    ASSUME TypeOK, NEW call, Fails(call) \/ Answers
    PROVE  counts' \in [faults : Nat, drops : Nat]
BY DEF TypeOK, Fails, Answers

LEMMA MarkKeepsType ==
    ASSUME TypeOK, MayMarkManualReview \/ MarkManualReview
    PROVE  incident' \in Incidents /\ finished' \in BOOLEAN
BY ZenonT(60) DEF TypeOK, MayMarkManualReview, MarkManualReview, Incidents, Statuses, Pending

(* The changes that the actions make to a service and to a room.           *)
LEMMA ServiceEdits ==
    ASSUME TypeOK, NEW s \in Server
    PROVE  /\ [servers EXCEPT ![s].state = "up"] \in [Server -> Services]
           /\ \A t \in Tasks : [servers EXCEPT ![s].task = t] \in [Server -> Services]
           /\ \A t \in Tasks, e \in Expiries :
                [servers EXCEPT ![s].task = t, ![s].expiry = e] \in [Server -> Services]
           /\ \A t \in Tasks, f \in Nat :
                [servers EXCEPT ![s].task = t, ![s].fence = f] \in [Server -> Services]
           /\ \A t \in Tasks, r \in Room \cup {NoRoom} :
                [servers EXCEPT ![s].task = t, ![s].room = r] \in [Server -> Services]
           /\ \A t \in Tasks, r \in Room \cup {NoRoom} :
                [servers EXCEPT ![s].task = t, ![s].renews = r] \in [Server -> Services]
           /\ \A n \in 0..Retries + 1 : [servers EXCEPT ![s].tries = n] \in [Server -> Services]
           /\ \A r \in Room \cup {NoRoom}, n \in 0..Retries + 1 :
                [servers EXCEPT ![s].renews = r, ![s].tries = n] \in [Server -> Services]
           /\ \A q, r \in Room \cup {NoRoom}, n \in 0..Retries + 1 :
                [servers EXCEPT ![s].renews = q, ![s].tries = n, ![s].room = r] \in [Server -> Services]
           /\ \A e \in Expiries, l \in [User -> Nat] :
                [servers EXCEPT ![s].expiry = e, ![s].list = l] \in [Server -> Services]
           /\ \A e \in Expiries, l \in [User -> Nat], r \in Room \cup {NoRoom} :
                [servers EXCEPT ![s].expiry = e, ![s].list = l, ![s].room = r] \in [Server -> Services]
<1> DEFINE x == servers[s]
<1>1. x \in Services BY DEF TypeOK
<1>2. \A y \in Services : [servers EXCEPT ![s] = y] \in [Server -> Services] BY DEF TypeOK
<1>3. [x EXCEPT !.state = "up"] \in Services BY <1>1 DEF Services
<1>4. \A t \in Tasks : [x EXCEPT !.task = t] \in Services BY <1>1 DEF Services
<1>5. \A t \in Tasks, e \in Expiries : [x EXCEPT !.task = t, !.expiry = e] \in Services
      BY <1>1 DEF Services
<1>6. \A t \in Tasks, f \in Nat : [x EXCEPT !.task = t, !.fence = f] \in Services
      BY <1>1 DEF Services
<1>7. \A t \in Tasks, r \in Room \cup {NoRoom} : [x EXCEPT !.task = t, !.room = r] \in Services
      BY <1>1 DEF Services
<1>8. \A t \in Tasks, r \in Room \cup {NoRoom} : [x EXCEPT !.task = t, !.renews = r] \in Services
      BY <1>1 DEF Services
<1>9. \A n \in 0..Retries + 1 : [x EXCEPT !.tries = n] \in Services BY <1>1 DEF Services
<1>10. \A r \in Room \cup {NoRoom}, n \in 0..Retries + 1 :
         [x EXCEPT !.renews = r, !.tries = n] \in Services
      BY <1>1 DEF Services
<1>12. \A e \in Expiries, l \in [User -> Nat] : [x EXCEPT !.expiry = e, !.list = l] \in Services
      BY <1>1 DEF Services
<1>a. [servers EXCEPT ![s].state = "up"] \in [Server -> Services] BY <1>2, <1>3
<1>b. \A t \in Tasks : [servers EXCEPT ![s].task = t] \in [Server -> Services] BY <1>2, <1>4
<1>c. \A t \in Tasks, e \in Expiries :
        [servers EXCEPT ![s].task = t, ![s].expiry = e] \in [Server -> Services] BY <1>2, <1>5
<1>d. \A t \in Tasks, f \in Nat :
        [servers EXCEPT ![s].task = t, ![s].fence = f] \in [Server -> Services] BY <1>2, <1>6
<1>e. \A t \in Tasks, r \in Room \cup {NoRoom} :
        [servers EXCEPT ![s].task = t, ![s].room = r] \in [Server -> Services] BY <1>2, <1>7
<1>f. \A t \in Tasks, r \in Room \cup {NoRoom} :
        [servers EXCEPT ![s].task = t, ![s].renews = r] \in [Server -> Services] BY <1>2, <1>8
<1>g. \A n \in 0..Retries + 1 : [servers EXCEPT ![s].tries = n] \in [Server -> Services]
      BY <1>2, <1>9
<1>h. \A r \in Room \cup {NoRoom}, n \in 0..Retries + 1 :
        [servers EXCEPT ![s].renews = r, ![s].tries = n] \in [Server -> Services] BY <1>2, <1>10
<1>i. ASSUME NEW q \in Room \cup {NoRoom}, NEW r \in Room \cup {NoRoom}, NEW n \in 0..Retries + 1
      PROVE  [servers EXCEPT ![s].renews = q, ![s].tries = n, ![s].room = r] \in [Server -> Services]
  <2>1. [x EXCEPT !.renews = q, !.tries = n, !.room = r] \in Services BY <1>1 DEF Services
  <2> QED BY <1>2, <2>1
<1>j. \A e \in Expiries, l \in [User -> Nat] :
        [servers EXCEPT ![s].expiry = e, ![s].list = l] \in [Server -> Services] BY <1>2, <1>12
<1>k. ASSUME NEW e \in Expiries, NEW l \in [User -> Nat], NEW r \in Room \cup {NoRoom}
      PROVE  [servers EXCEPT ![s].expiry = e, ![s].list = l, ![s].room = r] \in [Server -> Services]
  <2>1. [x EXCEPT !.expiry = e, !.list = l, !.room = r] \in Services BY <1>1 DEF Services
  <2> QED BY <1>2, <2>1
<1> HIDE DEF x
<1> QED BY <1>a, <1>b, <1>c, <1>d, <1>e, <1>f, <1>g, <1>h, <1>i, <1>j, <1>k

LEMMA RoomEdits ==
    ASSUME TypeOK, NEW r \in Room
    PROVE  /\ \A x \in Replacements : [rooms EXCEPT ![r] = x] \in [Room -> Replacements]
           /\ \A u \in User, n \in Nat :
                [rooms EXCEPT ![r].here = @ \cup {u}, ![r].lapsing = @ \ {u}, ![r].checks = n]
                  \in [Room -> Replacements]
           /\ \A u \in User :
                [rooms EXCEPT ![r].here = @ \ {u}, ![r].lapsing = @ \cup {u}]
                  \in [Room -> Replacements]
           /\ \A u \in User :
                [rooms EXCEPT ![r].lapsing = @ \ {u}, ![r].seats = @ \ {u}]
                  \in [Room -> Replacements]
           /\ rooms[r].checks > 0 =>
                [rooms[r] EXCEPT !.state = "open", !.checks = @ - 1] \in Replacements
<1> DEFINE x == rooms[r]
<1>1. x \in Replacements BY DEF TypeOK
<1>2. \A y \in Replacements : [rooms EXCEPT ![r] = y] \in [Room -> Replacements] BY DEF TypeOK
<1>3. ASSUME NEW u \in User, NEW n \in Nat
      PROVE  [rooms EXCEPT ![r].here = @ \cup {u}, ![r].lapsing = @ \ {u}, ![r].checks = n]
               \in [Room -> Replacements]
  <2>1. [x EXCEPT !.here = @ \cup {u}, !.lapsing = @ \ {u}, !.checks = n] \in Replacements
        BY <1>1 DEF Replacements
  <2> QED BY ZenonT(60), <1>2, <2>1
<1>4. ASSUME NEW u \in User
      PROVE  /\ [rooms EXCEPT ![r].here = @ \ {u}, ![r].lapsing = @ \cup {u}]
                   \in [Room -> Replacements]
             /\ [rooms EXCEPT ![r].lapsing = @ \ {u}, ![r].seats = @ \ {u}]
                  \in [Room -> Replacements]
  <2>1. [x EXCEPT !.here = @ \ {u}, !.lapsing = @ \cup {u}] \in Replacements
        BY <1>1 DEF Replacements
  <2>2. [x EXCEPT !.lapsing = @ \ {u}, !.seats = @ \ {u}] \in Replacements
        BY <1>1 DEF Replacements
  <2> QED BY <1>2, <2>1, <2>2
<1>5. ASSUME x.checks > 0 PROVE [x EXCEPT !.state = "open", !.checks = @ - 1] \in Replacements
  <2>1. x.checks - 1 \in Nat BY <1>1, <1>5 DEF Replacements
  <2>2. \A n \in Nat : [x EXCEPT !.state = "open", !.checks = n] \in Replacements
        BY <1>1 DEF Replacements
  <2> QED BY <2>1, <2>2
<1> QED BY <1>2, <1>3, <1>4, <1>5

LEMMA FieldsHaveTypes ==
    ASSUME TypeOK
    PROVE  /\ \A s \in Server : /\ servers[s].fence \in Nat
                               /\ servers[s].room \in Room \cup {NoRoom}
                               /\ servers[s].expiry \in Expiries
                               /\ servers[s].tries \in 0..Retries + 1
                               /\ servers[s].list \in [User -> Nat]
           /\ \A r \in Room : rooms[r].checks \in Nat
<1>1. \A s \in Server : servers[s] \in Services BY DEF TypeOK
<1>2. \A r \in Room : rooms[r] \in Replacements BY DEF TypeOK
<1> QED BY <1>1, <1>2 DEF Services, Replacements

LEMMA NamesHaveTypes ==
    /\ "load" \in Tasks /\ "open" \in Tasks /\ "replace" \in Tasks /\ "create" \in Tasks
    /\ "map" \in Tasks /\ "review" \in Tasks /\ "idle" \in Tasks
    /\ "none" \in Expiries /\ "due" \in Expiries /\ "derived" \in Expiries
    /\ "escalate" \in Expiries
    /\ NoRoom \in Room \cup {NoRoom} /\ 0 \in 0..Retries + 1
BY RecoveryAssumption DEF Tasks, Expiries

(* The start of a process.                                                 *)
LEMMA StartKeepsType ==
    ASSUME TypeOK, NEW s \in Server, Start(s) \/ Load(s) \/ OpenIncident(s) \/ ReviewInvalid(s)
    PROVE  TypeOK'
<1>1. CASE Start(s) BY <1>1, ServiceEdits DEF Start, TypeOK
<1>2. CASE Load(s)
  <2>1. PICK t \in Tasks : servers' = [servers EXCEPT ![s].task = t]
        BY <1>2, NamesHaveTypes DEF Load
  <2>2. servers' \in [Server -> Services] BY <2>1, ServiceEdits
  <2> QED BY <1>2, <2>2 DEF Load, TypeOK
<1>3. CASE OpenIncident(s)
  <2>1. AfterOpening[checkpoint] \in Tasks
        BY RecoveryAssumption DEF TypeOK, AfterOpening, Tasks
  <2>2. Opened \in Incidents BY DEF TypeOK, Opened, Incidents, Statuses
  <2>3. counts' \in [faults : Nat, drops : Nat] BY <1>3, CallKeepsType DEF OpenIncident
  <2>4. incident' \in Incidents BY <1>3, <2>2 DEF OpenIncident, TypeOK
  <2>5. servers' \in [Server -> Services]
    <3> DEFINE w == IF checkpoint = "invalid" THEN servers[s].expiry ELSE "due"
    <3>1. w \in Expiries BY FieldsHaveTypes, NamesHaveTypes
    <3>2. \/ servers' = [servers EXCEPT ![s].task = AfterOpening[checkpoint], ![s].expiry = w]
          \/ servers' = [servers EXCEPT ![s].task = "idle"]
          BY <1>3 DEF OpenIncident, TypeOK
    <3> HIDE DEF w
    <3>3. CASE servers' = [servers EXCEPT ![s].task = AfterOpening[checkpoint], ![s].expiry = w]
          BY ZenonT(60), <3>3, <3>1, <2>1, ServiceEdits
    <3>4. CASE servers' = [servers EXCEPT ![s].task = "idle"]
          BY ZenonT(60), <3>4, ServiceEdits, NamesHaveTypes
    <3> QED BY <3>2, <3>3, <3>4
  <2> QED BY <1>3, <2>3, <2>4, <2>5 DEF OpenIncident, TypeOK
<1>4. CASE ReviewInvalid(s)
  <2>1. counts' \in [faults : Nat, drops : Nat] BY <1>4, CallKeepsType DEF ReviewInvalid
  <2>2. incident' \in Incidents /\ finished' \in BOOLEAN BY <1>4, MarkKeepsType DEF ReviewInvalid
  <2>3. servers' \in [Server -> Services]
        BY <1>4, ServiceEdits, NamesHaveTypes DEF ReviewInvalid
  <2> QED BY <1>4, <2>1, <2>2, <2>3 DEF ReviewInvalid, TypeOK
<1> QED BY <1>1, <1>2, <1>3, <1>4

(* The replacement of the room.                                            *)
LEMMA ReplaceKeepsType ==
    ASSUME TypeOK, NEW s \in Server, Replace(s)
    PROVE  TypeOK'
<1>1. CASE GiveUpReplacing(s)
  <2>1. PICK e \in Expiries : servers' = [servers EXCEPT ![s].task = "idle", ![s].expiry = e]
    <3> DEFINE w == IF servers[s].expiry = "none" THEN "due" ELSE servers[s].expiry
    <3>1. w \in Expiries BY FieldsHaveTypes, NamesHaveTypes
    <3>2. servers' = [servers EXCEPT ![s].task = "idle", ![s].expiry = w]
          BY <1>1 DEF GiveUpReplacing, TypeOK
    <3> QED BY <3>1, <3>2
  <2>2. servers' \in [Server -> Services] BY <2>1, ServiceEdits, NamesHaveTypes
  <2> QED BY <1>1, <2>2 DEF GiveUpReplacing, TypeOK
<1>2. CASE Claim(s)
  <2>1. NextFence(s) \in Nat BY DEF NextFence, TypeOK, Incidents
  <2>2. counts' \in [faults : Nat, drops : Nat] BY <1>2, CallKeepsType DEF Claim
  <2>3. incident' \in Incidents BY <1>2, <2>1 DEF Claim, TypeOK, Incidents
  <2>4. servers' \in [Server -> Services]
    <3>1. \/ servers' = servers
          \/ servers' = [servers EXCEPT ![s].task = "create", ![s].fence = NextFence(s)]
          BY <1>2 DEF Claim
    <3>2. CASE servers' = [servers EXCEPT ![s].task = "create", ![s].fence = NextFence(s)]
          BY <3>2, <2>1, ServiceEdits, NamesHaveTypes
    <3> QED BY <3>1, <3>2 DEF TypeOK
  <2> QED BY <1>2, <2>2, <2>3, <2>4 DEF Claim, TypeOK
<1>3. CASE Create(s)
  <2>1. counts' \in [faults : Nat, drops : Nat] BY <1>3, CallKeepsType DEF Create
  <2>2. Locked(s) \in Replacements
        BY RowsHaveTypes, FieldsHaveTypes DEF Locked, Replacements
  <2>3. rooms' \in [Room -> Replacements]
    <3>1. rooms' = rooms \/ \E r \in Room : rooms' = [rooms EXCEPT ![r] = Locked(s)]
          BY <1>3 DEF Create
    <3> QED BY ZenonT(60), <3>1, <2>2, RoomEdits DEF TypeOK
  <2>4. servers' \in [Server -> Services]
    <3>1. \/ servers' = [servers EXCEPT ![s].task = "replace"]
          \/ \E r \in Room : servers' = [servers EXCEPT ![s].task = "map", ![s].room = r]
          BY <1>3 DEF Create
    <3>2. CASE servers' = [servers EXCEPT ![s].task = "replace"]
          BY <3>2, ServiceEdits, NamesHaveTypes
    <3>3. ASSUME NEW r \in Room, servers' = [servers EXCEPT ![s].task = "map", ![s].room = r]
          PROVE  servers' \in [Server -> Services]
          BY <3>3, ServiceEdits, NamesHaveTypes
    <3> QED BY <3>1, <3>2, <3>3
  <2> QED BY <1>3, <2>1, <2>3, <2>4 DEF Create, TypeOK
<1>4. CASE Map(s)
  <2>1. counts' \in [faults : Nat, drops : Nat] BY <1>4, CallKeepsType DEF Map
  <2>2. incident' \in Incidents
    <3>1. incident' = incident \/ SaveMapping(s) BY <1>4 DEF Map
    <3> QED BY <3>1, FieldsHaveTypes DEF SaveMapping, TypeOK, Incidents
  <2>3. rooms' \in [Room -> Replacements]
    <3>1. rooms' = rooms \/ Discard(servers[s].room) BY <1>4 DEF Map
    <3> QED BY <3>1, FieldsHaveTypes, DiscardKeepsType DEF TypeOK
  <2>4. servers' \in [Server -> Services]
    <3>1. \/ servers' = [servers EXCEPT ![s].task = "idle", ![s].renews = servers[s].room]
          \/ servers' = [servers EXCEPT ![s].task = "replace", ![s].room = NoRoom]
          BY <1>4 DEF Map
    <3>2. servers[s].room \in Room \cup {NoRoom} BY FieldsHaveTypes
    <3>3. CASE servers' = [servers EXCEPT ![s].task = "idle", ![s].renews = servers[s].room]
          BY <3>2, <3>3, ServiceEdits, NamesHaveTypes
    <3>4. CASE servers' = [servers EXCEPT ![s].task = "replace", ![s].room = NoRoom]
          BY <3>4, ServiceEdits, NamesHaveTypes
    <3> QED BY <3>1, <3>3, <3>4
  <2> QED BY <1>4, <2>1, <2>2, <2>3, <2>4 DEF Map, TypeOK
<1> QED BY <1>1, <1>2, <1>3, <1>4 DEF Replace

(* The lease.                                                              *)
LEMMA LeaseKeepsType ==
    ASSUME TypeOK, NEW s \in Server, Renew(s) \/ GiveUpLease(s)
    PROVE  TypeOK'
<1>1. CASE Renew(s)
  <2>1. counts' \in [faults : Nat, drops : Nat] BY <1>1, CallKeepsType DEF Renew
  <2>2. PICK n \in 0..Retries + 1 : servers' = [servers EXCEPT ![s].tries = n]
    <3>1. servers[s].tries + 1 \in 0..Retries + 1
          BY <1>1, RecoveryAssumption, FieldsHaveTypes DEF Renew
    <3>2. \/ servers' = [servers EXCEPT ![s].tries = 0]
          \/ servers' = [servers EXCEPT ![s].tries = servers[s].tries + 1]
          BY <1>1 DEF Renew, TypeOK
    <3> QED BY <3>1, <3>2, NamesHaveTypes
  <2>3. servers' \in [Server -> Services] BY <2>2, ServiceEdits
  <2> QED BY <1>1, <2>1, <2>3 DEF Renew, TypeOK
<1>2. CASE GiveUpLease(s)
  <2>1. counts' \in [faults : Nat, drops : Nat] BY <1>2, CallKeepsType DEF GiveUpLease
  <2>2. incident' \in Incidents /\ finished' \in BOOLEAN BY <1>2, MarkKeepsType DEF GiveUpLease
  <2>3. rooms' \in [Room -> Replacements]
    <3>1. rooms' = rooms \/ Discard(servers[s].room) BY <1>2 DEF GiveUpLease
    <3> QED BY <3>1, FieldsHaveTypes, DiscardKeepsType DEF TypeOK
  <2>4. servers' \in [Server -> Services]
    <3>1. \/ servers' = [servers EXCEPT ![s].renews = NoRoom, ![s].tries = 0, ![s].room = NoRoom]
          \/ servers' = [servers EXCEPT ![s].renews = NoRoom, ![s].tries = 0]
          BY <1>2 DEF GiveUpLease
    <3>2. CASE servers' = [servers EXCEPT ![s].renews = NoRoom, ![s].tries = 0, ![s].room = NoRoom]
          BY <3>2, ServiceEdits, NamesHaveTypes
    <3>3. CASE servers' = [servers EXCEPT ![s].renews = NoRoom, ![s].tries = 0]
          BY <3>3, ServiceEdits, NamesHaveTypes
    <3> QED BY <3>1, <3>2, <3>3
  <2> QED BY <1>2, <2>1, <2>2, <2>3, <2>4 DEF GiveUpLease, TypeOK
<1> QED BY <1>1, <1>2

(* The deadline.                                                           *)
LEMMA DroppedKeepsType ==
    ASSUME TypeOK, NEW s \in Server, NEW e \in {"none", "escalate"},
           \/ servers' = [servers EXCEPT ![s].expiry = e, ![s].list = NoAmounts]
           \/ servers' = [servers EXCEPT ![s].expiry = e, ![s].list = NoAmounts, ![s].room = NoRoom]
    PROVE  servers' \in [Server -> Services]
<1>1. e \in Expiries BY DEF Expiries
<1>2. CASE servers' = [servers EXCEPT ![s].expiry = e, ![s].list = NoAmounts]
      BY <1>1, <1>2, ServiceEdits, DerivedIsAmounts
<1>3. CASE servers' = [servers EXCEPT ![s].expiry = e, ![s].list = NoAmounts, ![s].room = NoRoom]
      BY <1>1, <1>3, ServiceEdits, DerivedIsAmounts, NamesHaveTypes
<1> QED BY <1>2, <1>3

LEMMA ExpirationKeepsType ==
    ASSUME TypeOK, NEW s \in Server, Expiration(s)
    PROVE  TypeOK'
<1>1. CASE Derive(s)
  <2>1. counts' \in [faults : Nat, drops : Nat] BY <1>1, CallKeepsType DEF Derive
  <2>2. PICK e \in Expiries, l \in [User -> Nat] :
          servers' = [servers EXCEPT ![s].expiry = e, ![s].list = l]
    <3> DEFINE w == IF Pending THEN Derived ELSE NoAmounts
    <3>1. w \in [User -> Nat] BY DerivedIsAmounts
    <3>2. \/ servers' = [servers EXCEPT ![s].expiry = "derived", ![s].list = w]
          \/ servers' = [servers EXCEPT ![s].expiry = "escalate", ![s].list = NoAmounts]
          BY <1>1 DEF Derive
    <3> HIDE DEF w
    <3> QED BY <3>1, <3>2, DerivedIsAmounts, NamesHaveTypes
  <2>3. servers' \in [Server -> Services] BY <2>2, ServiceEdits
  <2> QED BY <1>1, <2>1, <2>3 DEF Derive, TypeOK
<1>2. CASE ExpireTooEarly(s)
  <2>1. servers' \in [Server -> Services]
        BY <1>2, ServiceEdits, NamesHaveTypes, DerivedIsAmounts DEF ExpireTooEarly
  <2> QED BY <1>2, <2>1 DEF ExpireTooEarly, TypeOK
<1>3. CASE ExpireRaises(s)
  <2>1. counts' \in [faults : Nat, drops : Nat] BY <1>3, CallKeepsType DEF ExpireRaises
  <2>2. servers' \in [Server -> Services]
        BY <1>3, ServiceEdits, NamesHaveTypes, DerivedIsAmounts DEF ExpireRaises
  <2> QED BY <1>3, <2>1, <2>2 DEF ExpireRaises, TypeOK
<1>4. CASE ExpireRefunds(s)
  <2>1. counts' \in [faults : Nat, drops : Nat] BY <1>4, CallKeepsType DEF ExpireRefunds
  <2>2. incident' \in Incidents BY <1>4 DEF ExpireRefunds, TypeOK, Incidents, Statuses
  <2>3. ledger' \in Ledgers BY <1>4, FieldsHaveTypes DEF ExpireRefunds, TypeOK, Ledgers
  <2>4. rooms' \in [Room -> Replacements]
    <3>1. rooms' = rooms \/ Discard(servers[s].room) BY <1>4 DEF ExpireRefunds
    <3> QED BY <3>1, FieldsHaveTypes, DiscardKeepsType DEF TypeOK
  <2>5. servers' \in [Server -> Services]
        BY <1>4, DroppedKeepsType DEF ExpireRefunds
  <2> QED BY <1>4, <2>1, <2>2, <2>3, <2>4, <2>5 DEF ExpireRefunds, TypeOK
<1>5. CASE ExpireDecided(s)
  <2>1. rooms' \in [Room -> Replacements]
    <3>1. rooms' = rooms \/ Discard(servers[s].room) BY <1>5 DEF ExpireDecided
    <3> QED BY <3>1, FieldsHaveTypes, DiscardKeepsType DEF TypeOK
  <2>2. servers' \in [Server -> Services]
        BY <1>5, DroppedKeepsType DEF ExpireDecided
  <2> QED BY <1>5, <2>1, <2>2 DEF ExpireDecided, TypeOK
<1>6. CASE Escalate(s)
  <2>1. counts' \in [faults : Nat, drops : Nat] BY <1>6, CallKeepsType DEF Escalate
  <2>2. incident' \in Incidents /\ finished' \in BOOLEAN BY <1>6, MarkKeepsType DEF Escalate
  <2>3. rooms' \in [Room -> Replacements]
    <3>1. rooms' = rooms \/ Discard(servers[s].room) BY <1>6 DEF Escalate
    <3> QED BY <3>1, FieldsHaveTypes, DiscardKeepsType DEF TypeOK
  <2>4. servers' \in [Server -> Services]
        BY <1>6, DroppedKeepsType DEF Escalate
  <2> QED BY <1>6, <2>1, <2>2, <2>3, <2>4 DEF Escalate, TypeOK
<1> QED BY <1>1, <1>2, <1>3, <1>4, <1>5, <1>6 DEF Expiration

LEMMA CrashKeepsType ==
    ASSUME TypeOK, NEW s \in Server, Crash(s)
    PROVE  TypeOK'
<1>1. rooms' \in [Room -> Replacements] BY RowsHaveTypes DEF Crash, TypeOK
<1>2. servers' \in [Server -> Services] BY RowsHaveTypes DEF Crash, TypeOK
<1> QED BY <1>1, <1>2 DEF Crash, TypeOK

(* The rooms.                                                              *)
LEMMA TableKeepsType ==
    ASSUME TypeOK, NEW r \in Room, Table(r)
    PROVE  TypeOK'
<1>1. CASE Resolve(r)
  <2>1. counts' \in [faults : Nat, drops : Nat] BY <1>1, CallKeepsType DEF Resolve
  <2>2. incident' \in Incidents BY <1>1 DEF Resolve, TypeOK, Incidents, Statuses
  <2>3. rooms' \in [Room -> Replacements]
    <3>1. rooms[r].checks > 0 BY <1>1 DEF Resolve
    <3>2. Unlocked(r) \in Replacements BY <3>1, RoomEdits, RowsHaveTypes DEF Unlocked
    <3>3. Discard(r) \/ rooms' = [rooms EXCEPT ![r] = Unlocked(r)] BY <1>1 DEF Resolve
    <3>4. CASE Discard(r) BY <3>4, DiscardKeepsType
    <3>5. CASE rooms' = [rooms EXCEPT ![r] = Unlocked(r)] BY ZenonT(60), <3>2, <3>5, RoomEdits
    <3> QED BY <3>3, <3>4, <3>5
  <2> QED BY <1>1, <2>1, <2>2, <2>3 DEF Resolve, TypeOK
<1>2. CASE HandEnds(r)
  <2>1. rooms' \in [Room -> Replacements] BY <1>2, RoomEdits, RowsHaveTypes DEF HandEnds
  <2>2. ledger' \in Ledgers BY <1>2 DEF HandEnds, MayMoveMoney, TypeOK, Ledgers
  <2> QED BY <1>2, <2>1, <2>2 DEF HandEnds, TypeOK
<1>3. ASSUME NEW u \in User, Join(r, u) PROVE TypeOK'
  <2>1. PICK n \in Nat :
          rooms' = [rooms EXCEPT ![r].here = @ \cup {u}, ![r].lapsing = @ \ {u}, ![r].checks = n]
    <3> DEFINE w == IF Unlocks(r, u) THEN rooms[r].checks + 1 ELSE rooms[r].checks
    <3>1. w \in Nat BY FieldsHaveTypes
    <3>2. rooms' = [rooms EXCEPT ![r].here = @ \cup {u}, ![r].lapsing = @ \ {u}, ![r].checks = w]
          BY <1>3 DEF Join, TypeOK
    <3> QED BY <3>1, <3>2
  <2>2. rooms' \in [Room -> Replacements] BY <2>1, RoomEdits
  <2> QED BY <1>3, <2>2 DEF Join, TypeOK
<1>4. ASSUME NEW u \in User, Leave(r, u) PROVE TypeOK'
  <2>1. counts' \in [faults : Nat, drops : Nat] BY <1>4 DEF Leave, TypeOK
  <2>2. rooms' \in [Room -> Replacements]
    <3>1. \/ rooms' = [rooms EXCEPT ![r].here = @ \ {u}, ![r].lapsing = @ \cup {u}]
          \/ rooms' = [rooms EXCEPT ![r] = Left("over")]
          BY <1>4 DEF Leave
    <3>2. CASE rooms' = [rooms EXCEPT ![r].here = @ \ {u}, ![r].lapsing = @ \cup {u}]
          BY ZenonT(60), <3>2, RoomEdits
    <3>3. CASE rooms' = [rooms EXCEPT ![r] = Left("over")] BY <3>3, RoomEdits, RowsHaveTypes
    <3> QED BY <3>1, <3>2, <3>3
  <2>3. ledger' \in Ledgers BY <1>4 DEF Leave, MayMoveMoney, TypeOK, Ledgers
  <2> QED BY <1>4, <2>1, <2>2, <2>3 DEF Leave, TypeOK
<1>5. ASSUME NEW u \in User, GraceEnds(r, u) PROVE TypeOK'
  <2>1. rooms' \in [Room -> Replacements] BY <1>5, RoomEdits DEF GraceEnds
  <2> QED BY <1>5, <2>1 DEF GraceEnds, TypeOK
<1>6. CASE MovesMoney(r) BY <1>6 DEF MovesMoney, TypeOK, Ledgers
<1> QED BY <1>1, <1>2, <1>3, <1>4, <1>5, <1>6 DEF Table

(* Time and the administrators.                                            *)
LEMMA EnvironmentKeepsType ==
    ASSUME TypeOK, Environment
    PROVE  TypeOK'
<1>1. CASE ClaimExpires BY <1>1 DEF ClaimExpires, TypeOK, Incidents
<1>2. CASE LeaseExpires BY <1>2 DEF LeaseExpires, TypeOK, Incidents
<1>3. CASE DeadlinePasses BY <1>3 DEF DeadlinePasses, TypeOK
<1>4. ASSUME NEW u \in User, LateCall(u) PROVE TypeOK'
  <2>1. counts' \in [faults : Nat, drops : Nat] BY <1>4, CallKeepsType DEF LateCall
  <2>2. \/ ledger' = ledger
        \/ ledger' = [ledger EXCEPT !.bets[u] = @ + 1]
        \/ ledger' = [ledger EXCEPT !.returned[u] = @ + 1]
        \/ ledger' = [ledger EXCEPT !.paid = @ + 1]
        BY <1>4 DEF LateCall
  <2>3. ledger' \in Ledgers BY <2>2 DEF TypeOK, Ledgers
  <2>4. finished' \in BOOLEAN BY <1>4 DEF LateCall, TypeOK
  <2> QED BY <1>4, <2>1, <2>3, <2>4 DEF LateCall, TypeOK
<1>5. CASE Acknowledge BY <1>5 DEF Acknowledge, TypeOK, Incidents
<1>6. CASE Close BY <1>6 DEF Close, TypeOK, Incidents, Statuses
<1> QED BY <1>1, <1>2, <1>3, <1>4, <1>5, <1>6 DEF Environment

LEMMA StepKeepsType == TypeOK /\ [Next]_vars => TypeOK'
<1> SUFFICES ASSUME TypeOK, [Next]_vars PROVE TypeOK' OBVIOUS
<1>1. ASSUME NEW s \in Server, Process(s) PROVE TypeOK'
      BY <1>1, StartKeepsType, ReplaceKeepsType, LeaseKeepsType, ExpirationKeepsType,
         CrashKeepsType DEF Process
<1>2. CASE UNCHANGED vars BY <1>2 DEF vars, TypeOK
<1> QED BY <1>1, <1>2, TableKeepsType, EnvironmentKeepsType DEF Next

(* Every variable has its type (the whole of CrashRecoveryService).        *)
THEOREM TypeCorrect == Spec => []TypeOK
BY InitTypeOK, StepKeepsType, PTL DEF Spec

-----------------------------------------------------------------------------
(* Whoever takes it, a step of a recovery is of one of seven kinds, which  *)
(* is all that the properties below need to know of it.                    *)

Undecided == incident.status \in {"none", "recovery_pending"}

(* Neither the expiry nor a table that resumed the hand moves money.       *)
MoneyRests == ledger'.credited = ledger.credited /\ ledger'.table = ledger.table

NothingOpens ==
    \A r \in Room : Plays(r)' => Plays(r) /\ rooms'[r].fence = rooms[r].fence

Quiet ==
    /\ \/ incident'.status = incident.status
       \/ incident.status = "none" /\ incident'.status = "recovery_pending"
    /\ incident.status = "resumed" => incident' = incident
    /\ NothingOpens
    /\ ledger' = ledger \/ (Undecided /\ MoneyRests)

Reviewing ==
    /\ Pending /\ incident'.status = "manual_review"
    /\ NothingOpens /\ ledger' = ledger

Closing ==
    /\ incident.status = "manual_review" /\ incident'.status = "closed"
    /\ NothingOpens /\ ledger' = ledger

Refunding ==
    /\ Pending /\ incident'.status = "cancelled_crash"
    /\ NothingOpens
    /\ ledger' = [ledger EXCEPT !.credited = [u \in User |-> @[u] + Derived[u]]]

Resuming(r) ==
    /\ Pending /\ incident' = [incident EXCEPT !.status = "resumed"]
    /\ incident.room = r /\ incident.fence = rooms[r].fence /\ incident.roomFence = rooms[r].fence
    /\ rooms'[r].state = "open" => rooms'[r].fence = rooms[r].fence
    /\ \A q \in Room \ {r} : rooms'[q] = rooms[q]
    /\ ledger' = ledger

Moving(r) ==
    /\ Plays(r) /\ incident' = incident /\ rooms' = rooms
    /\ ledger' = [ledger EXCEPT !.table = TRUE]

Ending(r) ==
    /\ Plays(r) /\ incident' = incident
    /\ rooms'[r].state = "over"
    /\ MayMoveMoney
    /\ \A q \in Room \ {r} : rooms'[q] = rooms[q]

Kinds ==
    \/ Quiet \/ Reviewing \/ Closing \/ Refunding
    \/ \E r \in Room : Resuming(r) \/ Moving(r) \/ Ending(r)

LEMMA DiscardOpensNothing ==
    ASSUME TypeOK, NEW r \in Room \cup {NoRoom}, Discard(r) \/ rooms' = rooms
    PROVE  NothingOpens
BY DEF TypeOK, Discard, Left, NotCreated, NothingOpens, Plays

(* Only a pending incident goes to a human, and a decided one stays.       *)
LEMMA MarkIsKind ==
    ASSUME TypeOK, MarkManualReview \/ MayMarkManualReview, NothingOpens, ledger' = ledger
    PROVE  Quiet \/ Reviewing
<1>1. CASE incident' = incident BY <1>1 DEF Quiet
<1>2. CASE MarkManualReview
  <2>1. CASE Pending BY <1>2, <2>1 DEF MarkManualReview, Reviewing, TypeOK, Incidents
  <2>2. CASE ~Pending
    <3>1. incident' = incident BY <1>2, <2>2 DEF MarkManualReview, TypeOK, Incidents
    <3> QED BY <3>1, <1>1
  <2> QED BY <2>1, <2>2
<1> QED BY <1>1, <1>2 DEF MayMarkManualReview

LEMMA ProcessIsKind ==
    ASSUME TypeOK, NEW s \in Server, Process(s)
    PROVE  Kinds
<1>1. CASE rooms' = rooms /\ incident' = incident /\ ledger' = ledger
      BY <1>1 DEF Kinds, Quiet, NothingOpens, Plays
<1>2. CASE Start(s) \/ Load(s) \/ GiveUpReplacing(s) \/ Renew(s) \/ Derive(s)
           \/ ExpireTooEarly(s) \/ ExpireRaises(s)
      BY <1>1, <1>2 DEF Start, Load, GiveUpReplacing, Renew, Derive, ExpireTooEarly, ExpireRaises
<1>3. CASE OpenIncident(s)
  <2>1. incident' = incident \/ incident' = Opened BY <1>3 DEF OpenIncident
  <2>2. rooms' = rooms /\ ledger' = ledger BY <1>3 DEF OpenIncident
  <2>3. CASE incident' = incident BY <1>1, <2>2, <2>3
  <2>4. CASE incident' = Opened
    <3>1. /\ \/ incident'.status = incident.status
             \/ incident.status = "none" /\ incident'.status = "recovery_pending"
          /\ incident.status = "resumed" => incident' = incident
          BY <2>4 DEF Opened, TypeOK, Incidents
    <3> QED BY <3>1, <2>2 DEF Kinds, Quiet, NothingOpens, Plays
  <2> QED BY <2>1, <2>3, <2>4
<1>4. CASE ReviewInvalid(s)
  <2>1. NothingOpens BY <1>4 DEF ReviewInvalid, NothingOpens, Plays
  <2> QED BY <1>4, <2>1, MarkIsKind DEF ReviewInvalid, Kinds
<1>5. CASE Claim(s)
  <2>1. /\ incident'.status = incident.status /\ incident.status # "resumed"
        /\ rooms' = rooms /\ ledger' = ledger
        BY <1>5 DEF Claim, Claimable, Pending, TypeOK, Incidents
  <2> QED BY <2>1 DEF Kinds, Quiet, NothingOpens, Plays
<1>6. CASE Create(s)
  <2>1. NothingOpens
    <3>1. rooms' = rooms \/ \E r \in Room : rooms' = [rooms EXCEPT ![r] = Locked(s)]
          BY <1>6 DEF Create
    <3>2. Locked(s).state = "locked" BY DEF Locked, NotCreated
    <3> QED BY <3>1, <3>2 DEF NothingOpens, Plays, TypeOK
  <2> QED BY <1>6, <2>1 DEF Create, Kinds, Quiet
<1>7. CASE Map(s)
  <2>1. NothingOpens
    <3>1. Discard(servers[s].room) \/ rooms' = rooms BY <1>7 DEF Map
    <3> QED BY <3>1, DiscardOpensNothing, FieldsHaveTypes
  <2>2. ledger' = ledger BY <1>7 DEF Map
  <2>3. incident' = incident \/ (Mappable(s) /\ SaveMapping(s)) BY <1>7 DEF Map
  <2>4. CASE Mappable(s) /\ SaveMapping(s)
    <3>1. incident'.status = incident.status /\ incident.status # "resumed"
          BY <2>4 DEF Mappable, SaveMapping, Pending, TypeOK, Incidents
    <3> QED BY <3>1, <2>1, <2>2 DEF Kinds, Quiet
  <2> QED BY <2>1, <2>2, <2>3, <2>4 DEF Kinds, Quiet
<1>8. CASE GiveUpLease(s)
  <2>1. NothingOpens
    <3>1. Discard(servers[s].room) \/ rooms' = rooms BY <1>8 DEF GiveUpLease
    <3> QED BY <3>1, DiscardOpensNothing, FieldsHaveTypes
  <2> QED BY <1>8, <2>1, MarkIsKind DEF GiveUpLease, Kinds
<1>9. CASE ExpireRefunds(s)
  <2>1. NothingOpens
    <3>1. Discard(servers[s].room) \/ rooms' = rooms BY <1>9 DEF ExpireRefunds
    <3> QED BY <3>1, DiscardOpensNothing, FieldsHaveTypes
  <2>2. servers[s].list = Derived BY <1>9 DEF ExpireRefunds, Agrees
  <2>3. Pending /\ incident'.status = "cancelled_crash"
        BY <1>9 DEF ExpireRefunds, TypeOK, Incidents
  <2>4. ledger' = [ledger EXCEPT !.credited = [u \in User |-> @[u] + Derived[u]]]
        BY <1>9, <2>2 DEF ExpireRefunds
  <2> QED BY <2>1, <2>3, <2>4 DEF Kinds, Refunding
<1>10. CASE ExpireDecided(s)
  <2>1. NothingOpens
    <3>1. Discard(servers[s].room) \/ rooms' = rooms BY <1>10 DEF ExpireDecided
    <3> QED BY <3>1, DiscardOpensNothing, FieldsHaveTypes
  <2> QED BY <1>10, <2>1 DEF ExpireDecided, Kinds, Quiet
<1>11. CASE Escalate(s)
  <2>1. NothingOpens
    <3>1. Discard(servers[s].room) \/ rooms' = rooms BY <1>11 DEF Escalate
    <3> QED BY <3>1, DiscardOpensNothing, FieldsHaveTypes
  <2>2. ledger' = ledger /\ (MarkManualReview \/ MayMarkManualReview) BY <1>11 DEF Escalate
  <2> QED BY <2>1, <2>2, MarkIsKind DEF Kinds
<1>12. CASE Crash(s)
  <2>1. NothingOpens BY <1>12 DEF Crash, TypeOK, NothingOpens, Plays, Left, NotCreated
  <2> QED BY <1>12, <2>1 DEF Crash, Kinds, Quiet
<1> QED BY <1>2, <1>3, <1>4, <1>5, <1>6, <1>7, <1>8, <1>9, <1>10, <1>11, <1>12
       DEF Process, Replace, Expiration

LEMMA TableIsKind ==
    ASSUME TypeOK, NEW r \in Room, Table(r)
    PROVE  Kinds
<1>1. CASE Resolve(r)
  <2>1. ledger' = ledger BY <1>1 DEF Resolve
  <2>2. CASE Resolvable(r) /\ incident' = [incident EXCEPT !.status = "resumed"]
    <3>1. Discard(r) \/ rooms' = [rooms EXCEPT ![r] = Unlocked(r)] BY <1>1 DEF Resolve
    <3>2. \A q \in Room \ {r} : rooms'[q] = rooms[q]
          BY <3>1 DEF Discard, TypeOK
    <3>3. rooms'[r].state = "open" => rooms'[r].fence = rooms[r].fence
      <4>1. CASE Discard(r)
        <5>1. rooms'[r] = Left("gone") BY <4>1, RecoveryAssumption DEF Discard, TypeOK
        <5> QED BY <5>1 DEF Left, NotCreated
      <4>2. CASE rooms' = [rooms EXCEPT ![r] = Unlocked(r)]
        <5>1. rooms'[r] = Unlocked(r) BY <4>2 DEF TypeOK
        <5>2. Left("over").state = "over" BY DEF Left, NotCreated
        <5>3. rooms[r] \in Replacements BY DEF TypeOK
        <5>4. rooms[r].seats # {} => Unlocked(r).fence = rooms[r].fence
              BY <5>3 DEF Unlocked, Replacements
        <5> QED BY <5>1, <5>2, <5>4 DEF Unlocked
      <4> QED BY <3>1, <4>1, <4>2
    <3> QED BY <2>1, <2>2, <3>2, <3>3 DEF Resolvable, Kinds, Resuming
  <2>3. CASE incident' = incident /\ Discard(r)
    <3>1. NothingOpens BY <2>3, DiscardOpensNothing
    <3> QED BY <2>1, <2>3, <3>1 DEF Kinds, Quiet
  <2> QED BY <1>1, <2>2, <2>3 DEF Resolve
<1>2. CASE HandEnds(r)
  <2>1. Ending(r) BY <1>2 DEF HandEnds, Ending, TypeOK, Left, NotCreated
  <2> QED BY <2>1 DEF Kinds
<1>3. ASSUME NEW u \in User, Join(r, u) PROVE Kinds
  <2>1. NothingOpens BY <1>3 DEF Join, NothingOpens, Plays, TypeOK, Replacements
  <2> QED BY <1>3, <2>1 DEF Join, Kinds, Quiet
<1>4. ASSUME NEW u \in User, Leave(r, u) PROVE Kinds
  <2>1. CASE rooms' = [rooms EXCEPT ![r].here = @ \ {u}, ![r].lapsing = @ \cup {u}] /\ ledger' = ledger
    <3>1. NothingOpens BY <2>1 DEF NothingOpens, Plays, TypeOK, Replacements
    <3> QED BY <1>4, <2>1, <3>1 DEF Leave, Kinds, Quiet
  <2>2. CASE Plays(r) /\ rooms' = [rooms EXCEPT ![r] = Left("over")]
    <3>1. MayMoveMoney BY <1>4 DEF Leave, MayMoveMoney
    <3>2. Ending(r) BY <1>4, <2>2, <3>1 DEF Leave, Ending, TypeOK, Left, NotCreated
    <3> QED BY <3>2 DEF Kinds
  <2> QED BY <1>4, <2>1, <2>2 DEF Leave
<1>5. ASSUME NEW u \in User, GraceEnds(r, u) PROVE Kinds
  <2>1. NothingOpens BY <1>5 DEF GraceEnds, NothingOpens, Plays, TypeOK, Replacements
  <2> QED BY <1>5, <2>1 DEF GraceEnds, Kinds, Quiet
<1>6. CASE MovesMoney(r) BY <1>6 DEF MovesMoney, Moving, Kinds
<1> QED BY <1>1, <1>2, <1>3, <1>4, <1>5, <1>6 DEF Table

LEMMA EnvironmentIsKind ==
    ASSUME TypeOK, Environment
    PROVE  Kinds
<1>1. rooms' = rooms
      BY DEF Environment, ClaimExpires, LeaseExpires, DeadlinePasses, LateCall, Acknowledge, Close
<1>2. NothingOpens BY <1>1 DEF NothingOpens, Plays
<1>3. CASE ClaimExpires \/ LeaseExpires \/ DeadlinePasses \/ Acknowledge
      BY <1>2, <1>3 DEF ClaimExpires, LeaseExpires, DeadlinePasses, Acknowledge, Kinds, Quiet,
         Pending, TypeOK, Incidents
<1>4. ASSUME NEW u \in User, LateCall(u) PROVE Kinds
  <2>1. \/ ledger' = ledger
        \/ ledger' = [ledger EXCEPT !.bets[u] = @ + 1]
        \/ ledger' = [ledger EXCEPT !.returned[u] = @ + 1]
        \/ ledger' = [ledger EXCEPT !.paid = @ + 1]
        BY <1>4 DEF LateCall
  <2>2. Undecided /\ MoneyRests
        BY <1>4, <2>1 DEF LateCall, Undecided, MoneyRests, TypeOK, Ledgers
  <2> QED BY <1>2, <1>4, <2>2 DEF LateCall, Kinds, Quiet
<1>5. CASE Close BY <1>2, <1>5 DEF Close, Kinds, Closing, TypeOK, Incidents
<1> QED BY <1>3, <1>4, <1>5 DEF Environment

LEMMA StepIsKind ==
    ASSUME TypeOK, [Next]_vars
    PROVE  Kinds
<1>1. CASE UNCHANGED vars BY <1>1 DEF vars, Kinds, Quiet, NothingOpens, Plays
<1> QED BY <1>1, ProcessIsKind, TableIsKind, EnvironmentIsKind DEF Next

-----------------------------------------------------------------------------
(* One room plays the hand.                                                *)

LEMMA InitOpensNothing == Init => OpenRoomIsPublished
BY DEF Init, OpenRoomIsPublished, Plays, NotCreated

LEMMA StepPublishes ==
    ASSUME TypeOK, TypeOK', OpenRoomIsPublished, Kinds
    PROVE  OpenRoomIsPublished'
<1>1. CASE Quiet BY <1>1 DEF Quiet, NothingOpens, OpenRoomIsPublished
<1>2. CASE Reviewing \/ Closing \/ Refunding
      BY <1>2 DEF Reviewing, Closing, Refunding, NothingOpens, OpenRoomIsPublished, Pending
<1>3. ASSUME NEW r \in Room, Resuming(r) PROVE OpenRoomIsPublished'
  <2>1. /\ incident'.status = "resumed" /\ incident'.room = r
        /\ incident'.fence = rooms[r].fence /\ incident'.roomFence = rooms[r].fence
        BY <1>3 DEF Resuming, TypeOK, Incidents
  <2>2. ASSUME NEW q \in Room, Plays(q)' PROVE q = r
        BY <1>3, <2>2 DEF Resuming, OpenRoomIsPublished, Plays, Pending
  <2> QED BY <1>3, <2>1, <2>2 DEF Resuming, OpenRoomIsPublished, Plays
<1>4. ASSUME NEW r \in Room, Ending(r) PROVE OpenRoomIsPublished'
      BY <1>4 DEF Ending, OpenRoomIsPublished, Plays
<1>5. ASSUME NEW r \in Room, Moving(r) PROVE OpenRoomIsPublished'
      BY <1>5 DEF Moving, OpenRoomIsPublished, Plays
<1> QED BY <1>1, <1>2, <1>3, <1>4, <1>5 DEF Kinds

-----------------------------------------------------------------------------
(* The expiry has credited nobody unless the hand is cancelled, and a      *)
(* table has moved money only of a resumed hand, which is why a            *)
(* transaction that credits what is owed then credits what the crashed     *)
(* table had not returned.                                                 *)

Separate ==
    /\ incident.status # "cancelled_crash" => \A u \in User : ledger.credited[u] = 0
    /\ ledger.table => incident.status = "resumed"

Balanced == Separate /\ CancelledIsRepaid

LEMMA InitBalanced == Init => Balanced
<1> SUFFICES ASSUME Init PROVE Balanced OBVIOUS
<1>1. PICK history \in Histories : ledger = LedgerAfter(history) BY DEF Init
<1>2. ledger.credited = NoAmounts /\ ledger.table = FALSE BY <1>1 DEF LedgerAfter
<1> QED BY <1>2 DEF Init, Balanced, Separate, NoIncident, NoAmounts, CancelledIsRepaid

LEMMA StepBalances ==
    ASSUME TypeOK, TypeOK', OpenRoomIsPublished, Balanced, Kinds
    PROVE  Balanced'
<1>1. CASE Quiet
  <2>1. MoneyRests BY <1>1 DEF Quiet, MoneyRests
  <2>2. (incident.status = "cancelled_crash") <=> (incident'.status = "cancelled_crash")
        BY <1>1 DEF Quiet
  <2>3. incident.status = "resumed" => incident'.status = "resumed" BY <1>1 DEF Quiet
  <2>4. incident.status = "cancelled_crash" => ledger' = ledger BY <1>1 DEF Quiet, Undecided
  <2>5. Separate' BY <2>1, <2>2, <2>3 DEF MoneyRests, Balanced, Separate
  <2>6. CancelledIsRepaid' BY <2>2, <2>4 DEF Balanced, CancelledIsRepaid
  <2> QED BY <2>5, <2>6 DEF Balanced
<1>2. CASE Reviewing \/ Closing
  <2>1. /\ ledger' = ledger /\ incident'.status # "cancelled_crash"
        /\ incident.status # "cancelled_crash" /\ incident.status # "resumed"
        BY <1>2 DEF Reviewing, Closing, Pending
  <2> QED BY <2>1 DEF Balanced, Separate, CancelledIsRepaid
<1>3. CASE Refunding
  <2>1. incident.status = "recovery_pending" /\ incident'.status = "cancelled_crash"
        BY <1>3 DEF Refunding, Pending
  <2>2. ~ledger.table /\ \A u \in User : ledger.credited[u] = 0
        BY <2>1 DEF Balanced, Separate
  <2>3. /\ ledger'.bets = ledger.bets /\ ledger'.returned = ledger.returned
        /\ ledger'.table = ledger.table
        /\ ledger'.credited = [u \in User |-> ledger.credited[u] + Derived[u]]
        BY <1>3 DEF Refunding, TypeOK, Ledgers
  <2>4. ASSUME NEW u \in User
        PROVE  ledger'.credited[u] = IF ledger'.bets[u] > ledger'.returned[u]
                                     THEN ledger'.bets[u] - ledger'.returned[u] ELSE 0
    <3>1. ledger.bets[u] \in Nat /\ ledger.returned[u] \in Nat /\ ledger.credited[u] = 0
          BY <2>2 DEF TypeOK, Ledgers
    <3>2. Derived[u] = IF ledger.bets[u] > ledger.returned[u]
                       THEN ledger.bets[u] - ledger.returned[u] ELSE 0
          BY <3>1 DEF Derived, Owed
    <3>3. ledger'.credited[u] = ledger.credited[u] + Derived[u] BY <2>3
    <3> QED BY <2>3, <3>1, <3>2, <3>3
  <2> QED BY <2>1, <2>2, <2>3, <2>4 DEF Balanced, Separate, CancelledIsRepaid
<1>4. ASSUME NEW r \in Room, Resuming(r) PROVE Balanced'
  <2>1. /\ ledger' = ledger /\ incident.status = "recovery_pending"
        /\ incident'.status = "resumed"
        BY <1>4 DEF Resuming, Pending, TypeOK, Incidents
  <2> QED BY <2>1 DEF Balanced, Separate, CancelledIsRepaid
<1>5. ASSUME NEW r \in Room, Moving(r) \/ Ending(r) PROVE Balanced'
  <2>1. incident.status = "resumed" /\ incident'.status = "resumed"
        BY <1>5 DEF Moving, Ending, OpenRoomIsPublished
  <2>2. ledger'.credited = ledger.credited
        BY <1>5 DEF Moving, Ending, MayMoveMoney, TypeOK, Ledgers
  <2> QED BY <2>1, <2>2 DEF Balanced, Separate, CancelledIsRepaid
<1> QED BY <1>1, <1>2, <1>3, <1>4, <1>5 DEF Kinds

-----------------------------------------------------------------------------
(* The inductive invariant.                                                *)

Recoverable == TypeOK /\ OpenRoomIsPublished /\ Balanced

LEMMA InitRecoverable == Init => Recoverable
BY InitTypeOK, InitOpensNothing, InitBalanced DEF Recoverable

LEMMA StepRecoverable == Recoverable /\ [Next]_vars => Recoverable'
<1> SUFFICES ASSUME Recoverable, [Next]_vars PROVE Recoverable' OBVIOUS
<1>1. Kinds BY StepIsKind DEF Recoverable
<1>2. TypeOK' BY StepKeepsType DEF Recoverable
<1>3. OpenRoomIsPublished' BY <1>1, <1>2, StepPublishes DEF Recoverable
<1>4. Balanced' BY <1>1, <1>2, <1>3, StepBalances DEF Recoverable
<1> QED BY <1>2, <1>3, <1>4 DEF Recoverable

(* The inductive invariant holds in every state of every recovery.         *)
THEOREM AlwaysRecoverable == Spec => []Recoverable
BY InitRecoverable, StepRecoverable, PTL DEF Spec

(* The hand is played in one room at most, under the fence the database    *)
(* has published (resolve_game_recovery_incident).                         *)
THEOREM OneRoomPlays == Spec => []OpenRoomIsPublished
<1>1. Recoverable => OpenRoomIsPublished BY DEF Recoverable
<1> QED BY <1>1, AlwaysRecoverable, PTL

(* A cancelled hand has returned every bet once: the expiry credited what  *)
(* the crashed table had not returned, whatever that table had paid before *)
(* and whatever arrived late (expire_game_recovery_incident).              *)
THEOREM CancelledHandIsRepaid == Spec => []CancelledIsRepaid
<1>1. Recoverable => CancelledIsRepaid BY DEF Recoverable, Balanced
<1> QED BY <1>1, AlwaysRecoverable, PTL

-----------------------------------------------------------------------------
(* The refinement: a recovery does what CrashedHand allows.                *)

LEMMA InitKeepsPromise == Init => Hand!Init
<1> SUFFICES ASSUME Init PROVE Hand!Init OBVIOUS
<1>1. Fate = "interrupted" BY DEF Init, NoIncident, Fate
<1>2. Playing = FALSE BY DEF Init, Playing, Plays, NotCreated
<1>3. Movers = {}
  <2>1. PICK history \in Histories : ledger = LedgerAfter(history) BY DEF Init
  <2>2. ledger.credited = NoAmounts /\ ledger.table = FALSE BY <2>1 DEF LedgerAfter
  <2> QED BY <2>2 DEF Movers, NoAmounts
<1> QED BY <1>1, <1>2, <1>3 DEF Hand!Init

LEMMA FateOfStatus ==
    ASSUME NEW status, NEW fate,
           fate = CASE status \in {"none", "recovery_pending"} -> "interrupted"
                    [] status = "resumed" -> "resumed"
                    [] status = "cancelled_crash" -> "refunded"
                    [] status = "manual_review" -> "reviewed"
                    [] status = "closed" -> "closed"
    PROVE  /\ status \in {"none", "recovery_pending"} => fate = "interrupted"
           /\ status = "resumed" => fate = "resumed"
           /\ status = "cancelled_crash" => fate = "refunded"
           /\ status = "manual_review" => fate = "reviewed"
           /\ status = "closed" => fate = "closed"
<1>1. CASE status \in {"none", "recovery_pending"} BY <1>1
<1>2. CASE status = "resumed" BY <1>2
<1>3. CASE status = "cancelled_crash" BY <1>3
<1>4. CASE status = "manual_review" BY <1>4
<1>5. CASE status = "closed" BY <1>5
<1> QED BY <1>1, <1>2, <1>3, <1>4, <1>5

LEMMA Fates ==
    /\ Undecided => Fate = "interrupted"
    /\ Undecided' => Fate' = "interrupted"
    /\ incident.status = "manual_review" => Fate = "reviewed"
    /\ incident'.status = "resumed" => Fate' = "resumed"
    /\ incident'.status = "cancelled_crash" => Fate' = "refunded"
    /\ incident'.status = "manual_review" => Fate' = "reviewed"
    /\ incident'.status = "closed" => Fate' = "closed"
    /\ incident'.status = incident.status => Fate' = Fate
<1>1. incident'.status = incident.status => Fate' = Fate BY DEF Fate
<1> QED BY <1>1, FateOfStatus DEF Fate, Undecided

LEMMA StepKeepsPromise ==
    ASSUME Recoverable, Recoverable', Kinds
    PROVE  [Hand!Next]_(Hand!vars)
<1> USE DEF Recoverable
<1>1. Playing => incident.status = "resumed" /\ ~Undecided
      BY DEF Playing, OpenRoomIsPublished, Undecided
<1>2. incident.status # "cancelled_crash" => \A u \in User : ~(ledger.credited[u] > 0)
      BY DEF Balanced, Separate
<1>3. NothingOpens => (Playing' => Playing) BY DEF NothingOpens, Playing, Plays
<1>4. Playing \in BOOLEAN /\ Playing' \in BOOLEAN BY DEF Playing
<1>5. CASE Quiet
  <2>1. Fate' = Fate
    <3>1. CASE incident'.status = incident.status BY <3>1, Fates
    <3>2. CASE incident'.status # incident.status
      <4>1. Undecided /\ Undecided' BY <1>5, <3>2 DEF Quiet, Undecided
      <4> QED BY <4>1, Fates
    <3> QED BY <3>1, <3>2
  <2>2. Movers' = Movers BY <1>5 DEF Quiet, MoneyRests, Movers
  <2>3. CASE Playing' = Playing BY <2>1, <2>2, <2>3 DEF Hand!vars
  <2>4. CASE Playing' # Playing
    <3>1. Playing = TRUE BY <1>3, <1>4, <1>5, <2>4 DEF Quiet
    <3> QED BY <1>4, <2>1, <2>2, <3>1 DEF Hand!Next, Hand!Play
  <2> QED BY <2>3, <2>4
<1>6. CASE Reviewing
  <2>1. Undecided /\ Fate = "interrupted" /\ Fate' = "reviewed"
        BY <1>6, Fates DEF Reviewing, Pending, Undecided
  <2>2. Playing' = Playing BY <1>1, <1>3, <1>4, <1>6, <2>1 DEF Reviewing
  <2>3. Movers' = Movers BY <1>6 DEF Reviewing, Movers
  <2> QED BY <2>1, <2>2, <2>3 DEF Hand!Next, Hand!Review
<1>7. CASE Closing
  <2>1. Fate = "reviewed" /\ Fate' = "closed" BY <1>7, Fates DEF Closing
  <2>2. Playing = FALSE BY <1>7, <1>4 DEF Closing, Playing, OpenRoomIsPublished
  <2>3. Playing' = FALSE BY <1>3, <1>4, <1>7, <2>2 DEF Closing
  <2>4. Movers' = Movers BY <1>7 DEF Closing, Movers
  <2> QED BY <2>1, <2>2, <2>3, <2>4 DEF Hand!Next, Hand!Close
<1>8. CASE Refunding
  <2>1. Undecided /\ Fate = "interrupted" /\ Fate' = "refunded"
        BY <1>8, Fates DEF Refunding, Pending, Undecided
  <2>2. Playing' = Playing BY <1>1, <1>3, <1>4, <1>8, <2>1 DEF Refunding
  <2>3. ~ledger.table /\ ~ledger'.table
        BY <1>8, <2>1 DEF Refunding, Balanced, Separate, Undecided
  <2>4. Movers = {} BY <1>2, <1>8, <2>3 DEF Movers, Refunding, Pending
  <2>5. Movers' \in {{}, {"expiry"}} BY <2>3 DEF Movers
  <2> QED BY <2>1, <2>2, <2>4, <2>5 DEF Hand!Next, Hand!Refund
<1>9. ASSUME NEW r \in Room, Resuming(r) PROVE [Hand!Next]_(Hand!vars)
  <2>1. incident'.status = "resumed" BY <1>9 DEF Resuming, TypeOK, Incidents
  <2>2. Fate = "interrupted" /\ Fate' = "resumed"
        BY <1>9, <2>1, Fates DEF Resuming, Pending, Undecided
  <2>3. Movers' = Movers BY <1>9 DEF Resuming, Movers
  <2> QED BY <1>4, <2>2, <2>3 DEF Hand!Next, Hand!Resume
<1>10. ASSUME NEW r \in Room, Moving(r) \/ Ending(r) PROVE [Hand!Next]_(Hand!vars)
  <2>1. incident' = incident /\ Plays(r) BY <1>10 DEF Moving, Ending
  <2>2. Fate' = Fate BY <2>1, Fates
  <2>3. Playing = TRUE BY <2>1 DEF Playing
  <2>4. Movers' \in {Movers, {"table"}}
    <3>1. ledger' = ledger \/ ledger' = [ledger EXCEPT !.table = TRUE]
          BY <1>10 DEF Moving, Ending, MayMoveMoney
    <3>2. CASE ledger' = ledger BY <3>2 DEF Movers
    <3>3. CASE ledger' = [ledger EXCEPT !.table = TRUE]
      <4>1. ledger'.table = TRUE /\ ledger'.credited = ledger.credited
            BY <3>3 DEF TypeOK, Ledgers
      <4>2. \A u \in User : ~(ledger.credited[u] > 0) BY <1>1, <1>2, <2>3
      <4> QED BY <4>1, <4>2 DEF Movers
    <3> QED BY <3>1, <3>2, <3>3
  <2> QED BY <1>4, <2>2, <2>3, <2>4 DEF Hand!Next, Hand!Play
<1> QED BY <1>5, <1>6, <1>7, <1>8, <1>9, <1>10 DEF Kinds

(* A recovery implements CrashedHand: the fate of the hand is decided      *)
(* once, a table plays it only if it was resumed, and after the crash its  *)
(* money is moved by the expiry or by that table, never by both (the whole *)
(* of CrashRecoveryService).                                               *)
THEOREM PromiseIsKept == Spec => KeepsPromise
<1>1. Init => Hand!Init BY InitKeepsPromise
<1>2. Recoverable /\ Recoverable' /\ [Next]_vars => [Hand!Next]_(Hand!vars)
      BY StepIsKind, StepKeepsPromise DEF Recoverable
<1> QED BY <1>1, <1>2, AlwaysRecoverable, PTL DEF Spec, KeepsPromise, Hand!Spec
=============================================================================
