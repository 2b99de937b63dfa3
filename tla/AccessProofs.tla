----------------------------- MODULE AccessProofs -----------------------------
(***************************************************************************)
(* Proofs about Access, for any users, roles, departments, bases, bodies   *)
(* of updates and number of requests.                                      *)
(***************************************************************************)
EXTENDS Access, TLAPS

-----------------------------------------------------------------------------
(* Types *)

LEMMA NoRowTyped == NoRow \in UserRows
BY AccessAssumption DEF NoRow, UserRows

LEMMA IdleTyped == Idle \in RequestRecords
BY AccessAssumption, NoRowTyped DEF Idle, RequestRecords, Pcs

(* Rows and requests are made of typed parts.                               *)
LEMMA RowFields ==
  ASSUME NEW row \in UserRows
  PROVE  row.active \in BOOLEAN /\ row.department \in Departments /\ row.roles \subseteq Roles
BY DEF UserRows

LEMMA RequestFields ==
  ASSUME NEW q \in RequestRecords
  PROVE  /\ q.pc \in Pcs /\ q.user \in Users /\ q.target \in Users
         /\ q.seen \in UserRows /\ q.loaded \in UserRows
         /\ q.bases \subseteq Bases /\ q.change \in Changes \cup {None}
BY DEF RequestRecords

(* The row that an update asks for, and the one it writes, are rows.        *)
LEMMA WrittenTyped ==
  ASSUME TypeOK, NEW r \in Requests, requests[r].change \in Changes,
         NEW row \in UserRows
  PROVE  Asked(r) \in UserRows /\ Written(r, row) \in UserRows
<1> DEFINE change == requests[r].change
           loaded == requests[r].loaded
<1>1. loaded \in UserRows
  BY RequestFields DEF TypeOK
<1>2. /\ "active" \in DOMAIN change => change["active"] \in BOOLEAN
      /\ "department" \in DOMAIN change => change["department"] \in Departments
      /\ "roles" \in DOMAIN change => change["roles"] \in SUBSET Roles
  BY AccessAssumption
<1>3. /\ loaded.active \in BOOLEAN /\ loaded.department \in Departments
      /\ loaded.roles \subseteq Roles
      /\ row.active \in BOOLEAN /\ row.department \in Departments /\ row.roles \subseteq Roles
  BY <1>1, RowFields
<1> HIDE DEF change, loaded
<1>4. Asked(r) \in UserRows
  <2>1. Asked(r) = [active |-> IF "active" \in DOMAIN change THEN change["active"]
                                                             ELSE loaded.active,
                    department |-> IF "department" \in DOMAIN change
                                   THEN change["department"] ELSE loaded.department,
                    roles |-> IF "roles" \in DOMAIN change THEN change["roles"]
                                                           ELSE loaded.roles]
    BY DEF Asked, change, loaded
  <2>2. QED BY <2>1, <1>2, <1>3 DEF UserRows
<1>5. Written(r, row) \in UserRows
  <2>1. /\ Asked(r).active \in BOOLEAN /\ Asked(r).department \in Departments
        /\ Asked(r).roles \subseteq Roles
    BY <1>4, RowFields
  <2>2. Given(r) \subseteq Roles
    BY <2>1 DEF Given
  <2>3. QED BY <2>1, <2>2, <1>3 DEF Written, UserRows
<1>6. QED BY <1>4, <1>5

-----------------------------------------------------------------------------
(* The type invariant *)

LEMMA InitTyped == Init => TypeOK
<1> SUFFICES ASSUME Init PROVE TypeOK
  OBVIOUS
<1>1. users \in [Users -> UserRows] /\ commits \in 0..MaxCommits
  BY AccessAssumption DEF Init
<1>2. Idle.pc = "idle"
  BY DEF Idle
<1>3. /\ requests \in [Requests -> RequestRecords]
      /\ \A r \in Requests : requests[r].pc = "idle"
  BY <1>2, IdleTyped DEF Init
<1>4. witness \in [Requests -> [entitled : SUBSET Bases, changes : 0..2, stale : BOOLEAN]]
  BY DEF Init, NoWitness
<1>5. QED BY <1>1, <1>3, <1>4 DEF Init, TypeOK

(* A request that is given a typed record keeps the requests typed.         *)
LEMMA RequestReplaced ==
  ASSUME TypeOK, NEW r \in Requests, NEW q \in RequestRecords,
         q.pc \in {"target", "target_roles", "commit"} => q.change \in Changes,
         requests' = [requests EXCEPT ![r] = q]
  PROVE  /\ requests' \in [Requests -> RequestRecords]
         /\ \A s \in Requests : requests'[s].pc \in {"target", "target_roles", "commit"} =>
              requests'[s].change \in Changes
BY DEF TypeOK

LEMMA CommitsBounded == TypeOK /\ Commits => commits' \in 0..MaxCommits
BY AccessAssumption DEF TypeOK, Commits, CanCommit

LEMMA EndsTyped ==
  ASSUME TypeOK, NEW r \in Requests, Ends(r)
  PROVE  /\ requests' \in [Requests -> RequestRecords]
         /\ \A s \in Requests : requests'[s].pc \in {"target", "target_roles", "commit"} =>
              requests'[s].change \in Changes
<1>1. Idle.pc = "idle"
  BY DEF Idle
<1>2. requests' = [requests EXCEPT ![r] = Idle]
  BY DEF Ends
<1>3. QED BY <1>1, <1>2, IdleTyped, RequestReplaced

LEMMA RequestTyped ==
  ASSUME TypeOK, NEW r \in Requests, Request(r)
  PROVE  /\ requests' \in [Requests -> RequestRecords]
         /\ \A s \in Requests : requests'[s].pc \in {"target", "target_roles", "commit"} =>
              requests'[s].change \in Changes
         /\ users' \in [Users -> UserRows]
         /\ commits' \in 0..MaxCommits
         /\ UNCHANGED <<bases, granted>>
<1> DEFINE q == requests[r]
           Typed == /\ requests' \in [Requests -> RequestRecords]
                    /\ \A s \in Requests :
                         requests'[s].pc \in {"target", "target_roles", "commit"} =>
                           requests'[s].change \in Changes
<1>1. /\ q \in RequestRecords /\ q.user \in Users /\ q.target \in Users
      /\ q.seen \in UserRows /\ q.loaded \in UserRows /\ q.bases \in SUBSET Bases
      /\ users[q.user] \in UserRows /\ users[q.target] \in UserRows
  BY RequestFields DEF TypeOK
<1>2. Pcs = {"idle", "roles", "bases", "search", "target", "target_roles", "commit"}
  BY DEF Pcs
<1>3. ASSUME NEW u \in Users, NEW t \in Users, NEW c \in Changes \cup {None},
             Begin(r, u, c, IF c = None THEN u ELSE t)
      PROVE  Typed
  <2> DEFINE target == IF c = None THEN u ELSE t
             seen == [NoRow EXCEPT !.active = users[u].active,
                                   !.department = users[u].department]
             p == [Idle EXCEPT !.pc = "roles", !.user = u, !.change = c, !.target = target,
                               !.seen = seen]
  <2>1. seen \in UserRows
    <3>1. users[u] \in UserRows
      BY DEF TypeOK
    <3>2. QED BY <3>1, NoRowTyped DEF UserRows
  <2>2. p \in RequestRecords /\ p.pc = "roles"
    BY <2>1, <1>2, IdleTyped DEF RequestRecords
  <2>3. requests' = [requests EXCEPT ![r] = p]
    BY <1>3 DEF Begin, Idle, At
  <2> HIDE DEF p
  <2>4. QED BY <2>2, <2>3, RequestReplaced
<1>4. ASSUME ReadRoles(r) PROVE Typed
  <2>1. ASSUME Ends(r) PROVE Typed
    BY <2>1, EndsTyped
  <2>2. ASSUME ~Ends(r) PROVE Typed
    <3> DEFINE seen == [q.seen EXCEPT !.roles = User(r).roles]
               pc == IF q.change = None THEN "bases" ELSE "target"
               p == [q EXCEPT !.seen = seen, !.pc = pc]
    <3>1. seen \in UserRows
      BY <1>1 DEF UserRows, User
    <3>2. p \in RequestRecords /\ p.pc = pc /\ p.change = q.change
      BY <1>1, <1>2, <3>1 DEF RequestRecords
    <3>3. requests' = [requests EXCEPT ![r] = p]
      BY <1>4, <2>2 DEF ReadRoles, TypeOK
    <3>4. pc = "target" => q.change \in Changes
      BY <1>1, RequestFields
    <3>5. pc \in {"bases", "target"}
      OBVIOUS
    <3> HIDE DEF p, pc, seen
    <3>6. QED BY <3>2, <3>3, <3>4, <3>5, RequestReplaced
  <2>3. QED BY <2>1, <2>2
<1>5. ASSUME ReadBases(r) PROVE Typed
  <2> DEFINE p == [q EXCEPT !.pc = "search", !.bases = OpenTo(q.seen)]
  <2>1. OpenTo(q.seen) \subseteq Bases
    BY DEF OpenTo
  <2>2. p \in RequestRecords /\ p.pc = "search"
    BY <1>1, <1>2, <2>1 DEF RequestRecords
  <2>3. requests' = [requests EXCEPT ![r] = p]
    BY <1>5 DEF ReadBases
  <2> HIDE DEF p
  <2>4. QED BY <2>2, <2>3, RequestReplaced
<1>6. ASSUME Search(r) \/ Fails(r) PROVE Typed
  BY <1>6, EndsTyped DEF Search, Fails
<1>7. ASSUME ReadTarget(r) PROVE Typed
  <2> DEFINE row == users[q.target]
             loaded == [NoRow EXCEPT !.active = row.active, !.department = row.department]
             own == [q EXCEPT !.pc = "commit", !.seen = NoRow, !.loaded = q.seen]
             other == [q EXCEPT !.pc = "target_roles", !.seen = NoRow, !.loaded = loaded]
  <2>1. loaded \in UserRows
    BY <1>1, NoRowTyped DEF UserRows
  <2>2. own \in RequestRecords /\ other \in RequestRecords
    BY <1>1, <1>2, <2>1, NoRowTyped DEF RequestRecords
  <2>3. own.change = q.change /\ other.change = q.change /\ q.change \in Changes
    BY <1>1, <1>7 DEF ReadTarget, At, TypeOK, RequestRecords
  <2>4. \/ Ends(r)
        \/ requests' = [requests EXCEPT ![r] = own]
        \/ requests' = [requests EXCEPT ![r] = other]
    BY <1>7 DEF ReadTarget
  <2> HIDE DEF own, other
  <2>5. QED BY <2>2, <2>3, <2>4, EndsTyped, RequestReplaced
<1>8. ASSUME ReadTargetRoles(r) PROVE Typed
  <2> DEFINE loaded == [q.loaded EXCEPT !.roles = users[q.target].roles]
             p == [q EXCEPT !.pc = "commit", !.loaded = loaded]
  <2>1. loaded \in UserRows
    BY <1>1 DEF UserRows
  <2>2. p \in RequestRecords /\ p.change = q.change
    BY <1>1, <1>2, <2>1 DEF RequestRecords
  <2>3. requests' = [requests EXCEPT ![r] = p]
    BY <1>8 DEF ReadTargetRoles, TypeOK
  <2>4. q.change \in Changes
    BY <1>8 DEF ReadTargetRoles, At, TypeOK
  <2> HIDE DEF p
  <2>5. QED BY <2>2, <2>3, <2>4, RequestReplaced
<1>9. ASSUME Commit(r) PROVE Typed
  BY <1>9, EndsTyped DEF Commit
<1>10. Typed
  BY <1>3, <1>4, <1>5, <1>6, <1>7, <1>8, <1>9 DEF Request
<1>11. users' \in [Users -> UserRows]
  <2>1. CASE Commit(r)
    <3>1. q.change \in Changes
      BY <2>1 DEF Commit, At, TypeOK
    <3>2. Written(r, users[q.target]) \in UserRows
      BY <1>1, <3>1, WrittenTyped
    <3>3. users' = [users EXCEPT ![q.target] = Written(r, users[q.target])]
      BY <2>1 DEF Commit
    <3>4. QED BY <1>1, <3>2, <3>3 DEF TypeOK
  <2>2. CASE ~Commit(r)
    BY <2>2 DEF Request, Begin, ReadRoles, ReadBases, Search, ReadTarget, ReadTargetRoles,
                Fails, TypeOK
  <2>3. QED BY <2>1, <2>2
<1>12. commits' \in 0..MaxCommits
  <2>1. commits' = commits \/ Commits
    BY DEF Request, Begin, ReadRoles, ReadBases, Search, ReadTarget, ReadTargetRoles, Fails,
           Commit
  <2>2. QED BY <2>1, CommitsBounded DEF TypeOK
<1>13. UNCHANGED <<bases, granted>>
  BY DEF Request, Begin, ReadRoles, ReadBases, Search, ReadTarget, ReadTargetRoles,
         Fails, Commit
<1>14. QED BY <1>10, <1>11, <1>12, <1>13

LEMMA WitnessTyped ==
  ASSUME TypeOK, Observe
  PROVE  witness' \in [Requests -> [entitled : SUBSET Bases, changes : 0..2, stale : BOOLEAN]]
<1>1. ASSUME NEW r \in Requests
      PROVE  Witness(r) \in [entitled : SUBSET Bases, changes : 0..2, stale : BOOLEAN]
  <2>1. EntitledNow(r)' \subseteq Bases
    BY DEF EntitledNow, Entitled, OpenTo
  <2>2. /\ witness[r].entitled \subseteq Bases /\ witness[r].changes \in 0..2
        /\ witness[r].stale \in BOOLEAN
    BY DEF TypeOK
  <2>3. Concerns(r) => witness[r].changes + 1 \in 0..2
    BY <2>2 DEF Concerns
  <2> DEFINE entitled == witness[r].entitled \cup EntitledNow(r)'
             changes == IF Concerns(r) THEN witness[r].changes + 1 ELSE witness[r].changes
             stale == \/ witness[r].stale
                      \/ /\ ~Asks(r) /\ Loaded(r)
                         /\ users'[requests[r].target] # users[requests[r].target]
  <2>4. entitled \in SUBSET Bases /\ changes \in 0..2
    BY <2>1, <2>2, <2>3
  <2>5. stale \in BOOLEAN
    BY <2>2
  <2>6. CASE InProgress(r) /\ InProgress(r)'
    <3>1. Witness(r) = [entitled |-> entitled, changes |-> changes, stale |-> stale]
      BY <2>6 DEF Witness
    <3> HIDE DEF entitled, changes, stale
    <3>2. QED BY <3>1, <2>4, <2>5
  <2>7. CASE ~(InProgress(r) /\ InProgress(r)')
    <3>1. Witness(r) = [entitled |-> EntitledNow(r)', changes |-> 0, stale |-> FALSE]
      BY <2>7 DEF Witness, NoWitness
    <3>2. QED BY <3>1, <2>1
  <2>8. QED BY <2>6, <2>7
<1>2. QED BY <1>1 DEF Observe

LEMMA TypePreserved == TypeOK /\ [Next]_vars => TypeOK'
<1> SUFFICES ASSUME TypeOK, [Next]_vars PROVE TypeOK'
  OBVIOUS
<1>1. CASE UNCHANGED vars
  BY <1>1 DEF vars, TypeOK
<1>2. CASE Next
  <2> DEFINE BasesTyped ==
               /\ bases' \in [Bases -> {"absent", "private", "public", "deleted"}]
               /\ granted' \subseteq Grants
               /\ \A g \in granted' : bases'[g.base] \in {"private", "public"}
             Rest == /\ users' \in [Users -> UserRows]
                     /\ requests' \in [Requests -> RequestRecords]
                     /\ \A s \in Requests :
                          requests'[s].pc \in {"target", "target_roles", "commit"} =>
                            requests'[s].change \in Changes
                     /\ commits' \in 0..MaxCommits
  <2>1. \A g \in granted : g.base \in Bases
    BY DEF TypeOK, Grants
  <2>2. ASSUME NEW r \in Requests, Request(r) PROVE Rest /\ BasesTyped
    <3>1. Rest /\ UNCHANGED <<bases, granted>>
      BY <2>2, RequestTyped
    <3>2. QED BY <3>1 DEF TypeOK
  <2>3. ASSUME NEW b \in Bases, NEW state \in {"private", "public"}, CreateBase(b, state)
        PROVE  Rest /\ BasesTyped
    <3>0. bases' = [bases EXCEPT ![b] = state] /\ granted' = granted
      BY <2>3 DEF CreateBase
    <3>1. BasesTyped
      BY <2>1, <2>3, <3>0 DEF TypeOK
    <3>2. QED BY <2>3, <3>1, CommitsBounded DEF CreateBase, TypeOK
  <2>4. ASSUME NEW b \in Bases, NEW s \in Subjects, AddPermission(b, s)
        PROVE  Rest /\ BasesTyped
    <3>1. [base |-> b, subject |-> s] \in Grants
      BY DEF Grants
    <3>2. BasesTyped
      BY <2>1, <2>4, <3>1 DEF AddPermission, TypeOK
    <3>3. QED BY <2>4, <3>2, CommitsBounded DEF AddPermission, TypeOK
  <2>5. ASSUME NEW b \in Bases, DeleteBase(b) PROVE Rest /\ BasesTyped
    <3>1. BasesTyped
      BY <2>1, <2>5 DEF DeleteBase, Cascaded, TypeOK
    <3>2. QED BY <2>5, <3>1, CommitsBounded DEF DeleteBase, TypeOK
  <2>6. Observe /\ Rest /\ BasesTyped
    BY <1>2, <2>2, <2>3, <2>4, <2>5 DEF Next
  <2>7. QED BY <2>6, WitnessTyped DEF TypeOK
<1>3. QED BY <1>1, <1>2

(* Rows, bases, permissions and requests keep their types, for any users,   *)
(* roles, bases, bodies and number of requests.                             *)
THEOREM TypeCorrect == Spec => []TypeOK
<1>1. QED BY InitTyped, TypePreserved, PTL DEF Spec

-----------------------------------------------------------------------------
(* What a step may do to the requests and to the tables.                    *)

LEMMA OnlyItsOwnRecord ==
  ASSUME TypeOK, NEW r \in Requests, NEW s \in Requests, Request(s), r # s
  PROVE  requests'[r] = requests[r]
BY DEF TypeOK, Request, Begin, ReadRoles, ReadBases, Search, ReadTarget, ReadTargetRoles,
       Commit, Fails, Ends

LEMMA StepShape ==
  ASSUME TypeOK, Next
  PROVE  /\ Observe
         /\ users' = users \/ (bases' = bases /\ granted' = granted)
         /\ \A r \in Requests : requests'[r] = requests[r] \/ Request(r)
         /\ users' = users \/ \E r \in Requests : Commit(r)
<1>1. ASSUME NEW s \in Requests, Request(s)
      PROVE  /\ bases' = bases /\ granted' = granted
             /\ \A r \in Requests : requests'[r] = requests[r] \/ Request(r)
             /\ users' = users \/ \E r \in Requests : Commit(r)
  <2>1. bases' = bases /\ granted' = granted
    BY <1>1, RequestTyped
  <2>2. \A r \in Requests : requests'[r] = requests[r] \/ Request(r)
    BY <1>1, OnlyItsOwnRecord
  <2>3. users' = users \/ Commit(s)
    BY <1>1 DEF Request, Begin, ReadRoles, ReadBases, Search, ReadTarget, ReadTargetRoles,
                Fails
  <2>4. QED BY <2>1, <2>2, <2>3
<1>2. \/ \E s \in Requests : Request(s)
      \/ UNCHANGED <<users, requests>>
  BY DEF Next, CreateBase, AddPermission, DeleteBase
<1>3. QED BY <1>1, <1>2 DEF Next

-----------------------------------------------------------------------------
(* Updates *)

(* What is past the check of update_user does not disable its own admin.    *)
NoneDisablesItself ==
  \A r \in Requests : At(r, "target_roles") \/ At(r, "commit") => ~DisablesSelf(r)

(* What an update has read of its target is as it is, unless it is known to *)
(* be stale.                                                                *)
ReadAsItIs(r) ==
  LET q == requests[r]
      row == users[q.target]
  IN  q.change # None /\ ~witness[r].stale =>
        /\ q.pc = "commit" => q.loaded = row
        /\ q.pc = "target_roles" =>
             /\ q.loaded.active = row.active /\ q.loaded.department = row.department
        /\ q.target = q.user /\ q.pc \in {"roles", "target"} =>
             /\ q.seen.active = row.active /\ q.seen.department = row.department
             /\ q.pc = "target" => q.seen.roles = row.roles

UpdateInv == TypeOK /\ NoneDisablesItself /\ \A r \in Requests : ReadAsItIs(r)

LEMMA RowsEqual ==
  ASSUME NEW a \in UserRows, NEW b \in UserRows,
         a.active = b.active, a.department = b.department, a.roles = b.roles
  PROVE  a = b
BY DEF UserRows

LEMMA UpdateInvInit == Init => UpdateInv
BY InitTyped, AccessAssumption
   DEF Init, UpdateInv, NoneDisablesItself, ReadAsItIs, At, Idle

(* While a request waits, whatever the others do to its target is noticed.  *)
LEMMA OthersMakeItStale ==
  ASSUME UpdateInv, NEW r \in Requests, Observe, requests'[r] = requests[r]
  PROVE  ReadAsItIs(r)'
<1> SUFFICES ASSUME requests[r].change # None, ~witness'[r].stale,
                    requests[r].pc \in {"commit", "target_roles", "roles", "target"}
             PROVE  ReadAsItIs(r)'
  BY DEF ReadAsItIs
<1>1. InProgress(r) /\ InProgress(r)'
  BY DEF InProgress, At
<1>2. witness'[r].stale <=>
        witness[r].stale \/ (~Asks(r) /\ Loaded(r)
                             /\ users'[requests[r].target] # users[requests[r].target])
  BY <1>1 DEF Observe, Witness
<1>3. ~Asks(r)
  BY DEF Asks
<1>4. ~witness[r].stale
      /\ (Loaded(r) => users'[requests[r].target] = users[requests[r].target])
  BY <1>2, <1>3
<1>5. ReadAsItIs(r)
  BY DEF UpdateInv
<1>6. QED BY <1>4, <1>5 DEF ReadAsItIs, Loaded, At

LEMMA OwnStepReads ==
  ASSUME UpdateInv, NEW r \in Requests, Request(r), Observe
  PROVE  ReadAsItIs(r)' /\ (At(r, "target_roles")' \/ At(r, "commit")' => ~DisablesSelf(r)')
<1> DEFINE q == requests[r]
           row == users[q.target]
           Holds == /\ ReadAsItIs(r)'
                    /\ (At(r, "target_roles")' \/ At(r, "commit")' => ~DisablesSelf(r)')
<1>1. /\ q \in RequestRecords /\ q.user \in Users /\ q.target \in Users
      /\ q.seen \in UserRows /\ q.loaded \in UserRows /\ row \in UserRows
  BY RequestFields DEF UpdateInv, TypeOK
<1>2. ASSUME Ends(r) PROVE Holds
  BY <1>2 DEF Ends, UpdateInv, TypeOK, ReadAsItIs, At, Idle
<1>3. ASSUME InProgress(r), InProgress(r)', UNCHANGED users, q.change # None, ~witness'[r].stale
      PROVE  ~witness[r].stale /\ ReadAsItIs(r)
  BY <1>3 DEF Observe, Witness, UpdateInv
<1>4. ASSUME NEW u \in Users, NEW t \in Users, NEW c \in Changes \cup {None},
             Begin(r, u, c, IF c = None THEN u ELSE t)
      PROVE  Holds
  <2>1. /\ requests'[r].pc = "roles" /\ requests'[r].user = u /\ users' = users
        /\ requests'[r].seen.active = users[u].active
        /\ requests'[r].seen.department = users[u].department
    BY <1>4, NoRowTyped DEF Begin, UpdateInv, TypeOK, Idle, UserRows
  <2>2. QED BY <2>1 DEF ReadAsItIs, At
<1>5. ASSUME ReadRoles(r), ~Ends(r) PROVE Holds
  <2>1. /\ At(r, "roles") /\ users' = users
        /\ requests' = [requests EXCEPT ![r].seen.roles = User(r).roles,
             ![r].pc = IF q.change = None THEN "bases" ELSE "target"]
    BY <1>5 DEF ReadRoles
  <2>2. /\ requests'[r].pc = IF q.change = None THEN "bases" ELSE "target"
        /\ requests'[r].change = q.change /\ requests'[r].target = q.target
        /\ requests'[r].user = q.user
        /\ requests'[r].seen.active = q.seen.active
        /\ requests'[r].seen.department = q.seen.department
        /\ requests'[r].seen.roles = users[q.user].roles
    BY <1>1, <2>1 DEF UpdateInv, TypeOK, RequestRecords, UserRows, User
  <2>3. q.change # None /\ ~witness'[r].stale => ~witness[r].stale /\ ReadAsItIs(r)
    BY <1>3, <2>1, <2>2 DEF InProgress, At
  <2>4. ReadAsItIs(r)'
    BY <2>1, <2>2, <2>3 DEF ReadAsItIs, At
  <2>5. QED BY <2>2, <2>4 DEF At
<1>6. ASSUME ReadBases(r) PROVE Holds
  BY <1>6 DEF ReadBases, UpdateInv, TypeOK, RequestRecords, ReadAsItIs, At
<1>7. ASSUME ReadTarget(r), ~Ends(r) PROVE Holds
  <2>1. At(r, "target") /\ users' = users /\ ~DisablesSelf(r)
    BY <1>7 DEF ReadTarget, Refused
  <2>2. requests'[r].change = q.change /\ requests'[r].target = q.target
        /\ requests'[r].user = q.user
    BY <1>1, <1>7 DEF ReadTarget, UpdateInv, TypeOK, RequestRecords
  <2>3. ~DisablesSelf(r)'
    BY <2>1, <2>2 DEF DisablesSelf
  <2>4. CASE q.target = q.user
    <3>1. requests'[r].pc = "commit" /\ requests'[r].loaded = q.seen
      BY <1>1, <1>7, <2>4 DEF ReadTarget, UpdateInv, TypeOK, RequestRecords
    <3>2. q.change # None /\ ~witness'[r].stale => ~witness[r].stale /\ ReadAsItIs(r)
      BY <1>3, <2>1, <2>2, <3>1 DEF InProgress, At
    <3>3. q.change # None /\ ~witness'[r].stale => q.seen = row
      BY <1>1, <2>1, <2>4, <3>2, RowsEqual DEF ReadAsItIs, At
    <3>4. QED BY <2>1, <2>2, <2>3, <3>1, <3>3 DEF ReadAsItIs
  <2>5. CASE q.target # q.user
    <3>1. /\ requests'[r].pc = "target_roles"
          /\ requests'[r].loaded = [NoRow EXCEPT !.active = row.active,
                                                 !.department = row.department]
      BY <1>1, <1>7, <2>5 DEF ReadTarget, UpdateInv, TypeOK, RequestRecords
    <3>2. requests'[r].loaded.active = row.active
          /\ requests'[r].loaded.department = row.department
      BY <3>1, NoRowTyped DEF UserRows
    <3>3. QED BY <2>1, <2>2, <2>3, <3>1, <3>2 DEF ReadAsItIs
  <2>6. QED BY <2>4, <2>5
<1>8. ASSUME ReadTargetRoles(r) PROVE Holds
  <2>1. /\ requests'[r].pc = "commit" /\ users' = users /\ At(r, "target_roles")
        /\ requests'[r].change = q.change /\ requests'[r].target = q.target
        /\ requests'[r].user = q.user
    BY <1>1, <1>8 DEF ReadTargetRoles, UpdateInv, TypeOK, RequestRecords
  <2>2. requests'[r].loaded = [q.loaded EXCEPT !.roles = row.roles]
    BY <1>1, <1>8 DEF ReadTargetRoles, UpdateInv, TypeOK, RequestRecords
  <2>3. ~DisablesSelf(r)'
    BY <2>1 DEF DisablesSelf, UpdateInv, NoneDisablesItself
  <2>4. ASSUME q.change # None, ~witness'[r].stale PROVE requests'[r].loaded = row
    <3>1. q.loaded.active = row.active /\ q.loaded.department = row.department
      BY <1>3, <2>1, <2>4 DEF InProgress, At, ReadAsItIs
    <3>2. QED BY <1>1, <2>2, <3>1 DEF UserRows
  <2>5. QED BY <2>1, <2>3, <2>4 DEF ReadAsItIs
<1>9. ASSUME Search(r) \/ Fails(r) \/ Commit(r) PROVE Holds
  BY <1>2, <1>9 DEF Search, Fails, Commit
<1>10. QED
  BY <1>2, <1>4, <1>5, <1>6, <1>7, <1>8, <1>9 DEF Request

LEMMA UpdateInvNext == UpdateInv /\ [Next]_vars => UpdateInv'
<1> SUFFICES ASSUME UpdateInv, [Next]_vars PROVE UpdateInv'
  OBVIOUS
<1>1. CASE UNCHANGED vars
  BY <1>1, TypePreserved
     DEF vars, UpdateInv, NoneDisablesItself, ReadAsItIs, DisablesSelf, At
<1>2. CASE Next
  <2>1. TypeOK /\ TypeOK'
    BY TypePreserved DEF UpdateInv
  <2>2. Observe /\ \A r \in Requests : requests'[r] = requests[r] \/ Request(r)
    BY <1>2, <2>1, StepShape
  <2>3. \A r \in Requests : ReadAsItIs(r)'
    BY <2>2, OthersMakeItStale, OwnStepReads
  <2>4. ASSUME NEW r \in Requests, At(r, "target_roles")' \/ At(r, "commit")'
        PROVE  ~DisablesSelf(r)'
    <3>1. CASE requests'[r] = requests[r]
      BY <2>4, <3>1 DEF UpdateInv, NoneDisablesItself, DisablesSelf, At
    <3>2. CASE Request(r)
      BY <2>2, <2>4, <3>2, OwnStepReads
    <3>3. QED BY <2>2, <3>1, <3>2
  <2>5. QED BY <2>1, <2>3, <2>4 DEF UpdateInv, NoneDisablesItself
<1>3. QED BY <1>1, <1>2

-----------------------------------------------------------------------------
(* What an update writes over the row it loaded, if that is still the row.  *)
LEMMA WrittenOverSame ==
  ASSUME UpdateInv, NEW r \in Requests, requests[r].change \in Changes,
         NEW row \in UserRows, requests[r].loaded = row
  PROVE  Written(r, row) = Asked(r)
<1>1. Asked(r) \in UserRows /\ Written(r, row) \in UserRows
  BY WrittenTyped DEF UpdateInv
<1>2. /\ Written(r, row).active = Asked(r).active
      /\ Written(r, row).department = Asked(r).department
  BY DEF Written
<1>3. Written(r, row).roles = Asked(r).roles
  <2>1. Written(r, row).roles = (row.roles \ Taken(r)) \cup Given(r)
    BY DEF Written
  <2>2. Given(r) = Asked(r).roles \ row.roles /\ Taken(r) = row.roles \ Asked(r).roles
    BY DEF Given, Taken
  <2>3. QED BY <2>1, <2>2
<1>4. QED BY <1>1, <1>2, <1>3, RowsEqual

(* An update changes what its admin asked to change and nothing else, also  *)
(* when the row was changed by another update since it was loaded.          *)
THEOREM StaleUpdatesAreHarmless == Spec => UpdatesWriteDifferences
<1>1. ASSUME UpdateInv, NEW r \in Requests, At(r, "commit"), Commit(r)
      PROVE  LET u == requests[r].target IN
             /\ users'[u].roles \ users[u].roles \subseteq Given(r)
             /\ users'[u].active /\ ~users[u].active => ~requests[r].loaded.active
             /\ ~witness[r].stale => users'[u] = Asked(r)
  <2> DEFINE u == requests[r].target
             row == users[u]
  <2>1. /\ row \in UserRows /\ requests[r].loaded \in UserRows
        /\ requests[r].change \in Changes /\ u \in Users
    BY <1>1, RequestFields DEF UpdateInv, TypeOK, At
  <2>2. Asked(r) \in UserRows /\ users'[u] = Written(r, row)
    BY <1>1, <2>1, WrittenTyped DEF Commit, UpdateInv, TypeOK
  <2>3. users'[u].roles \ row.roles \subseteq Given(r)
    <3>1. users'[u].roles = (row.roles \ Taken(r)) \cup Given(r)
      BY <2>2 DEF Written
    <3>2. QED BY <3>1
  <2>4. users'[u].active /\ ~row.active => ~requests[r].loaded.active
    <3>1. users'[u].active = IF requests[r].loaded.active = Asked(r).active
                             THEN row.active ELSE Asked(r).active
      BY <2>2 DEF Written
    <3>2. row.active \in BOOLEAN /\ requests[r].loaded.active \in BOOLEAN
          /\ Asked(r).active \in BOOLEAN
      BY <2>1, <2>2, RowFields
    <3>3. QED BY <3>1, <3>2
  <2>5. ASSUME ~witness[r].stale PROVE users'[u] = Asked(r)
    <3>1. requests[r].loaded = row
      BY <1>1, <2>1, <2>5, AccessAssumption DEF UpdateInv, ReadAsItIs, At
    <3>2. QED BY <1>1, <2>1, <2>2, <3>1, WrittenOverSame
  <2>6. QED BY <2>3, <2>4, <2>5
<1>2. UpdateInv /\ [Next]_vars =>
        [\A r \in Requests : At(r, "commit") /\ Commit(r) =>
           LET u == requests[r].target IN
           /\ users'[u].roles \ users[u].roles \subseteq Given(r)
           /\ users'[u].active /\ ~users[u].active => ~requests[r].loaded.active
           /\ ~witness[r].stale => users'[u] = Asked(r)]_vars
  BY <1>1
<1>3. QED
  BY <1>2, UpdateInvInit, UpdateInvNext, PTL DEF Spec, UpdatesWriteDifferences

(* The last active admin is lost only by giving up the role itself, or to   *)
(* an update that was admitted for an admin who is none any more.           *)
THEOREM AdminsRemain == Spec => LastAdminGoesByItself
<1>1. ASSUME UpdateInv, Next, ActiveAdmins # {}, ActiveAdmins' = {}
      PROVE  \E r \in Requests :
               /\ At(r, "commit") /\ Commit(r)
               /\ \/ requests[r].target = requests[r].user /\ Admin \in Taken(r)
                  \/ requests[r].user \notin ActiveAdmins
  <2>1. users' # users
    BY <1>1 DEF ActiveAdmins
  <2>2. PICK r \in Requests : Commit(r)
    BY <1>1, <2>1, StepShape DEF UpdateInv
  <2> DEFINE q == requests[r]
             row == users[q.target]
  <2>3. /\ At(r, "commit") /\ q.change \in Changes /\ q.target \in Users /\ q.user \in Users
        /\ q.loaded \in UserRows /\ row \in UserRows
    BY <1>1, <2>2, RequestFields DEF Commit, UpdateInv, TypeOK, At
  <2>4. users' = [users EXCEPT ![q.target] = Written(r, row)]
    BY <2>2 DEF Commit
  <2>5. SUFFICES ASSUME q.user \in ActiveAdmins
                 PROVE  q.target = q.user /\ Admin \in Taken(r)
    BY <2>2, <2>3
  <2>6. users[q.user].active /\ Admin \in users[q.user].roles
        /\ ~(users'[q.user].active /\ Admin \in users'[q.user].roles)
    BY <1>1, <2>3, <2>5 DEF ActiveAdmins
  <2>7. q.target = q.user
    BY <1>1, <2>3, <2>4, <2>6 DEF UpdateInv, TypeOK
  <2>8. users'[q.user] = Written(r, row)
    BY <1>1, <2>3, <2>4, <2>7 DEF UpdateInv, TypeOK
  <2>9. Written(r, row).active
    <3>1. Written(r, row).active = IF q.loaded.active = Asked(r).active
                                   THEN row.active ELSE Asked(r).active
      BY DEF Written
    <3>2. q.loaded.active \in BOOLEAN /\ Asked(r).active \in BOOLEAN
      BY <1>1, <2>3, WrittenTyped, RowFields DEF UpdateInv
    <3>3. ~DisablesSelf(r)
      BY <1>1, <2>3 DEF UpdateInv, NoneDisablesItself
    <3>4. Asked(r).active = FALSE => q.loaded.active = FALSE
      BY <2>7, <3>2, <3>3 DEF Asked, DisablesSelf
    <3>5. QED BY <2>6, <2>7, <3>1, <3>2, <3>4
  <2>10. Admin \notin Written(r, row).roles /\ Admin \in row.roles
    BY <2>6, <2>7, <2>8, <2>9
  <2>11. Written(r, row).roles = (row.roles \ Taken(r)) \cup Given(r)
    BY DEF Written
  <2>12. QED BY <2>7, <2>10, <2>11
<1>2. UpdateInv /\ [Next]_vars =>
        [ActiveAdmins # {} /\ ActiveAdmins' = {} =>
           \E r \in Requests :
             /\ At(r, "commit") /\ Commit(r)
             /\ \/ requests[r].target = requests[r].user /\ Admin \in Taken(r)
                \/ requests[r].user \notin ActiveAdmins]_vars
  BY <1>1
<1>3. QED
  BY <1>2, UpdateInvInit, UpdateInvNext, PTL DEF Spec, LastAdminGoesByItself

-----------------------------------------------------------------------------
(* Questions *)

(* What a question has read was open to its user, unless two changes came   *)
(* in between or the user was disabled; and it is as it is, unless one did. *)
QuestionInv(r) ==
  LET q == requests[r]
      w == witness[r]
      row == users[q.user]
  IN  Asks(r) =>
        /\ Entitled(q.user) \subseteq w.entitled
        /\ q.pc = "roles" => q.seen.roles = {}
        /\ w.changes = 0 =>
             /\ row.active
             /\ q.pc \in {"roles", "bases"} => q.seen.department = row.department
             /\ q.pc = "bases" => q.seen.roles = row.roles
             /\ q.pc = "search" => q.bases = OpenTo(row)
        /\ w.changes <= 1 /\ row.active =>
             /\ q.pc \in {"roles", "bases"} => OpenTo(q.seen) \subseteq w.entitled
             /\ q.pc = "search" => q.bases \subseteq w.entitled

OnlyQuestionsReadBases(r) ==
  requests[r].pc \in {"bases", "search"} => requests[r].change = None

ContextInv ==
  TypeOK /\ \A r \in Requests : QuestionInv(r) /\ OnlyQuestionsReadBases(r)

LEMMA ContextInvInit == Init => ContextInv
BY InitTyped
   DEF Init, ContextInv, QuestionInv, OnlyQuestionsReadBases, Asks, InProgress, At, Idle

LEMMA WitnessOfQuestion ==
  ASSUME TypeOK, NEW r \in Requests, Observe, Asks(r)'
  PROVE  /\ Entitled(requests[r].user)' \subseteq witness'[r].entitled
         /\ Asks(r) => /\ witness'[r].entitled =
                            witness[r].entitled \cup Entitled(requests[r].user)'
                       /\ witness'[r].changes = IF Concerns(r) THEN witness[r].changes + 1
                                                ELSE witness[r].changes
         /\ ~InProgress(r) => witness'[r].changes = 0
<1>1. EntitledNow(r)' = Entitled(requests[r].user)'
  BY DEF EntitledNow
<1>2. witness'[r] = Witness(r)
  BY DEF Observe
<1>3. CASE InProgress(r)
  <2>1. /\ Witness(r).entitled = witness[r].entitled \cup EntitledNow(r)'
        /\ Witness(r).changes = IF Concerns(r) THEN witness[r].changes + 1
                                               ELSE witness[r].changes
    BY <1>3 DEF Witness, Asks
  <2>2. QED BY <1>1, <1>2, <1>3, <2>1 DEF Asks
<1>4. CASE ~InProgress(r)
  <2>1. Witness(r).entitled = EntitledNow(r)' /\ Witness(r).changes = 0
    BY <1>4 DEF Witness, NoWitness
  <2>2. QED BY <1>1, <1>2, <1>4, <2>1 DEF Asks
<1>5. QED BY <1>3, <1>4

(* A question waits while others change its user, or bases and permissions. *)
LEMMA OthersChange ==
  ASSUME ContextInv, NEW r \in Requests, Observe, requests'[r] = requests[r],
         users' = users \/ (bases' = bases /\ granted' = granted)
  PROVE  QuestionInv(r)'
<1> DEFINE q == requests[r]
           w == witness[r]
           row == users[q.user]
<1> SUFFICES ASSUME Asks(r)' PROVE QuestionInv(r)'
  BY DEF QuestionInv
<1>1. Asks(r) /\ QuestionInv(r) /\ q.user \in Users /\ w.changes \in 0..2
  BY RequestFields DEF Asks, InProgress, At, ContextInv, TypeOK
<1>2. /\ Entitled(q.user)' \subseteq witness'[r].entitled
      /\ witness'[r].entitled = w.entitled \cup Entitled(q.user)'
      /\ witness'[r].changes = IF Concerns(r) THEN w.changes + 1 ELSE w.changes
  BY <1>1, WitnessOfQuestion DEF ContextInv
<1>3. q.pc = "roles" => q.seen.roles = {}
  BY <1>1 DEF QuestionInv
<1>4. CASE ~Concerns(r) /\ w.changes < 2
  <2>1. bases' = bases /\ granted' = granted /\ users'[q.user] = row
    BY <1>1, <1>4 DEF Concerns, User
  <2>2. OpenTo(q.seen)' = OpenTo(q.seen) /\ OpenTo(row)' = OpenTo(row)
    BY <2>1 DEF OpenTo, SubjectsOf
  <2>3. witness'[r].changes = w.changes /\ w.entitled \subseteq witness'[r].entitled
    BY <1>2, <1>4
  <2>4. QED BY <1>1, <1>2, <1>3, <2>1, <2>2, <2>3 DEF QuestionInv
<1>5. CASE Concerns(r) /\ w.changes = 0
  <2>1. witness'[r].changes = 1 /\ row.active
    BY <1>1, <1>2, <1>5 DEF QuestionInv
  <2>2. ASSUME users'[q.user].active, q.pc \in {"roles", "bases"}
        PROVE  OpenTo(q.seen)' \subseteq witness'[r].entitled
    <3>1. CASE users' = users
      <4>1. SubjectsOf(q.seen)' \subseteq SubjectsOf(row)'
        BY <1>1, <1>5, <2>2, <3>1 DEF SubjectsOf, QuestionInv
      <4>2. OpenTo(q.seen)' \subseteq OpenTo(row)'
        BY <4>1 DEF OpenTo
      <4>3. OpenTo(row)' = Entitled(q.user)'
        BY <2>2 DEF Entitled
      <4>4. QED BY <1>2, <4>2, <4>3
    <3>2. CASE bases' = bases /\ granted' = granted
      <4>1. OpenTo(q.seen)' = OpenTo(q.seen)
        BY <3>2 DEF OpenTo, SubjectsOf
      <4>2. OpenTo(q.seen) \subseteq w.entitled
        BY <1>1, <1>5, <2>1, <2>2 DEF QuestionInv
      <4>3. QED BY <1>2, <4>1, <4>2
    <3>3. QED BY <3>1, <3>2
  <2>3. q.pc = "search" => q.bases \subseteq w.entitled
    BY <1>1, <1>5, <2>1 DEF QuestionInv
  <2>4. QED BY <1>2, <1>3, <2>1, <2>2, <2>3 DEF QuestionInv
<1>6. CASE w.changes = 2 \/ (Concerns(r) /\ w.changes = 1)
  <2>1. witness'[r].changes = 2
    BY <1>1, <1>2, <1>6 DEF Concerns
  <2>2. ~(witness'[r].changes = 0) /\ ~(witness'[r].changes <= 1)
    BY <2>1
  <2>3. QED BY <1>2, <1>3, <2>2 DEF QuestionInv
<1>7. QED
  BY <1>1, <1>4, <1>5, <1>6

(* A question takes a step of its own: it begins, or reads on.              *)
LEMMA OwnStepOfQuestion ==
  ASSUME ContextInv, NEW r \in Requests, Request(r), Observe
  PROVE  QuestionInv(r)'
<1> DEFINE q == requests[r]
           w == witness[r]
           row == users[q.user]
<1> SUFFICES ASSUME Asks(r)' PROVE QuestionInv(r)'
  BY DEF QuestionInv
<1>1. /\ q \in RequestRecords /\ q.user \in Users /\ q.seen \in UserRows /\ row \in UserRows
      /\ w.changes \in 0..2 /\ bases' = bases /\ granted' = granted
  BY RequestFields, RequestTyped DEF ContextInv, TypeOK
<1>2. ~Ends(r)
  BY DEF Ends, ContextInv, TypeOK, Asks, InProgress, At, Idle
<1>3. ASSUME Asks(r), users' = users, requests'[r].user = q.user
      PROVE  /\ Entitled(q.user)' = Entitled(q.user)
             /\ witness'[r].entitled = w.entitled /\ witness'[r].changes = w.changes
             /\ Entitled(q.user) \subseteq w.entitled
  <2>1. QuestionInv(r)
    BY DEF ContextInv
  <2>2. Entitled(q.user)' = Entitled(q.user)
    BY <1>1, <1>3 DEF Entitled, OpenTo, SubjectsOf
  <2>3. ~Concerns(r)
    BY <1>1, <1>3 DEF Concerns, User
  <2>4. Entitled(q.user) \subseteq w.entitled
    BY <1>3, <2>1 DEF QuestionInv
  <2>5. Entitled(requests[r].user)' = Entitled(q.user)
    BY <1>1, <1>3 DEF Entitled, OpenTo, SubjectsOf
  <2>6. /\ witness'[r].entitled = w.entitled \cup Entitled(requests[r].user)'
        /\ witness'[r].changes = IF Concerns(r) THEN w.changes + 1 ELSE w.changes
    BY <1>3, WitnessOfQuestion DEF ContextInv
  <2>7. QED BY <2>2, <2>3, <2>4, <2>5, <2>6
<1>4. ASSUME NEW u \in Users, NEW t \in Users, NEW c \in Changes \cup {None},
             Begin(r, u, c, IF c = None THEN u ELSE t)
      PROVE  QuestionInv(r)'
  <2>1. /\ requests'[r].pc = "roles" /\ requests'[r].user = u /\ users' = users
        /\ requests'[r].seen.department = users[u].department
        /\ requests'[r].seen.roles = {} /\ users[u].active
    BY <1>4, NoRowTyped DEF Begin, Admitted, ContextInv, TypeOK, Idle, UserRows, NoRow
  <2>2. witness'[r].changes = 0 /\ Entitled(u)' \subseteq witness'[r].entitled
    BY <1>4, <2>1, WitnessOfQuestion DEF Begin, InProgress, ContextInv
  <2>3. OpenTo(requests[r].seen)' \subseteq OpenTo(users[u])'
    BY <2>1 DEF OpenTo, SubjectsOf
  <2>4. OpenTo(users[u])' = Entitled(u)'
    BY <2>1 DEF Entitled
  <2>5. OpenTo(requests[r].seen)' \subseteq witness'[r].entitled
    BY <2>2, <2>3, <2>4
  <2>6. QED BY <2>1, <2>2, <2>5 DEF QuestionInv
<1>5. ASSUME ReadRoles(r) PROVE QuestionInv(r)'
  <2>1. /\ At(r, "roles") /\ users' = users
        /\ requests' = [requests EXCEPT ![r].seen.roles = User(r).roles,
             ![r].pc = IF q.change = None THEN "bases" ELSE "target"]
    BY <1>2, <1>5 DEF ReadRoles
  <2>2. /\ requests'[r].pc = IF q.change = None THEN "bases" ELSE "target"
        /\ requests'[r].change = q.change /\ requests'[r].user = q.user
        /\ requests'[r].seen.department = q.seen.department
        /\ requests'[r].seen.roles = row.roles
    BY <1>1, <2>1 DEF ContextInv, TypeOK, RequestRecords, UserRows, User
  <2>3. Asks(r) /\ QuestionInv(r) /\ requests'[r].pc = "bases"
    BY <2>1, <2>2 DEF Asks, InProgress, At, ContextInv
  <2>4. ASSUME w.changes <= 1, row.active
        PROVE  OpenTo(requests[r].seen)' \subseteq w.entitled
    <3>1. OpenTo(q.seen) \subseteq w.entitled /\ OpenTo(row) \subseteq w.entitled
      BY <1>3, <2>1, <2>2, <2>3, <2>4 DEF QuestionInv, At, Entitled
    <3>2. SubjectsOf(requests[r].seen)' \subseteq SubjectsOf(q.seen) \cup SubjectsOf(row)
      BY <2>2 DEF SubjectsOf
    <3>3. OpenTo(requests[r].seen)' \subseteq OpenTo(q.seen) \cup OpenTo(row)
      BY <1>1, <3>2 DEF OpenTo
    <3>4. QED BY <3>1, <3>3
  <2>5. w.changes = 0 => row.active /\ q.seen.department = row.department
    BY <2>1, <2>3 DEF QuestionInv, At
  <2>6. QED BY <1>1, <1>3, <2>1, <2>2, <2>3, <2>4, <2>5 DEF QuestionInv
<1>6. ASSUME ReadBases(r) PROVE QuestionInv(r)'
  <2>1. /\ At(r, "bases") /\ users' = users
        /\ requests'[r].pc = "search" /\ requests'[r].bases = OpenTo(q.seen)
        /\ requests'[r].change = q.change /\ requests'[r].user = q.user
    BY <1>1, <1>6 DEF ReadBases, ContextInv, TypeOK, RequestRecords
  <2>2. Asks(r) /\ QuestionInv(r)
    BY <2>1 DEF Asks, InProgress, At, ContextInv
  <2>3. w.changes = 0 => row.active /\ OpenTo(q.seen) = OpenTo(row)'
    <3>1. w.changes = 0 => /\ row.active /\ q.seen.department = row.department
                           /\ q.seen.roles = row.roles
      BY <2>1, <2>2 DEF QuestionInv, At
    <3>2. w.changes = 0 => SubjectsOf(q.seen) = SubjectsOf(row)
      BY <3>1 DEF SubjectsOf
    <3>3. w.changes = 0 => OpenTo(q.seen) = OpenTo(row)
      BY <3>2 DEF OpenTo
    <3>4. OpenTo(row)' = OpenTo(row)
      BY <1>1, <2>1 DEF OpenTo, SubjectsOf
    <3>5. QED BY <3>1, <3>3, <3>4
  <2>4. w.changes <= 1 /\ row.active => OpenTo(q.seen) \subseteq w.entitled
    BY <2>1, <2>2 DEF QuestionInv, At
  <2>5. QED BY <1>3, <2>1, <2>2, <2>3, <2>4 DEF QuestionInv
<1>7. ASSUME ReadTarget(r) \/ ReadTargetRoles(r) PROVE FALSE
  <2>1. q.change \in Changes /\ requests'[r].change = q.change
    BY <1>1, <1>2, <1>7
       DEF ReadTarget, ReadTargetRoles, ContextInv, TypeOK, RequestRecords, At
  <2>2. QED BY <2>1, AccessAssumption DEF Asks
<1>8. ~Search(r) /\ ~Commit(r) /\ ~Fails(r)
  BY <1>2 DEF Search, Commit, Fails
<1>9. QED
  BY <1>4, <1>5, <1>6, <1>7, <1>8 DEF Request

LEMMA OnlyQuestionsGoOn ==
  ASSUME ContextInv, NEW r \in Requests, Request(r)
  PROVE  OnlyQuestionsReadBases(r)'
<1>1. requests[r] \in RequestRecords /\ OnlyQuestionsReadBases(r)
  BY DEF ContextInv, TypeOK
<1>2. CASE Ends(r)
  BY <1>2 DEF Ends, ContextInv, TypeOK, OnlyQuestionsReadBases, Idle
<1>3. CASE ReadRoles(r) /\ ~Ends(r)
  BY <1>1, <1>3 DEF ReadRoles, ContextInv, TypeOK, RequestRecords, OnlyQuestionsReadBases
<1>4. CASE ReadBases(r)
  BY <1>1, <1>4 DEF ReadBases, At, ContextInv, TypeOK, RequestRecords, OnlyQuestionsReadBases
<1>5. CASE ~(ReadRoles(r) \/ ReadBases(r) \/ Ends(r))
  <2>1. CASE \E u, t \in Users, c \in Changes \cup {None} :
               Begin(r, u, c, IF c = None THEN u ELSE t)
    <3>1. requests'[r].pc = "roles"
      BY <2>1 DEF Begin, ContextInv, TypeOK, Idle
    <3>2. QED BY <3>1 DEF OnlyQuestionsReadBases
  <2>2. CASE ReadTarget(r) \/ ReadTargetRoles(r)
    <3>1. requests'[r].pc \in {"commit", "target_roles"}
      BY <1>1, <1>5, <2>2
         DEF ReadTarget, ReadTargetRoles, ContextInv, TypeOK, RequestRecords
    <3>2. QED BY <3>1 DEF OnlyQuestionsReadBases
  <2>3. QED BY <1>5, <2>1, <2>2 DEF Request, Search, Fails, Commit
<1>6. QED BY <1>2, <1>3, <1>4, <1>5

LEMMA ContextInvNext == ContextInv /\ [Next]_vars => ContextInv'
<1> SUFFICES ASSUME ContextInv, [Next]_vars PROVE ContextInv'
  OBVIOUS
<1>1. CASE UNCHANGED vars
  BY <1>1, TypePreserved
     DEF vars, ContextInv, QuestionInv, OnlyQuestionsReadBases, Asks, InProgress, At,
         Entitled, OpenTo, SubjectsOf
<1>2. CASE Next
  <2>1. TypeOK /\ TypeOK'
    BY TypePreserved DEF ContextInv
  <2>2. /\ Observe /\ (users' = users \/ (bases' = bases /\ granted' = granted))
        /\ \A r \in Requests : requests'[r] = requests[r] \/ Request(r)
    BY <1>2, <2>1, StepShape
  <2>3. \A r \in Requests : QuestionInv(r)'
    BY <2>2, OthersChange, OwnStepOfQuestion
  <2>4. \A r \in Requests : OnlyQuestionsReadBases(r)'
    BY <2>2, OnlyQuestionsGoOn DEF ContextInv, OnlyQuestionsReadBases
  <2>5. QED BY <2>1, <2>3, <2>4 DEF ContextInv
<1>3. QED BY <1>1, <1>2

(* A question is answered from bases that were open to its user at one      *)
(* moment, although four statements read its rights: with at most one       *)
(* change in between there is such a moment, whatever the change was.       *)
THEOREM QuestionsReadWhatWasOpen == Spec => []ContextOfItsMoment
<1>1. ContextInv => ContextOfItsMoment
  <2> SUFFICES ASSUME ContextInv, NEW r \in Requests, At(r, "search")
               PROVE  /\ witness[r].changes <= 1 /\ User(r).active =>
                           requests[r].bases \subseteq witness[r].entitled
                      /\ witness[r].changes = 0 =>
                           requests[r].bases = Entitled(requests[r].user)
    BY DEF ContextOfItsMoment
  <2>1. Asks(r) /\ QuestionInv(r)
    BY DEF Asks, InProgress, At, ContextInv, OnlyQuestionsReadBases
  <2>2. QED BY <2>1 DEF QuestionInv, Entitled, User, At
<1>2. QED
  BY <1>1, ContextInvInit, ContextInvNext, PTL DEF Spec
==============================================================================
