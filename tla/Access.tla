-------------------------------- MODULE Access --------------------------------
(***************************************************************************)
(* Who may read which knowledge base.  A request reads its user, the       *)
(* user's roles and the bases open to them in three statements; admins     *)
(* change users, permissions and bases meanwhile.  PostgreSQL runs at READ *)
(* COMMITTED: each statement sees what is committed when it starts.  The   *)
(* mapper writes what an update changed since it loaded the user and       *)
(* nothing else.                                                           *)
(*                                                                         *)
(* A subject of a permission is a role or a department.                    *)
(***************************************************************************)
EXTENDS Naturals, FiniteSets

CONSTANTS
  Users, Roles, Departments, Bases,
  Admin,       \* the role that may change users
  Changes,     \* the bodies of PATCH /admin/users/{id}: any of three fields
  Requests,    \* requests in progress together
  None,        \* no body: the request asks a question
  FirstUsers,  \* the users a start may find
  MaxCommits   \* bound: updates, permissions and bases ever committed

Fields == {"active", "department", "roles"}
UserRows == [active : BOOLEAN, department : Departments, roles : SUBSET Roles]

ASSUME AccessAssumption ==
  /\ Users # {} /\ Departments # {} /\ Admin \in Roles
  /\ None \notin Changes
  /\ \A c \in Changes :
       /\ DOMAIN c \subseteq Fields
       /\ "active" \in DOMAIN c => c["active"] \in BOOLEAN
       /\ "department" \in DOMAIN c => c["department"] \in Departments
       /\ "roles" \in DOMAIN c => c["roles"] \in SUBSET Roles
  /\ FirstUsers \subseteq [Users -> UserRows]
  /\ MaxCommits \in Nat

VARIABLES
  users,     \* users with their department and roles
  bases,     \* knowledge_bases: absent, private, public or deleted
  granted,   \* knowledge_permissions
  requests,
  commits,   \* bound: how many changes were committed
  witness    \* history: per request, what its user was entitled to meanwhile

vars == <<users, bases, granted, requests, commits, witness>>

Subjects == Roles \cup Departments
Grants == [base : Bases, subject : Subjects]

Pcs == {"idle", "roles", "bases", "search", "target", "target_roles", "commit"}

NoRow == [active |-> FALSE, department |-> CHOOSE d \in Departments : TRUE, roles |-> {}]

Idle == [pc |-> "idle", user |-> CHOOSE u \in Users : TRUE, seen |-> NoRow, bases |-> {},
         change |-> None, target |-> CHOOSE u \in Users : TRUE, loaded |-> NoRow]

RequestRecords ==
  [pc : Pcs, user : Users, seen : UserRows, bases : SUBSET Bases,
   change : Changes \cup {None}, target : Users, loaded : UserRows]

TypeOK ==
  /\ users \in [Users -> UserRows]
  /\ bases \in [Bases -> {"absent", "private", "public", "deleted"}]
  /\ granted \subseteq Grants
  /\ \A g \in granted : bases[g.base] \in {"private", "public"}
  /\ requests \in [Requests -> RequestRecords]
  /\ \A r \in Requests : requests[r].pc \in {"target", "target_roles", "commit"} =>
       requests[r].change \in Changes
  /\ commits \in 0..MaxCommits
  /\ witness \in [Requests -> [entitled : SUBSET Bases, changes : 0..2, stale : BOOLEAN]]

NoWitness == [entitled |-> {}, changes |-> 0, stale |-> FALSE]

Init ==
  /\ users \in FirstUsers
  /\ bases = [b \in Bases |-> "absent"] /\ granted = {}
  /\ requests = [r \in Requests |-> Idle]
  /\ commits = 0
  /\ witness = [r \in Requests |-> NoWitness]

At(r, pc) == requests[r].pc = pc
InProgress(r) == ~At(r, "idle")
User(r) == users[requests[r].user]

-----------------------------------------------------------------------------
(* build_access_context: the bases a user row opens.                        *)

SubjectsOf(row) == {row.department} \cup row.roles

OpenTo(row) ==
  {b \in Bases : \/ bases[b] = "public"
                 \/ \E s \in SubjectsOf(row) : [base |-> b, subject |-> s] \in granted}

Entitled(u) == IF users[u].active THEN OpenTo(users[u]) ELSE {}

-----------------------------------------------------------------------------
(* Every request: get_current_user, and require_role for an update.         *)

Ends(r) == requests' = [requests EXCEPT ![r] = Idle]

(* Mutant of Admitted: a disabled user keeps its token and its rights.      *)
AdmitsDisabled(row) == TRUE
Admitted(row) == row.active

(* The first statement reads the row; nothing is done for a disabled user.  *)
Begin(r, u, change, target) ==
  /\ At(r, "idle")
  /\ Admitted(users[u])
  /\ requests' = [requests EXCEPT ![r] =
       [Idle EXCEPT !.pc = "roles", !.user = u, !.change = change, !.target = target,
                    !.seen.active = users[u].active, !.seen.department = users[u].department]]
  /\ UNCHANGED <<users, bases, granted, commits>>

ReadRoles(r) ==
  /\ At(r, "roles")
  /\ IF requests[r].change # None /\ Admin \notin User(r).roles
     THEN Ends(r)
     ELSE requests' = [requests EXCEPT ![r].seen.roles = User(r).roles,
            ![r].pc = IF requests[r].change = None THEN "bases" ELSE "target"]
  /\ UNCHANGED <<users, bases, granted, commits>>

-----------------------------------------------------------------------------
(* A question: the bases are read, the index is searched for them.          *)

ReadBases(r) ==
  /\ At(r, "bases")
  /\ requests' = [requests EXCEPT ![r].pc = "search", ![r].bases = OpenTo(requests[r].seen)]
  /\ UNCHANGED <<users, bases, granted, commits>>

Search(r) ==
  /\ At(r, "search")
  /\ Ends(r)
  /\ UNCHANGED <<users, bases, granted, commits>>

-----------------------------------------------------------------------------
(* update_user                                                              *)

DisablesSelf(r) ==
  LET change == requests[r].change IN
  /\ requests[r].target = requests[r].user
  /\ "active" \in DOMAIN change /\ change["active"] = FALSE

(* Mutant of Refused: the check is forgotten.                               *)
RefusedNever(r) == FALSE
Refused(r) == DisablesSelf(r)

(* load_user: the row.  An admin's own row is in the session already.       *)
ReadTarget(r) ==
  LET row == users[requests[r].target] IN
  /\ At(r, "target")
  /\ IF Refused(r) THEN Ends(r)
     ELSE IF requests[r].target = requests[r].user
     THEN requests' = [requests EXCEPT ![r].pc = "commit", ![r].seen = NoRow,
            ![r].loaded = requests[r].seen]
     ELSE requests' = [requests EXCEPT ![r].pc = "target_roles", ![r].seen = NoRow,
            ![r].loaded = [NoRow EXCEPT !.active = row.active, !.department = row.department]]
  /\ UNCHANGED <<users, bases, granted, commits>>

ReadTargetRoles(r) ==
  /\ At(r, "target_roles")
  /\ requests' = [requests EXCEPT ![r].pc = "commit",
                                  ![r].loaded.roles = users[requests[r].target].roles]
  /\ UNCHANGED <<users, bases, granted, commits>>

(* What the update makes of the row it loaded.                              *)
Asked(r) ==
  LET change == requests[r].change
      row == requests[r].loaded
  IN  [active |-> IF "active" \in DOMAIN change THEN change["active"] ELSE row.active,
       department |-> IF "department" \in DOMAIN change THEN change["department"]
                                                        ELSE row.department,
       roles |-> IF "roles" \in DOMAIN change THEN change["roles"] ELSE row.roles]

Given(r) == Asked(r).roles \ requests[r].loaded.roles
Taken(r) == requests[r].loaded.roles \ Asked(r).roles

(* Mutant of Written: the row is overwritten.                               *)
WrittenWhole(r, row) == Asked(r)

(* What the flush writes over the row as it is now.                         *)
Written(r, row) ==
  LET Now(old, new, now) == IF old = new THEN now ELSE new IN
  [active |-> Now(requests[r].loaded.active, Asked(r).active, row.active),
   department |-> Now(requests[r].loaded.department, Asked(r).department, row.department),
   roles |-> (row.roles \ Taken(r)) \cup Given(r)]

CanCommit == commits < MaxCommits
Commits == CanCommit /\ commits' = commits + 1

(* A role that is there already breaks the primary key of user_roles.       *)
Commit(r) ==
  LET row == users[requests[r].target] IN
  /\ At(r, "commit")
  /\ Given(r) \cap row.roles = {}
  /\ users' = [users EXCEPT ![requests[r].target] = Written(r, @)]
  /\ Ends(r) /\ Commits
  /\ UNCHANGED <<bases, granted>>

(* A request fails or is cancelled at any statement.                        *)
Fails(r) ==
  /\ InProgress(r)
  /\ Ends(r)
  /\ UNCHANGED <<users, bases, granted, commits>>

-----------------------------------------------------------------------------
(* The knowledge bases.  The admin was admitted at some moment before.      *)

CreateBase(b, state) ==
  /\ bases[b] = "absent"
  /\ bases' = [bases EXCEPT ![b] = state]
  /\ Commits
  /\ UNCHANGED <<users, granted, requests>>

AddPermission(b, s) ==
  /\ bases[b] \in {"private", "public"}
  /\ [base |-> b, subject |-> s] \notin granted
  /\ granted' = granted \cup {[base |-> b, subject |-> s]}
  /\ Commits
  /\ UNCHANGED <<users, bases, requests>>

Cascaded(b) == {g \in granted : g.base # b}

DeleteBase(b) ==
  /\ bases[b] \in {"private", "public"}
  /\ bases' = [bases EXCEPT ![b] = "deleted"]
  /\ granted' = Cascaded(b)
  /\ Commits
  /\ UNCHANGED <<users, requests>>

-----------------------------------------------------------------------------
(* History: of a question since it began, the bases its user was ever       *)
(* entitled to and the changes to what it reads, counted up to two; of an   *)
(* update, whether the row it loaded was changed.                           *)
Asks(r) == InProgress(r) /\ requests[r].change = None

EntitledNow(r) == IF Asks(r) THEN Entitled(requests[r].user) ELSE {}

Concerns(r) ==
  /\ Asks(r) /\ witness[r].changes < 2
  /\ \/ bases' # bases \/ granted' # granted
     \/ users'[requests[r].user] # User(r)

Loaded(r) ==
  \/ At(r, "target_roles") \/ At(r, "commit")
  \/ requests[r].target = requests[r].user /\ (At(r, "roles") \/ At(r, "target"))

Witness(r) ==
  IF InProgress(r) /\ InProgress(r)'
  THEN [entitled |-> witness[r].entitled \cup EntitledNow(r)',
        changes |-> IF Concerns(r) THEN witness[r].changes + 1 ELSE witness[r].changes,
        stale |-> \/ witness[r].stale
                  \/ /\ ~Asks(r) /\ Loaded(r)
                     /\ users'[requests[r].target] # users[requests[r].target]]
  ELSE [NoWitness EXCEPT !.entitled = EntitledNow(r)']

Observe == witness' = [r \in Requests |-> Witness(r)]

-----------------------------------------------------------------------------
Request(r) ==
  \/ \E u, t \in Users, c \in Changes \cup {None} : Begin(r, u, c, IF c = None THEN u ELSE t)
  \/ ReadRoles(r)
  \/ ReadBases(r) \/ Search(r)
  \/ ReadTarget(r) \/ ReadTargetRoles(r) \/ Commit(r)
  \/ Fails(r)

Next ==
  /\ \/ \E r \in Requests : Request(r)
     \/ \E b \in Bases :
          \/ \E state \in {"private", "public"} : CreateBase(b, state)
          \/ \E s \in Subjects : AddPermission(b, s)
          \/ DeleteBase(b)
  /\ Observe

Spec == Init /\ [][Next]_vars

-----------------------------------------------------------------------------
(* Properties *)

(* A question is answered from bases that were open to its user at some     *)
(* moment of the request, although the user, the roles and the permissions  *)
(* are read one after another, unless its user was disabled or two changes  *)
(* that concern it were committed in between; and from all of them if       *)
(* nothing changed.                                                         *)
ContextOfItsMoment ==
  \A r \in Requests : At(r, "search") =>
    /\ witness[r].changes <= 1 /\ User(r).active =>
         requests[r].bases \subseteq witness[r].entitled
    /\ witness[r].changes = 0 => requests[r].bases = Entitled(requests[r].user)

ActiveAdmins == {u \in Users : users[u].active /\ Admin \in users[u].roles}

(* The last active admin goes only by giving up the role itself, or by an   *)
(* update of someone who was an admin when it was admitted and is none now: *)
(* nobody disables itself, and no other way leads to a system without one.  *)
LastAdminGoesByItself ==
  [][ActiveAdmins # {} /\ ActiveAdmins' = {} =>
       \E r \in Requests :
         /\ At(r, "commit") /\ Commit(r)
         /\ \/ requests[r].target = requests[r].user /\ Admin \in Taken(r)
            \/ requests[r].user \notin ActiveAdmins]_vars

(* An update changes what its admin asked to change and nothing else: it    *)
(* gives only roles that were seen missing and asked for, and switches on   *)
(* only an account that was seen disabled, so that what another update took *)
(* away meanwhile does not come back with a stale row; and when the row is  *)
(* still as it was loaded, the user becomes what the admin is told.         *)
UpdatesWriteDifferences ==
  [][\A r \in Requests : At(r, "commit") /\ Commit(r) =>
       LET u == requests[r].target IN
       /\ users'[u].roles \ users[u].roles \subseteq Given(r)
       /\ users'[u].active /\ ~users[u].active => ~requests[r].loaded.active
       /\ ~witness[r].stale => users'[u] = Asked(r)]_vars
=============================================================================
