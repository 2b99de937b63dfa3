------------------------------- MODULE Session -------------------------------
(***************************************************************************)
(* The session of a browser tab: the token and the user in the store of    *)
(* the page, the token in sessionStorage that the requests carry, the page *)
(* that is mounted, and the tokens the server accepts.                     *)
(*                                                                         *)
(* The router's guard asks for the user when the store has a token and no  *)
(* user; an axios call answered 401 clears sessionStorage and asks for the *)
(* login page, which the guard turns into the chat page as long as the     *)
(* store has its token.  Logging out or in does not touch the requests     *)
(* that are under way; reloading the page forgets them.                    *)
(*                                                                         *)
(* A token is the number of the login that made it, NoToken is "".  The    *)
(* page "blank" is the one before the guard's first answer.                *)
(***************************************************************************)
EXTENDS Naturals, SequencesExt, FiniteSetsExt

CONSTANTS
  Users,      \* accounts
  Admins,     \* those with the role "admin"
  NoUser,     \* null
  MaxTokens,  \* bound: logins ever answered or under way
  MaxActs     \* bound: what the user ever does, and expiries

ASSUME SessionAssumption ==
  /\ Admins \subseteq Users /\ NoUser \notin Users
  /\ MaxTokens \in Nat /\ MaxActs \in Nat

NoToken == 0

VARIABLES
  token,    \* auth.token
  user,     \* auth.user
  stored,   \* the token in sessionStorage
  page,     \* the page that is mounted
  auth,     \* requests to /auth/login and /auth/me under way
  owner,    \* the user of each token made so far
  alive,    \* tokens the server accepts
  acts,     \* how many of those there were
  late,     \* history: a 401 of an earlier token cleared a later one
  crossed   \* history: two requests of the session were under way at once

sessionVars == <<token, user, stored, page, auth, owner, alive, acts, late, crossed>>

Tokens == 1..MaxTokens
Pages == {"blank", "login", "chat", "knowledge"}
Logins == [kind : {"login"}, as : Users]
Mes == [kind : {"me"}, token : Tokens \cup {NoToken}, valid : BOOLEAN,
        from : {"login", "guard"}, to : {"chat", "knowledge"}]

SessionTypeOK ==
  /\ owner \in Seq(Users) /\ Len(owner) <= MaxTokens
  /\ alive \subseteq DOMAIN owner
  /\ {token, stored} \subseteq DOMAIN owner \cup {NoToken}
  /\ user \in Users \cup {NoUser}
  /\ page \in Pages
  /\ auth \subseteq Logins \cup Mes
  /\ acts \in 0..MaxActs
  /\ {late, crossed} \subseteq BOOLEAN

(* GET /auth/me, with the token of sessionStorage.                          *)
Me(t, from, to) ==
  [kind |-> "me", token |-> t, valid |-> t \in alive, from |-> from, to |-> to]

(* The tab is new, or opened with a token in its sessionStorage.            *)
SessionInit ==
  /\ user = NoUser /\ acts = 0
  /\ late = FALSE /\ crossed = FALSE
  /\ \/ /\ owner = <<>> /\ alive = {}
        /\ token = NoToken /\ page = "login" /\ auth = {}
     \/ /\ owner \in [{1} -> Users] /\ alive = {1}
        /\ token = 1 /\ page = "blank" /\ auth = {Me(1, "guard", "chat")}
  /\ stored = token

Mounts(p) == page' = p /\ page # p

Acts == acts < MaxActs /\ acts' = acts + 1

(* The user does something on a page that leaves the session as it is.      *)
ActsOn(p) ==
  /\ page = p /\ Acts
  /\ UNCHANGED <<token, user, stored, page, auth, owner, alive, late, crossed>>

-----------------------------------------------------------------------------
(* The interceptor of the answers: what a failed call does to the session   *)
(* besides the error its caller sees.  "rest" are the requests that remain. *)

(* Mutant of ClearsSession: any error does.                                 *)
ClearsOnAnyError(status) == TRUE
ClearsSession(status) == status = "unauthorized"

Asks(r, rest) ==
  /\ auth' = rest \cup {r}
  /\ crossed' = (crossed \/ rest # {})

AskForLogin(rest) ==
  \/ /\ token = NoToken \/ user # NoUser
     /\ page' = IF token = NoToken THEN "login" ELSE "chat"
     /\ auth' = rest /\ UNCHANGED crossed
  \/ /\ token # NoToken /\ user = NoUser
     /\ Asks(Me(NoToken, "guard", "chat"), rest)
     /\ UNCHANGED page

Failed(status, t, rest) ==
  /\ IF ClearsSession(status)
     THEN /\ stored' = NoToken
          /\ late' = (late \/ stored \notin {NoToken, t})
          /\ AskForLogin(rest)
     ELSE auth' = rest /\ UNCHANGED <<stored, late, page, crossed>>
  /\ UNCHANGED <<token, user, owner, alive, acts>>

-----------------------------------------------------------------------------
(* Logging in: the button is disabled while a login is under way, the Enter *)
(* key is not.                                                              *)
SubmitLogin(u) ==
  /\ page = "login" /\ Acts
  /\ Len(owner) + Cardinality({r \in auth : r.kind = "login"}) < MaxTokens
  /\ Asks([kind |-> "login", as |-> u], auth)
  /\ UNCHANGED <<token, user, stored, page, owner, alive, late>>

LoginAnswered(r) ==
  LET new == Len(owner) + 1 IN
  /\ r.kind = "login"
  /\ owner' = Append(owner, r.as)
  /\ alive' = alive \cup {new}
  /\ token' = new /\ stored' = new
  /\ auth' = (auth \ {r}) \cup {[Me(new, "login", "chat") EXCEPT !.valid = TRUE]}
  /\ late' = FALSE
  /\ UNCHANGED <<user, page, acts, crossed>>

(* A wrong password is a 401 as well.                                       *)
LoginFails(r, status) ==
  /\ r.kind = "login"
  /\ status \in {"unauthorized", "lost"}
  /\ Failed(status, NoToken, auth \ {r})

(* The guard lets only administrators into the pages of the administration. *)
Admitted(u, to) == IF to = "knowledge" /\ u \notin Admins THEN "chat" ELSE to

(* Mutant of SignedOut: the user stays in the store.                        *)
TokenCleared ==
  /\ token' = NoToken /\ stored' = NoToken
  /\ page' = "login" /\ late' = FALSE
  /\ UNCHANGED user
SignedOut ==
  /\ token' = NoToken /\ stored' = NoToken /\ user' = NoUser
  /\ page' = "login" /\ late' = FALSE

(* loadCurrentUser() for a login, or for the guard.                         *)
MeAnswered(r) ==
  /\ r.kind = "me" /\ r.valid
  /\ user' = owner[r.token]
  /\ page' = IF r.from = "login" /\ token = NoToken THEN "login" ELSE Admitted(owner[r.token], r.to)
  /\ auth' = auth \ {r}
  /\ UNCHANGED <<token, stored, owner, alive, acts, late, crossed>>

(* The login form shows the error; the guard logs out, whatever the error.  *)
MeFails(r, status) ==
  /\ r.kind = "me"
  /\ status = "lost" \/ (status = "unauthorized" /\ r.token \notin alive)
  /\ IF r.from = "login"
     THEN Failed(status, r.token, auth \ {r})
     ELSE /\ SignedOut
          /\ auth' = auth \ {r}
          /\ UNCHANGED <<owner, alive, acts, crossed>>

-----------------------------------------------------------------------------
Logout ==
  /\ page \in {"chat", "knowledge"} /\ Acts
  /\ SignedOut
  /\ UNCHANGED <<auth, owner, alive, crossed>>

(* The menu shows the pages of the administration to administrators.        *)
Navigate(to) ==
  /\ {page, to} = {"chat", "knowledge"}
  /\ user \in Admins /\ Acts
  /\ page' = to
  /\ UNCHANGED <<token, user, stored, auth, owner, alive, late, crossed>>

(* The page is loaded again, at the same address: the stores start empty,   *)
(* with the token of sessionStorage, and the guard asks for its user.       *)
Reload ==
  LET to == IF page = "knowledge" THEN page ELSE "chat" IN
  /\ page # "blank" /\ Acts
  /\ token' = stored /\ user' = NoUser
  /\ IF stored = NoToken THEN page' = "login" /\ auth' = {}
     ELSE page' = "blank" /\ auth' = {Me(stored, "guard", to)}
  /\ late' = FALSE /\ crossed' = FALSE
  /\ UNCHANGED <<stored, owner, alive>>

(* A token expires, or its user is deactivated.                             *)
Expires(t) ==
  /\ t \in alive /\ Acts
  /\ alive' = alive \ {t}
  /\ UNCHANGED <<token, user, stored, page, auth, owner, late, crossed>>

-----------------------------------------------------------------------------
SessionStep ==
  \/ \E u \in Users : SubmitLogin(u)
  \/ \E r \in auth :
       \/ LoginAnswered(r) \/ MeAnswered(r)
       \/ \E status \in {"unauthorized", "lost"} : LoginFails(r, status) \/ MeFails(r, status)
  \/ Logout
  \/ \E to \in Pages : Navigate(to)
  \/ \E t \in alive : Expires(t)

-----------------------------------------------------------------------------
(* Properties *)

(* The page shows the user whose token it sends, unless two logins of the   *)
(* page overlapped, or a login and a guard: the answer for the first may    *)
(* come last, and the user of a session that was given up after that.       *)
UserIsOwner ==
  user # NoUser /\ token # NoToken /\ ~crossed => user = owner[token]

(* A page that is signed in without a token to send has lost it because the *)
(* server did not accept it any more, or to the late 401 of an earlier one. *)
(* It stays so: the login page is out of reach until one logs out.          *)
TokenLostOnlyLate ==
  token # NoToken /\ stored = NoToken => token \notin alive \/ late
=============================================================================
