---------------------------- MODULE FrontEndProofs ----------------------------
(***************************************************************************)
(* Proofs about FrontEnd for every set of users, and every number of       *)
(* logins, clicks, conversations, turns, bases and documents.              *)
(***************************************************************************)
EXTENDS FrontEnd, SequenceTheorems, TLAPS

-----------------------------------------------------------------------------
(* What the other components can do to the session.                         *)

Still == UNCHANGED <<token, user, stored, page, auth, owner, alive, late, crossed>>

(* A call of a page fails; a 401 is about a token that is not accepted.     *)
CallEnds ==
  \E status, t : Failed(status, t, auth) /\ (status = "unauthorized" => t \notin alive)

Moves == SessionStep \/ Reload \/ Still \/ CallEnds

KnownTokens == DOMAIN owner \cup {NoToken}

(* The requests of the session: logins, and /auth/me with a token that was  *)
(* accepted then, or not.                                                   *)
IsLogin(r) == r \in Logins
IsMe(r) ==
  /\ r = [kind |-> "me", token |-> r.token, valid |-> r.valid, from |-> r.from, to |-> r.to]
  /\ r.from \in {"login", "guard"} /\ r.to \in {"chat", "knowledge"}
  /\ r.token \in KnownTokens
  /\ r.valid => r.token \in DOMAIN owner

SessionShape ==
  /\ owner \in Seq(Users) /\ alive \subseteq DOMAIN owner
  /\ token \in KnownTokens /\ stored \in {NoToken, token}
  /\ user \in Users \cup {NoUser} /\ page \in Pages
  /\ {late, crossed} \subseteq BOOLEAN
  /\ \A r \in auth : IsLogin(r) \/ IsMe(r)

(* As long as no two requests of the session overlapped there is at most    *)
(* one, and none while a user is shown; a page behind the guard has a user, *)
(* the login page has none, and an answer will be about the page's token.   *)
OneAtATime ==
  ~crossed =>
    /\ \A r, s \in auth : r = s
    /\ user # NoUser => auth = {} /\ token # NoToken /\ user = owner[token]
    /\ page \in {"chat", "knowledge"} => user # NoUser
    /\ page = "login" => user = NoUser
    /\ \A r \in auth : r.kind = "me" /\ r.valid => r.token = token

SessionInv == SessionShape /\ OneAtATime /\ TokenLostOnlyLate

(* Tokens keep their users, and are never accepted again.                   *)
OwnersStay ==
  /\ Len(owner) <= Len(owner') /\ \A k \in DOMAIN owner : k \in DOMAIN owner' /\ owner'[k] = owner[k]
  /\ \A k \in KnownTokens : k \in alive' => k \in alive

LEMMA MeIsMe ==
  ASSUME NEW t \in KnownTokens, NEW from \in {"login", "guard"}, NEW to \in {"chat", "knowledge"},
         SessionShape
  PROVE  /\ IsMe(Me(t, from, to)) /\ Me(t, from, to).token = t /\ Me(t, from, to).kind = "me"
         /\ Me(t, from, to).valid => t \in alive
<1> DEFINE r == Me(t, from, to)
<1>1. r.kind = "me" /\ r.token = t /\ r.from = from /\ r.to = to
  BY DEF Me
<1>2. r.valid = (t \in alive)
  BY DEF Me
<1>3. r = [kind |-> "me", token |-> r.token, valid |-> r.valid, from |-> r.from, to |-> r.to]
  BY DEF Me
<1> HIDE DEF r
<1>4. r.valid => t \in alive
  BY <1>2
<1>5. t \in alive => t \in DOMAIN owner
  BY DEF SessionShape
<1> QED
  BY <1>1, <1>3, <1>4, <1>5 DEF IsMe, r

LEMMA SessionInitially == ASSUME SessionAssumption, SessionInit PROVE SessionInv
<1> USE DEF NoToken
<1>1. CASE /\ owner = <<>> /\ alive = {}
           /\ token = NoToken /\ page = "login" /\ auth = {}
  <2>1. owner \in Seq(Users) /\ DOMAIN owner = {}
    BY <1>1
  <2>2. SessionShape
    BY <1>1, <2>1 DEF SessionInit, SessionShape, KnownTokens, Pages
  <2> QED
    BY <1>1, <2>2 DEF SessionInit, SessionInv, OneAtATime, TokenLostOnlyLate
<1>2. CASE /\ owner \in [{1} -> Users] /\ alive = {1}
           /\ token = 1 /\ page = "blank" /\ auth = {Me(1, "guard", "chat")}
  <2>1. owner \in Seq(Users) /\ DOMAIN owner = {1}
    <3>1. {1} = 1..1
      OBVIOUS
    <3> QED
      BY <1>2, <3>1, SeqDef
  <2>3. IsMe(Me(1, "guard", "chat")) /\ Me(1, "guard", "chat").token = 1
    <3> DEFINE r == Me(1, "guard", "chat")
    <3>1. r = [kind |-> "me", token |-> 1, valid |-> r.valid, from |-> "guard", to |-> "chat"]
      BY DEF Me
    <3> HIDE DEF r
    <3>2. IsMe(r) /\ r.token = 1
      BY <2>1, <3>1 DEF IsMe, KnownTokens
    <3> QED
      BY <3>2 DEF r
  <2>4. SessionShape
    BY <1>2, <2>1, <2>3 DEF SessionInit, SessionShape, KnownTokens, Pages
  <2>5. OneAtATime
    BY <1>2, <2>3 DEF SessionInit, OneAtATime
  <2> QED
    BY <1>2, <2>4, <2>5 DEF SessionInit, SessionInv, TokenLostOnlyLate
<1> QED
  BY <1>1, <1>2 DEF SessionInit

(* The requests that remain are still what they were.                       *)
LEMMA RequestsRemain ==
  ASSUME SessionShape, UNCHANGED owner, NEW rest, rest \subseteq auth
  PROVE  \A r \in rest : (IsLogin(r) \/ IsMe(r))'
BY DEF SessionShape, IsLogin, IsMe, KnownTokens

LEMMA FailureKeepsSession ==
  ASSUME SessionAssumption, SessionInv,
         NEW status, NEW t, NEW rest, rest \subseteq auth, ~crossed => rest = {} \/ rest = auth,
         status = "unauthorized" => t \notin alive,
         Failed(status, t, rest)
  PROVE  SessionInv' /\ OwnersStay
<1> USE DEF NoToken
<1>1. UNCHANGED <<token, user, owner, alive>>
  BY DEF Failed
<1>2. \A r \in rest : (IsLogin(r) \/ IsMe(r))'
  BY <1>1, RequestsRemain DEF SessionInv
<1>3. CASE ~ClearsSession(status)
  <2>1. auth' = rest /\ UNCHANGED <<stored, late, page, crossed>>
    BY <1>3 DEF Failed
  <2>2. SessionShape'
    BY <1>1, <1>2, <2>1 DEF SessionInv, SessionShape, KnownTokens
  <2>3. OneAtATime'
    BY <1>1, <2>1 DEF SessionInv, OneAtATime
  <2> QED
    BY <1>1, <2>1, <2>2, <2>3 DEF SessionInv, TokenLostOnlyLate, OwnersStay, SessionShape
<1>4. CASE ClearsSession(status)
  <2>1. /\ stored' = NoToken /\ late' = (late \/ stored \notin {NoToken, t})
        /\ AskForLogin(rest) /\ t \notin alive
    BY <1>4 DEF Failed, ClearsSession
  <2>2. TokenLostOnlyLate'
    BY <1>1, <2>1 DEF SessionInv, SessionShape, TokenLostOnlyLate
  <2>3. CASE /\ token = NoToken \/ user # NoUser
             /\ page' = IF token = NoToken THEN "login" ELSE "chat"
             /\ auth' = rest /\ UNCHANGED crossed
    <3>1. SessionShape'
      BY <1>1, <1>2, <2>1, <2>3 DEF SessionInv, SessionShape, KnownTokens, Pages
    <3>2. OneAtATime'
      BY <1>1, <2>1, <2>3 DEF SessionInv, OneAtATime
    <3> QED
      BY <1>1, <2>2, <3>1, <3>2 DEF SessionInv, OwnersStay, SessionShape
  <2>4. CASE /\ token # NoToken /\ user = NoUser
             /\ Asks(Me(NoToken, "guard", "chat"), rest)
             /\ UNCHANGED page
    <3> PICK r : r = Me(NoToken, "guard", "chat")
      OBVIOUS
    <3>1. NoToken \notin alive
      BY DEF SessionInv, SessionShape
    <3>2. IsMe(r) /\ ~r.valid
      BY <3>1, MeIsMe DEF SessionInv, KnownTokens
    <3>3. IsMe(r)'
      BY <1>1, <3>2 DEF IsMe, KnownTokens
    <3>4. auth' = rest \cup {r} /\ crossed' = (crossed \/ rest # {})
      BY <2>4 DEF Asks
    <3>5. SessionShape'
      BY <1>1, <1>2, <2>1, <2>4, <3>3, <3>4 DEF SessionInv, SessionShape, KnownTokens
    <3>6. OneAtATime'
      BY <1>1, <2>1, <2>4, <3>2, <3>4 DEF SessionInv, OneAtATime
    <3> QED
      BY <1>1, <2>2, <3>5, <3>6 DEF SessionInv, OwnersStay, SessionShape
  <2> QED
    BY <2>1, <2>3, <2>4 DEF AskForLogin
<1> QED
  BY <1>3, <1>4

-----------------------------------------------------------------------------
(* The session's own steps.                                                 *)

LEMMA LoginKeepsSession ==
  ASSUME SessionAssumption, SessionInv, NEW r \in auth, LoginAnswered(r)
  PROVE  SessionInv' /\ OwnersStay
<1> USE DEF NoToken
<1> PICK new : new = Len(owner) + 1
  OBVIOUS
<1>1. /\ owner \in Seq(Users) /\ DOMAIN owner = 1..Len(owner) /\ Len(owner) \in Nat
      /\ new \in Nat \ {0} /\ alive \subseteq DOMAIN owner
  BY DEF SessionInv, SessionShape
<1>2. r \in Logins
  BY DEF SessionInv, SessionShape, LoginAnswered, IsMe, IsLogin
<1>3. /\ owner' = Append(owner, r.as) /\ r.as \in Users
      /\ alive' = alive \cup {new} /\ token' = new /\ stored' = new /\ late' = FALSE
      /\ UNCHANGED <<user, page, crossed>>
  BY <1>2 DEF LoginAnswered, Logins
<1>4. /\ owner' \in Seq(Users) /\ DOMAIN owner' = 1..new /\ Len(owner') = new
      /\ \A k \in DOMAIN owner : owner'[k] = owner[k]
  BY <1>1, <1>3
<1>5. OwnersStay
  BY <1>1, <1>3, <1>4 DEF OwnersStay, KnownTokens
<1> PICK m : m = [Me(new, "login", "chat") EXCEPT !.valid = TRUE]
  OBVIOUS
<1>6. m = [kind |-> "me", token |-> new, valid |-> m.valid, from |-> "login", to |-> "chat"]
  BY DEF Me
<1>7. auth' = (auth \ {r}) \cup {m}
  BY DEF LoginAnswered
<1>8. IsMe(m)'
  <2>1. m.token = new /\ m.from = "login" /\ m.to = "chat"
    BY <1>6
  <2>2. m = [kind |-> "me", token |-> m.token, valid |-> m.valid, from |-> m.from, to |-> m.to]
    BY <1>6
  <2>3. new \in DOMAIN owner'
    BY <1>1, <1>4
  <2> QED
    BY <2>1, <2>2, <2>3 DEF IsMe, KnownTokens
<1>9. \A q \in auth : (IsLogin(q) \/ IsMe(q))'
  BY <1>1, <1>4 DEF SessionInv, SessionShape, IsLogin, IsMe, KnownTokens
<1>10. SessionShape'
  <2>1. alive' \subseteq DOMAIN owner' /\ token' \in KnownTokens' /\ stored' \in {NoToken, token'}
    BY <1>1, <1>3, <1>4 DEF KnownTokens
  <2>2. user' \in Users \cup {NoUser} /\ page' \in Pages /\ {late', crossed'} \subseteq BOOLEAN
    BY <1>3 DEF SessionInv, SessionShape
  <2> QED
    BY <1>4, <1>7, <1>8, <1>9, <2>1, <2>2 DEF SessionShape
<1>11. OneAtATime'
  <2> SUFFICES ASSUME ~crossed
               PROVE  /\ \A q, s \in auth' : q = s
                      /\ user' = NoUser /\ page' \notin {"chat", "knowledge"}
                      /\ \A q \in auth' : q.kind = "me" /\ q.valid => q.token = token'
    BY <1>3 DEF OneAtATime
  <2>1. auth = {r} /\ user = NoUser /\ page \notin {"chat", "knowledge"}
    BY DEF SessionInv, OneAtATime
  <2>2. auth' = {m} /\ m.token = token'
    BY <1>3, <1>6, <1>7, <2>1
  <2> QED
    BY <1>3, <2>1, <2>2
<1>12. TokenLostOnlyLate'
  BY <1>1, <1>3 DEF TokenLostOnlyLate
<1> QED
  BY <1>5, <1>10, <1>11, <1>12 DEF SessionInv

LEMMA MeKeepsSession ==
  ASSUME SessionAssumption, SessionInv, NEW r \in auth, MeAnswered(r)
  PROVE  SessionInv' /\ OwnersStay
<1> USE DEF NoToken
<1>1. /\ r.kind = "me" /\ r.valid
      /\ user' = owner[r.token] /\ auth' = auth \ {r}
      /\ page' = IF r.from = "login" /\ token = NoToken THEN "login"
                 ELSE Admitted(owner[r.token], r.to)
      /\ UNCHANGED <<token, stored, owner, alive, late, crossed>>
  BY DEF MeAnswered
<1>2. IsMe(r)
  BY <1>1 DEF SessionInv, SessionShape, IsLogin, Logins
<1>3. r.token \in DOMAIN owner /\ owner[r.token] \in Users /\ DOMAIN owner = 1..Len(owner)
  BY <1>1, <1>2 DEF IsMe, SessionInv, SessionShape
<1>4. Admitted(owner[r.token], r.to) \in {"chat", "knowledge"}
  BY <1>2 DEF IsMe, Admitted
<1>5. \A q \in auth' : (IsLogin(q) \/ IsMe(q))'
  BY <1>1, RequestsRemain DEF SessionInv
<1>6. SessionShape'
  BY <1>1, <1>3, <1>4, <1>5 DEF SessionInv, SessionShape, KnownTokens, Pages
<1>7. OneAtATime'
  <2> SUFFICES ASSUME ~crossed
               PROVE  /\ auth' = {} /\ user' # NoUser /\ token' # NoToken
                      /\ user' = owner'[token'] /\ page' # "login"
    BY <1>1 DEF OneAtATime
  <2>1. auth = {r} /\ r.token = token
    BY <1>1 DEF SessionInv, OneAtATime
  <2> QED
    BY <1>1, <1>3, <1>4, <2>1 DEF SessionAssumption
<1> QED
  BY <1>1, <1>6, <1>7 DEF SessionInv, TokenLostOnlyLate, OwnersStay

(* Signing out leaves no token and no user; "rest" are the requests left.   *)
LEMMA SigningOutKeepsSession ==
  ASSUME SessionAssumption, SessionInv, SignedOut, NEW rest, rest \subseteq auth, auth' = rest,
         ~crossed => rest = {}, UNCHANGED <<owner, alive, crossed>>
  PROVE  SessionInv' /\ OwnersStay
<1>1. \A q \in auth' : (IsLogin(q) \/ IsMe(q))'
  BY RequestsRemain DEF SessionInv
<1>2. /\ token' = NoToken /\ stored' = NoToken /\ user' = NoUser
      /\ page' = "login" /\ late' = FALSE
  BY DEF SignedOut
<1>3. SessionShape'
  BY <1>1, <1>2 DEF SessionInv, SessionShape, KnownTokens, Pages
<1>4. OneAtATime'
  BY <1>2 DEF SessionInv, OneAtATime
<1> QED
  BY <1>2, <1>3, <1>4 DEF SessionInv, TokenLostOnlyLate, OwnersStay, SessionShape

LEMMA SessionStepKeepsSession ==
  ASSUME SessionAssumption, SessionInv, SessionStep
  PROVE  SessionInv' /\ OwnersStay
<1> USE DEF NoToken
<1>1. ASSUME NEW u \in Users, SubmitLogin(u)
      PROVE  SessionInv' /\ OwnersStay
  <2> PICK r : r = [kind |-> "login", as |-> u]
    OBVIOUS
  <2>1. /\ page = "login" /\ auth' = auth \cup {r} /\ crossed' = (crossed \/ auth # {})
        /\ UNCHANGED <<token, user, stored, page, owner, alive, late>>
    BY <1>1 DEF SubmitLogin, Asks
  <2>2. IsLogin(r)' /\ r.kind = "login"
    BY DEF IsLogin, Logins
  <2>3. \A q \in auth : (IsLogin(q) \/ IsMe(q))'
    BY <2>1, RequestsRemain DEF SessionInv
  <2>4. SessionShape'
    BY <2>1, <2>2, <2>3 DEF SessionInv, SessionShape, KnownTokens
  <2>5. OneAtATime'
    BY <2>1, <2>2 DEF SessionInv, OneAtATime
  <2> QED
    BY <2>1, <2>4, <2>5 DEF SessionInv, TokenLostOnlyLate, OwnersStay, SessionShape
<1>2. ASSUME NEW r \in auth, LoginAnswered(r)
      PROVE  SessionInv' /\ OwnersStay
  BY <1>2, LoginKeepsSession
<1>3. ASSUME NEW r \in auth, MeAnswered(r)
      PROVE  SessionInv' /\ OwnersStay
  BY <1>3, MeKeepsSession
<1>4. ASSUME NEW r \in auth, NEW status \in {"unauthorized", "lost"}, LoginFails(r, status)
      PROVE  SessionInv' /\ OwnersStay
  <2>1. Failed(status, NoToken, auth \ {r})
    BY <1>4 DEF LoginFails
  <2>2. NoToken \notin alive
    BY DEF SessionInv, SessionShape
  <2>3. ~crossed => auth \ {r} = {}
    BY DEF SessionInv, OneAtATime
  <2> QED
    BY <2>1, <2>2, <2>3, FailureKeepsSession
<1>5. ASSUME NEW r \in auth, NEW status \in {"unauthorized", "lost"}, MeFails(r, status)
      PROVE  SessionInv' /\ OwnersStay
  <2>1. ~crossed => auth \ {r} = {}
    BY DEF SessionInv, OneAtATime
  <2>2. CASE Failed(status, r.token, auth \ {r})
    BY <1>5, <2>1, <2>2, FailureKeepsSession DEF MeFails
  <2>3. CASE SignedOut /\ auth' = auth \ {r} /\ UNCHANGED <<owner, alive, crossed>>
    BY <2>1, <2>3, SigningOutKeepsSession
  <2> QED
    BY <1>5, <2>2, <2>3 DEF MeFails
<1>6. ASSUME Logout
      PROVE  SessionInv' /\ OwnersStay
  <2>1. ~crossed => auth = {}
    BY <1>6 DEF Logout, SessionInv, OneAtATime
  <2> QED
    BY <1>6, <2>1, SigningOutKeepsSession DEF Logout
<1>7. ASSUME NEW to \in Pages, Navigate(to)
      PROVE  SessionInv' /\ OwnersStay
  <2>1. /\ page \in {"chat", "knowledge"} /\ page' \in {"chat", "knowledge"}
        /\ user \in Admins
        /\ UNCHANGED <<token, user, stored, auth, owner, alive, late, crossed>>
    BY <1>7 DEF Navigate
  <2>2. \A q \in auth' : (IsLogin(q) \/ IsMe(q))'
    BY <2>1, RequestsRemain DEF SessionInv
  <2>3. SessionShape'
    BY <2>1, <2>2 DEF SessionInv, SessionShape, KnownTokens, Pages
  <2>4. OneAtATime'
    BY <2>1 DEF SessionInv, OneAtATime
  <2> QED
    BY <2>1, <2>3, <2>4 DEF SessionInv, TokenLostOnlyLate, OwnersStay, SessionShape
<1>8. ASSUME NEW t \in alive, Expires(t)
      PROVE  SessionInv' /\ OwnersStay
  <2>1. /\ alive' = alive \ {t}
        /\ UNCHANGED <<token, user, stored, page, auth, owner, late, crossed>>
    BY <1>8 DEF Expires
  <2>2. \A q \in auth' : (IsLogin(q) \/ IsMe(q))'
    BY <2>1, RequestsRemain DEF SessionInv
  <2>3. SessionShape'
    BY <2>1, <2>2 DEF SessionInv, SessionShape, KnownTokens
  <2>4. OneAtATime'
    BY <2>1 DEF SessionInv, OneAtATime
  <2> QED
    BY <2>1, <2>3, <2>4 DEF SessionInv, TokenLostOnlyLate, OwnersStay, SessionShape
<1> QED
  BY <1>1, <1>2, <1>3, <1>4, <1>5, <1>6, <1>7, <1>8 DEF SessionStep

LEMMA ReloadKeepsSession ==
  ASSUME SessionAssumption, SessionInv, Reload
  PROVE  SessionInv' /\ OwnersStay
<1> USE DEF NoToken
<1> PICK to : to = IF page = "knowledge" THEN page ELSE "chat"
  OBVIOUS
<1> PICK m : m = Me(stored, "guard", to)
  OBVIOUS
<1>1. /\ token' = stored /\ user' = NoUser /\ late' = FALSE /\ crossed' = FALSE
      /\ UNCHANGED <<stored, owner, alive>>
      /\ IF stored = NoToken THEN page' = "login" /\ auth' = {} ELSE page' = "blank" /\ auth' = {m}
  BY DEF Reload
<1>2. stored \in KnownTokens /\ to \in {"chat", "knowledge"}
  BY DEF SessionInv, SessionShape, KnownTokens
<1>3. IsMe(m) /\ m.token = stored
  BY <1>2, MeIsMe DEF SessionInv
<1>4. IsMe(m)'
  BY <1>1, <1>3 DEF IsMe, KnownTokens
<1>5. SessionShape'
  BY <1>1, <1>2, <1>4 DEF SessionInv, SessionShape, KnownTokens, Pages
<1>6. OneAtATime'
  BY <1>1, <1>3 DEF OneAtATime
<1> QED
  BY <1>1, <1>5, <1>6 DEF SessionInv, TokenLostOnlyLate, OwnersStay, SessionShape

LEMMA MovesKeepSession ==
  ASSUME SessionAssumption, SessionInv, Moves
  PROVE  SessionInv' /\ OwnersStay
<1>1. CASE Still
  <2>1. \A q \in auth' : (IsLogin(q) \/ IsMe(q))'
    BY <1>1, RequestsRemain DEF SessionInv, Still
  <2>2. SessionShape'
    BY <1>1, <2>1 DEF SessionInv, SessionShape, KnownTokens, Still
  <2> QED
    BY <1>1, <2>2 DEF SessionInv, SessionShape, OneAtATime, TokenLostOnlyLate, OwnersStay, Still
<1>2. CASE CallEnds
  BY <1>2, FailureKeepsSession DEF CallEnds
<1> QED
  BY <1>1, <1>2, SessionStepKeepsSession, ReloadKeepsSession DEF Moves

-----------------------------------------------------------------------------
Kinds == {"bases", "documents", "poll", "create", "edit", "upload", "deleteFile", "deleteBase"}
Continuations == {"end", "bases", "bases>poll", "select", "poll", "deleted", "timer"}

(* The calls of the pages.  One that was answered 401 had a token that is   *)
(* not accepted, and so it is when its answer arrives.                      *)

CallShape(r) ==
  r = [kind |-> r.kind, conv |-> r.conv, token |-> r.token, status |-> r.status,
       messages |-> r.messages]
ChainShape(r) ==
  /\ r = [kind |-> r.kind, base |-> r.base, arg |-> r.arg, then |-> r.then,
          token |-> r.token, status |-> r.status]
  /\ r.kind \in Kinds /\ r.then \in Continuations

Sound(r) == r.token \in KnownTokens /\ (r.status = "unauthorized" => r.token \notin alive)

CallsInv ==
  /\ \A r \in calls : CallShape(r) /\ Sound(r)
  /\ \A r \in chains : ChainShape(r) /\ Sound(r)

LEMMA SoundStays ==
  ASSUME OwnersStay, NEW r, Sound(r)
  PROVE  Sound(r)'
BY DEF OwnersStay, Sound, KnownTokens

(* A call that has just been sent carries the token of sessionStorage.      *)
LEMMA SentIsSound ==
  ASSUME SessionShape, SessionShape', OwnersStay, NEW r, r.status = "sent",
         r.token = stored \/ r.token = stored'
  PROVE  Sound(r)'
<1>1. r.token \in KnownTokens'
  <2>1. stored \in KnownTokens /\ stored' \in KnownTokens'
    BY DEF SessionShape, KnownTokens
  <2> QED
    BY <2>1 DEF OwnersStay, KnownTokens
<1> QED
  BY <1>1 DEF Sound

LEMMA AnsweredIsSound ==
  ASSUME NEW r, CallShape(r), Sound(r)
  PROVE  CallShape(Answer(r)) /\ Sound(Answer(r)) /\ Answer(r).conv = r.conv
<1>1. CASE r.token \notin alive
  <2>1. Answer(r) = [r EXCEPT !.status = "unauthorized"]
    BY <1>1 DEF Answer
  <2>2. Answer(r) = [kind |-> r.kind, conv |-> r.conv, token |-> r.token,
                     status |-> "unauthorized", messages |-> r.messages]
    BY <2>1 DEF CallShape
  <2> QED
    BY <1>1, <2>2 DEF CallShape, Sound
<1>2. CASE r.token \in alive
  <2>1. \E s \in {"refused", "ok"} : \E m :
          Answer(r) = [kind |-> r.kind, conv |-> r.conv, token |-> r.token,
                       status |-> s, messages |-> m]
    <3>1. CASE ~MayUse(r.token, r.conv)
      <4>1. Answer(r) = [r EXCEPT !.status = "refused"]
        BY <1>2, <3>1 DEF Answer
      <4> QED
        BY <4>1 DEF CallShape
    <3>2. CASE MayUse(r.token, r.conv)
      <4> DEFINE m == IF r.kind = "open" THEN Loaded(r.conv) ELSE <<>>
      <4>1. Answer(r) = [r EXCEPT !.status = "ok", !.messages = m]
        BY <1>2, <3>2 DEF Answer
      <4> HIDE DEF m
      <4>2. Answer(r) = [kind |-> r.kind, conv |-> r.conv, token |-> r.token,
                         status |-> "ok", messages |-> m]
        BY <4>1 DEF CallShape
      <4> QED
        BY <4>2
    <3> QED
      BY <3>1, <3>2
  <2>2. PICK s \in {"refused", "ok"} : \E m :
          Answer(r) = [kind |-> r.kind, conv |-> r.conv, token |-> r.token,
                       status |-> s, messages |-> m]
    BY <2>1
  <2>3. PICK m : Answer(r) = [kind |-> r.kind, conv |-> r.conv, token |-> r.token,
                              status |-> s, messages |-> m]
    BY <2>2
  <2> QED
    BY <2>3 DEF CallShape, Sound
<1> QED
  BY <1>1, <1>2

(* The calls there are after a step of the session or a page.               *)
NewCall(r) ==
  /\ CallShape(r) /\ r.status = "sent" /\ r.token \in {stored, stored'}
  /\ r.conv \in chat.list \cup {NoConv} /\ (r.kind = "list" \/ r.conv \in chat.list)
  /\ r.messages = <<>>
CallsGrow == \A r \in calls' : r \in calls \/ NewCall(r) \/ \E q \in calls : r = Answer(q)

LEMMA MountedCalls == \A r \in MountCalls : NewCall(r)
BY DEF MountCalls, ListCall, Call, NewCall, CallShape

LEMMA ChatCalls ==
  ASSUME CallsInv, ChatStep
  PROVE  CallsGrow /\ (Still \/ CallEnds)
<1>1. ASSUME NewConversation
      PROVE  CallsGrow /\ Still
  BY <1>1 DEF NewConversation, ActsOn, Still, CallsGrow
<1>2. ASSUME Send
      PROVE  CallsGrow /\ Still
  BY <1>2 DEF Send, ActsOn, Still, CallsGrow
<1>3. ASSUME NEW kind \in {"open", "delete"}, NEW c \in chat.list, Click(kind, c)
      PROVE  CallsGrow /\ Still
  <2>1. NewCall(Call(kind, c))
    BY DEF Call, NewCall, CallShape
  <2> QED
    BY <1>3, <2>1 DEF Click, ActsOn, Still, CallsGrow
<1>4. ASSUME NEW r \in calls, Serve(r)
      PROVE  CallsGrow /\ Still
  BY <1>4 DEF Serve, sessionVars, Still, CallsGrow
<1>5. ASSUME NEW r \in calls, Opened(r) \/ ListArrives(r)
      PROVE  CallsGrow /\ Still
  BY <1>5 DEF Opened, ListArrives, sessionVars, Still, CallsGrow
<1>6. ASSUME NEW r \in calls, Removed(r)
      PROVE  CallsGrow /\ Still
  <2>1. NewCall(ListCall)
    BY DEF ListCall, Call, NewCall, CallShape
  <2> QED
    BY <1>6, <2>1 DEF Removed, sessionVars, Still, CallsGrow
<1>7. ASSUME NEW r \in calls, CallFails(r)
      PROVE  CallsGrow /\ CallEnds
  <2> PICK status : status = IF r.kind = "list" /\ r.token \notin alive THEN "unauthorized"
                             ELSE IF r.status \in {"sent", "ok"} THEN "lost" ELSE r.status
    OBVIOUS
  <2>1. Failed(status, r.token, auth) /\ calls' = (calls \ {r}) \cup MountCalls
    BY <1>7 DEF CallFails
  <2>2. status = "unauthorized" => r.token \notin alive
    BY DEF CallsInv, Sound
  <2>3. CallsGrow
    BY <2>1, MountedCalls DEF CallsGrow
  <2> QED
    BY <2>1, <2>2, <2>3 DEF CallEnds
<1>8. ASSUME NEW t \in DOMAIN turns, Bind(t) \/ StoreQuestion(t) \/ StoreAnswer(t)
      PROVE  CallsGrow /\ Still
  BY <1>8 DEF Bind, StoreQuestion, StoreAnswer, Store, sessionVars, Still, CallsGrow
<1>9. ASSUME MetadataArrives \/ AnswerArrives \/ TurnListed
      PROVE  CallsGrow /\ Still
  BY <1>9 DEF MetadataArrives, AnswerArrives, TurnListed, sessionVars, Still, CallsGrow
<1>10. ASSUME StreamFails
       PROVE  CallsGrow /\ (Still \/ CallEnds)
  <2>1. CASE UNCHANGED <<sessionVars, calls>>
    BY <2>1 DEF sessionVars, Still, CallsGrow
  <2>2. CASE /\ stored \notin alive /\ Failed("unauthorized", stored, auth)
             /\ calls' = calls \cup MountCalls
    BY <2>2, MountedCalls DEF CallEnds, CallsGrow
  <2> QED
    BY <1>10, <2>1, <2>2 DEF StreamFails
<1> QED
  BY <1>1, <1>2, <1>3, <1>4, <1>5, <1>6, <1>7, <1>8, <1>9, <1>10 DEF ChatStep

(* The same of the calls of the page of the knowledge bases: a chain makes  *)
(* its next call with the token of that moment.                             *)
NewChain(r) == ChainShape(r) /\ r.status = "sent" /\ r.token \in {stored, stored'}
ChainsGrow == \A r \in chains' : r \in chains \/ NewChain(r) \/ \E q \in chains : r = Reply(q)

LEMMA RepliedIsSound ==
  ASSUME NEW r, ChainShape(r), Sound(r)
  PROVE  ChainShape(Reply(r)) /\ Sound(Reply(r)) /\ Reply(r).token = r.token
<1>1. CASE r.token \notin alive
  <2>1. Reply(r) = [r EXCEPT !.status = "unauthorized"]
    BY <1>1 DEF Reply
  <2>2. Reply(r) = [kind |-> r.kind, base |-> r.base, arg |-> r.arg, then |-> r.then,
                    token |-> r.token, status |-> "unauthorized"]
    BY <2>1 DEF ChainShape
  <2> QED
    BY <1>1, <2>2 DEF ChainShape, Sound
<1>2. CASE r.token \in alive
  <2>1. \E s \in {"refused", "ok"} : \E a :
          Reply(r) = [kind |-> r.kind, base |-> r.base, arg |-> a, then |-> r.then,
                      token |-> r.token, status |-> s]
    <3>1. CASE owner[r.token] \notin Admins \/ ~Found(r)
      <4>1. Reply(r) = [r EXCEPT !.status = "refused"]
        BY <1>2, <3>1 DEF Reply
      <4> QED
        BY <4>1 DEF ChainShape
    <3>2. CASE ~(owner[r.token] \notin Admins \/ ~Found(r))
      <4> DEFINE a == CASE r.kind = "create" -> made + 1
                        [] r.kind = "upload" -> Len(docs) + 1
                        [] OTHER -> r.arg
      <4>1. Reply(r) = [r EXCEPT !.status = "ok", !.arg = a]
        BY <1>2, <3>2 DEF Reply
      <4> HIDE DEF a
      <4>2. Reply(r) = [kind |-> r.kind, base |-> r.base, arg |-> a, then |-> r.then,
                        token |-> r.token, status |-> "ok"]
        BY <4>1 DEF ChainShape
      <4> QED
        BY <4>2
    <3> QED
      BY <3>1, <3>2
  <2>2. PICK s \in {"refused", "ok"} : \E a :
          Reply(r) = [kind |-> r.kind, base |-> r.base, arg |-> a, then |-> r.then,
                      token |-> r.token, status |-> s]
    BY <2>1
  <2>3. PICK a : Reply(r) = [kind |-> r.kind, base |-> r.base, arg |-> a, then |-> r.then,
                             token |-> r.token, status |-> s]
    BY <2>2
  <2> QED
    BY <2>3 DEF ChainShape, Sound
<1> QED
  BY <1>1, <1>2

LEMMA RequestIsNew ==
  ASSUME NEW kind \in Kinds, NEW base, NEW arg, NEW then \in Continuations
  PROVE  NewChain(Request(kind, base, arg, then))
BY DEF Request, NewChain, ChainShape, Kinds, Continuations

LEMMA AfterCalls ==
  ASSUME NEW v, NEW then \in Continuations, NEW arg
  PROVE  \A q \in After(v, then, arg).calls : NewChain(q)
<1>1. CASE then = "end"
  BY <1>1 DEF After, Then
<1>2. CASE then = "bases"
  BY <1>2, RequestIsNew DEF After, Then, Kinds, Continuations
<1>3. CASE then = "bases>poll"
  BY <1>3, RequestIsNew DEF After, Then, Kinds, Continuations
<1>4. CASE then = "select"
  BY <1>4, RequestIsNew DEF After, Then, Kinds, Continuations
<1>5. CASE then = "poll"
  BY <1>5 DEF After, Then
<1>6. CASE then = "deleted"
  BY <1>6 DEF After, Then
<1>7. CASE then = "timer"
  BY <1>7 DEF After, Then
<1> QED
  BY <1>1, <1>2, <1>3, <1>4, <1>5, <1>6, <1>7 DEF Continuations

LEMMA OutcomeCalls ==
  ASSUME NEW r, ChainShape(r)
  PROVE  \A q \in Outcome(r).calls : NewChain(q)
<1>1. r.then \in Continuations
  BY DEF ChainShape, Continuations
<1>2. CASE r.kind = "documents"
  BY <1>1, <1>2, AfterCalls DEF Outcome
<1>3. CASE r.kind = "poll"
  <2>1. Outcome(r) = Polled(r)
    BY <1>3 DEF Outcome
  <2>2. \A q \in Polled(r).calls : NewChain(q)
    BY RequestIsNew DEF Polled, Then, Kinds, Continuations
  <2> QED
    BY <2>1, <2>2
<1>4. CASE r.kind = "bases"
  <2>1. Outcome(r) = BasesLoaded(r)
    BY <1>4 DEF Outcome
  <2>2. \A q \in BasesLoaded(r).calls : NewChain(q)
    <3> DEFINE v == [view EXCEPT !.bases = bases]
    <3>1. CASE v.active = NoBase /\ bases # {}
      <4>1. BasesLoaded(r) = Then([v EXCEPT !.active = Min(bases)],
                                  {Request("documents", Min(bases), r.arg, r.then)})
        BY <3>1 DEF BasesLoaded
      <4> HIDE DEF v
      <4> QED
        BY <1>1, <4>1, RequestIsNew DEF Then, Kinds
    <3>2. CASE ~(v.active = NoBase /\ bases # {})
      <4>1. BasesLoaded(r) = After(v, r.then, r.arg)
        BY <3>2 DEF BasesLoaded
      <4> HIDE DEF v
      <4> QED
        BY <1>1, <4>1, AfterCalls
    <3> QED
      BY <3>1, <3>2
  <2> QED
    BY <2>1, <2>2
<1>5. CASE r.kind = "create"
  BY <1>5, RequestIsNew DEF Outcome, Then, Kinds, Continuations
<1>6. CASE r.kind = "edit"
  BY <1>6, RequestIsNew DEF Outcome, Then, Kinds, Continuations
<1>7. CASE r.kind = "upload"
  BY <1>7, RequestIsNew DEF Outcome, Then, Kinds, Continuations
<1>8. CASE r.kind = "deleteFile"
  <2>1. CASE view.active # NoBase
    BY <1>8, <2>1, RequestIsNew DEF Outcome, Then, Kinds, Continuations
  <2>2. CASE view.active = NoBase
    BY <1>8, <2>2, RequestIsNew DEF Outcome, Then, Kinds, Continuations
  <2> QED
    BY <2>1, <2>2
<1>9. CASE r.kind = "deleteBase"
  BY <1>9, RequestIsNew DEF Outcome, Then, Kinds, Continuations
<1> QED
  BY <1>2, <1>3, <1>4, <1>5, <1>6, <1>7, <1>8, <1>9 DEF ChainShape, Kinds

LEMMA KnowledgeChains ==
  ASSUME CallsInv, KnowledgeStep
  PROVE  ChainsGrow /\ (Still \/ CallEnds)
<1>1. ASSUME NEW kind \in Kinds, NEW base, NEW arg, Starts(kind, base, arg)
      PROVE  ChainsGrow /\ Still
  <2>1. NewChain(Request(kind, base, arg, "end"))
    BY RequestIsNew DEF Continuations
  <2> QED
    BY <1>1, <2>1 DEF Starts, ActsOn, Still, ChainsGrow
<1>2. ASSUME NEW b \in view.bases, ClickBase(b) \/ Rename(b) \/ DeleteBase(b)
      PROVE  ChainsGrow /\ Still
  BY <1>1, <1>2 DEF ClickBase, Rename, DeleteBase, Kinds
<1>3. ASSUME Create \/ Permit \/ Upload
      PROVE  ChainsGrow /\ Still
  BY <1>1, <1>3 DEF Create, Permit, Upload, Kinds
<1>4. ASSUME NEW d, DeleteFile(d)
      PROVE  ChainsGrow /\ Still
  BY <1>1, <1>4 DEF DeleteFile, Kinds
<1>5. ASSUME Tick
      PROVE  ChainsGrow /\ Still
  <2>1. NewChain(Request("poll", view.timer.base, view.timer.doc, "end"))
    BY RequestIsNew DEF Kinds, Continuations
  <2> QED
    BY <1>5, <2>1 DEF Tick, sessionVars, Still, ChainsGrow
<1>6. ASSUME NEW r \in chains, Handle(r)
      PROVE  ChainsGrow /\ Still
  BY <1>6 DEF Handle, sessionVars, Still, ChainsGrow
<1>7. ASSUME NEW r \in chains, Arrives(r)
      PROVE  ChainsGrow /\ Still
  <2>1. chains' = (chains \ {r}) \cup Outcome(r).calls /\ UNCHANGED sessionVars
    BY <1>7 DEF Arrives
  <2>2. \A q \in Outcome(r).calls : NewChain(q)
    BY OutcomeCalls DEF CallsInv
  <2> QED
    BY <2>1, <2>2 DEF sessionVars, Still, ChainsGrow
<1>8. ASSUME NEW r \in chains, ChainFails(r)
      PROVE  ChainsGrow /\ CallEnds
  <2> PICK status : status = IF Status(r) \in {"sent", "ok"} THEN "lost" ELSE Status(r)
    OBVIOUS
  <2>1. Failed(status, r.token, auth) /\ chains' = chains \ {r}
    BY <1>8 DEF ChainFails
  <2>2. status = "unauthorized" => r.token \notin alive
    <3>1. ChainShape(r) /\ Sound(r)
      BY DEF CallsInv
    <3>2. Sound(Reply(r)) /\ Reply(r).token = r.token
      BY <3>1, RepliedIsSound
    <3> QED
      BY <3>1, <3>2 DEF Sound, Status
  <2> QED
    BY <2>1, <2>2 DEF CallEnds, ChainsGrow
<1>9. ASSUME NEW d \in DOMAIN docs, Settle(d)
      PROVE  ChainsGrow /\ Still
  BY <1>9 DEF Settle, sessionVars, Still, ChainsGrow
<1> QED
  BY <1>2, <1>3, <1>4, <1>5, <1>6, <1>7, <1>8, <1>9 DEF KnowledgeStep

LEMMA ChatFollowsCalls ==
  ASSUME ChatFollows
  PROVE  CallsGrow
BY MountedCalls DEF ChatFollows, CallsGrow

LEMMA KnowledgeFollowsChains ==
  ASSUME KnowledgeFollows
  PROVE  ChainsGrow
<1>1. CASE chains' = {Request("bases", NoBase, 0, "end")'}
  <2>1. NewChain(Request("bases", NoBase, 0, "end")')
    BY DEF Request, NewChain, ChainShape, Kinds, Continuations
  <2> QED
    BY <1>1, <2>1 DEF ChainsGrow
<1>2. CASE UNCHANGED chains
  BY <1>2 DEF ChainsGrow
<1> QED
  BY <1>1, <1>2 DEF KnowledgeFollows

(* Every step is one of the moves of the session, and the calls under way   *)
(* after it were there, have just been sent or have just been answered.     *)
LEMMA NextMoves ==
  ASSUME CallsInv, Next
  PROVE  Moves /\ CallsGrow /\ ChainsGrow
<1>1. CASE SessionStep /\ ChatFollows /\ KnowledgeFollows
  BY <1>1, ChatFollowsCalls, KnowledgeFollowsChains DEF Moves
<1>2. CASE Reload /\ ChatLost /\ KnowledgeLost
  BY <1>2 DEF Moves, ChatLost, KnowledgeLost, CallsGrow, ChainsGrow
<1>3. CASE ChatStep /\ KnowledgeFollows
  BY <1>3, ChatCalls, KnowledgeFollowsChains DEF Moves
<1>4. CASE KnowledgeStep /\ ChatFollows
  BY <1>4, KnowledgeChains, ChatFollowsCalls DEF Moves
<1> QED
  BY <1>1, <1>2, <1>3, <1>4 DEF Next

LEMMA CallsKept ==
  ASSUME CallsInv, SessionShape, SessionShape', OwnersStay, CallsGrow, ChainsGrow
  PROVE  CallsInv'
<1>1. ASSUME NEW r \in calls'
      PROVE  CallShape(r)' /\ Sound(r)'
  <2>1. CASE r \in calls
    BY <2>1, SoundStays DEF CallsInv, CallShape
  <2>2. CASE NewCall(r)
    BY <2>2, SentIsSound DEF NewCall, CallShape
  <2>3. CASE \E q \in calls : r = Answer(q)
    <3>1. CallShape(r) /\ Sound(r)
      BY <2>3, AnsweredIsSound DEF CallsInv
    <3> QED
      BY <3>1, SoundStays DEF CallShape
  <2> QED
    BY <2>1, <2>2, <2>3 DEF CallsGrow
<1>2. ASSUME NEW r \in chains'
      PROVE  ChainShape(r)' /\ Sound(r)'
  <2>1. CASE r \in chains
    BY <2>1, SoundStays DEF CallsInv, ChainShape
  <2>2. CASE NewChain(r)
    BY <2>2, SentIsSound DEF NewChain, ChainShape
  <2>3. CASE \E q \in chains : r = Reply(q)
    <3>1. ChainShape(r) /\ Sound(r)
      BY <2>3, RepliedIsSound DEF CallsInv
    <3> QED
      BY <3>1, SoundStays DEF ChainShape
  <2> QED
    BY <2>1, <2>2, <2>3 DEF ChainsGrow
<1> QED
  BY <1>1, <1>2 DEF CallsInv

-----------------------------------------------------------------------------
(* The conversations of the server.                                         *)

TurnRecords == [token : Nat, asked : Nat, conv : Nat, pc : {"sent", "bound", "asked", "answered"}]
LogEntries == [turn : Nat, role : {"question", "answer"}]
ConvRecords == [owner : Users, exists : BOOLEAN, log : Seq(LogEntries)]

(* Conversations have numbers, wherever the tab keeps one.                  *)
ChatShape ==
  /\ chat = [list |-> chat.list, open |-> chat.open, messages |-> chat.messages,
             sending |-> chat.sending]
  /\ chat.list \subseteq Nat /\ chat.open \in Nat
  /\ \A r \in calls : r.conv \in Nat
  /\ turns \in Seq(TurnRecords) /\ convs \in Seq(ConvRecords)
  /\ stream = [turn |-> stream.turn, phase |-> stream.phase]
  /\ stream.phase = "waiting" => stream.turn \in DOMAIN turns

(* A turn that was taken up has a token that somebody owns, and only those  *)
(* have stored anything.                                                    *)
Begun(t) == t \in DOMAIN turns /\ turns[t].pc # "sent"
TurnsInv ==
  /\ \A t \in DOMAIN turns : Begun(t) => turns[t].token \in DOMAIN owner
  /\ \A c \in DOMAIN convs : \A i \in DOMAIN convs[c].log : Begun(convs[c].log[i].turn)
  /\ TurnsStayWithOwner

(* Steps that leave the server's tables alone.                              *)
LEMMA TablesUntouched ==
  ASSUME TurnsInv, OwnersStay, UNCHANGED server
  PROVE  TurnsInv'
<1>1. UNCHANGED <<turns, convs>>
  BY DEF server
<1>2. \A t : Begun(t)' <=> Begun(t)
  BY <1>1 DEF Begun
<1>3. \A t : Begun(t) => owner'[turns'[t].token] = owner[turns[t].token]
                         /\ turns'[t].token \in DOMAIN owner'
  BY <1>1 DEF TurnsInv, OwnersStay, Begun
<1> QED
  BY <1>1, <1>2, <1>3 DEF TurnsInv, TurnsStayWithOwner, Asker

(* The turns go on, and the entries of the conversations are those there    *)
(* were, or of a turn of the owner.                                         *)
EntriesKept ==
  \A c \in DOMAIN convs' : \A i \in DOMAIN convs'[c].log :
    \/ /\ c \in DOMAIN convs /\ i \in DOMAIN convs[c].log
       /\ convs'[c].log[i].turn = convs[c].log[i].turn /\ convs'[c].owner = convs[c].owner
    \/ LET t == convs'[c].log[i].turn
       IN Begun(t) /\ owner[turns[t].token] = convs'[c].owner
TurnsKept ==
  \A t \in DOMAIN turns :
    t \in DOMAIN turns' /\ turns'[t].token = turns[t].token /\ (Begun(t) => turns'[t].pc # "sent")

LEMMA EntriesStay ==
  ASSUME TurnsInv, UNCHANGED owner, TurnsKept, EntriesKept,
         \A t \in DOMAIN turns' : Begun(t)' => turns'[t].token \in DOMAIN owner
  PROVE  TurnsInv'
<1>1. \A t : Begun(t) => Begun(t)' /\ turns'[t].token = turns[t].token
  BY DEF TurnsKept, Begun
<1>2. ASSUME NEW c \in DOMAIN convs', NEW i \in DOMAIN convs'[c].log
      PROVE  /\ convs'[c].log[i].turn \in DOMAIN turns'
             /\ turns'[convs'[c].log[i].turn].pc # "sent"
             /\ owner[turns'[convs'[c].log[i].turn].token] = convs'[c].owner
  <2> PICK t : t = convs'[c].log[i].turn
    OBVIOUS
  <2>1. Begun(t) /\ owner[turns[t].token] = convs'[c].owner
    BY DEF EntriesKept, TurnsInv, TurnsStayWithOwner, Asker
  <2>2. t \in DOMAIN turns' /\ turns'[t].pc # "sent" /\ turns'[t].token = turns[t].token
    BY <1>1, <2>1 DEF Begun
  <2> QED
    BY <2>1, <2>2
<1>3. TurnsStayWithOwner'
  BY <1>2 DEF TurnsStayWithOwner, Asker
<1>4. (\A c \in DOMAIN convs : \A i \in DOMAIN convs[c].log : Begun(convs[c].log[i].turn))'
  BY <1>2 DEF Begun
<1>5. \A t \in DOMAIN turns' : Begun(t)' => turns'[t].token \in DOMAIN owner'
  OBVIOUS
<1> QED
  BY <1>3, <1>4, <1>5 DEF TurnsInv

LEMMA BindKeepsTurns ==
  ASSUME ChatShape, SessionShape, TurnsInv, NEW t \in DOMAIN turns, Bind(t)
  PROVE  TurnsInv' /\ turns' \in Seq(TurnRecords) /\ convs' \in Seq(ConvRecords)
<1> PICK c : c = IF turns[t].asked = NoConv THEN Len(convs) + 1 ELSE turns[t].asked
  OBVIOUS
<1>1. /\ turns \in Seq(TurnRecords) /\ turns[t] \in TurnRecords /\ convs \in Seq(ConvRecords)
      /\ c \in Nat /\ Len(convs) \in Nat
  <2>1. turns \in Seq(TurnRecords) /\ turns[t] \in TurnRecords /\ convs \in Seq(ConvRecords)
    BY DEF ChatShape
  <2>2. Len(convs) \in Nat /\ turns[t].asked \in Nat
    BY <2>1 DEF TurnRecords
  <2> QED
    BY <2>1, <2>2
<1>2. /\ TurnAt(t, "sent") /\ turns[t].token \in alive
      /\ turns' = [turns EXCEPT ![t].pc = "bound", ![t].conv = c]
      /\ \/ convs' = Append(convs, [owner |-> Asker(t), exists |-> TRUE, log |-> <<>>])
         \/ UNCHANGED convs
      /\ UNCHANGED owner
  BY DEF Bind, sessionVars
<1>3. turns[t].token \in DOMAIN owner /\ Asker(t) \in Users
  BY <1>2 DEF SessionShape, Asker
<1> PICK x : x = [turns[t] EXCEPT !.pc = "bound", !.conv = c]
  OBVIOUS
<1>4. turns' = [turns EXCEPT ![t] = x]
  BY <1>2
<1>5. x \in TurnRecords /\ x.token = turns[t].token /\ x.pc = "bound"
  BY <1>1 DEF TurnRecords
<1>6. turns' \in Seq(TurnRecords) /\ TurnsKept
  BY <1>1, <1>4, <1>5 DEF TurnsKept, Begun
<1>7. \A q \in DOMAIN turns' : Begun(q)' => turns'[q].token \in DOMAIN owner
  BY <1>1, <1>3, <1>4, <1>5 DEF Begun, TurnsInv
<1>8. convs' \in Seq(ConvRecords) /\ EntriesKept
  <2>1. CASE UNCHANGED convs
    BY <1>1, <2>1 DEF EntriesKept
  <2>2. CASE convs' = Append(convs, [owner |-> Asker(t), exists |-> TRUE, log |-> <<>>])
    <3> PICK e : e = [owner |-> Asker(t), exists |-> TRUE, log |-> <<>>]
      OBVIOUS
    <3>1. e \in ConvRecords /\ DOMAIN e.log = {}
      BY <1>3 DEF ConvRecords
    <3>2. /\ convs' \in Seq(ConvRecords) /\ DOMAIN convs' = DOMAIN convs \cup {Len(convs) + 1}
          /\ \A k \in DOMAIN convs : convs'[k] = convs[k]
          /\ convs'[Len(convs) + 1] = e
      BY <1>1, <2>2, <3>1
    <3> QED
      BY <3>1, <3>2 DEF EntriesKept
  <2> QED
    BY <1>2, <2>1, <2>2
<1> QED
  BY <1>2, <1>6, <1>7, <1>8, EntriesStay

LEMMA StoreKeepsTurns ==
  ASSUME ChatShape, SessionShape, TurnsInv, NEW t \in DOMAIN turns,
         NEW pc \in {"bound", "asked"}, NEW role \in {"question", "answer"},
         NEW next \in {"asked", "answered"}, Store(t, pc, role, next)
  PROVE  TurnsInv' /\ turns' \in Seq(TurnRecords) /\ convs' \in Seq(ConvRecords)
<1> PICK c : c = turns[t].conv
  OBVIOUS
<1> PICK e : e = [turn |-> t, role |-> role]
  OBVIOUS
<1>1. turns \in Seq(TurnRecords) /\ turns[t] \in TurnRecords /\ convs \in Seq(ConvRecords) /\ t \in Nat
  BY DEF ChatShape
<1>2. /\ turns[t].pc = pc /\ MayUse(turns[t].token, c)
      /\ convs' = [convs EXCEPT ![c].log = Append(@, e)]
      /\ turns' = [turns EXCEPT ![t].pc = next]
      /\ UNCHANGED owner
  BY DEF Store, TurnAt, Goes, sessionVars
<1>3. Begun(t) /\ turns[t].token \in DOMAIN owner
  BY <1>2 DEF Begun, TurnsInv
<1> PICK x : x = [turns[t] EXCEPT !.pc = next]
  OBVIOUS
<1>4. turns' = [turns EXCEPT ![t] = x]
  BY <1>2
<1>5. x \in TurnRecords /\ x.token = turns[t].token /\ x.pc = next
  BY <1>1 DEF TurnRecords
<1>6. turns' \in Seq(TurnRecords) /\ TurnsKept
  BY <1>1, <1>4, <1>5 DEF TurnsKept, Begun
<1>7. \A q \in DOMAIN turns' : Begun(q)' => turns'[q].token \in DOMAIN owner
  BY <1>1, <1>3, <1>4, <1>5 DEF Begun, TurnsInv
<1>8. convs' \in Seq(ConvRecords) /\ EntriesKept
  <2>1. CASE c \notin DOMAIN convs
    <3>1. convs' = convs
      BY <1>1, <1>2, <2>1
    <3> QED
      BY <1>1, <3>1 DEF EntriesKept
  <2>2. CASE c \in DOMAIN convs
    <3>1. convs[c] \in ConvRecords /\ convs[c].owner = owner[turns[t].token]
      BY <1>1, <1>2, <2>2 DEF MayUse
    <3>2. e \in LogEntries /\ e.turn = t
      BY <1>1 DEF LogEntries
    <3> PICK l : l = Append(convs[c].log, e)
      OBVIOUS
    <3>3. /\ l \in Seq(LogEntries)
          /\ \A i \in DOMAIN l : \/ i \in DOMAIN convs[c].log /\ l[i] = convs[c].log[i]
                                 \/ l[i] = e
      BY <3>1, <3>2 DEF ConvRecords
    <3> PICK y : y = [convs[c] EXCEPT !.log = l]
      OBVIOUS
    <3>4. y \in ConvRecords /\ y.owner = convs[c].owner /\ y.log = l
      BY <3>1, <3>3 DEF ConvRecords
    <3>5. convs' = [convs EXCEPT ![c] = y]
      BY <1>2
    <3>6. /\ convs' \in Seq(ConvRecords) /\ DOMAIN convs' = DOMAIN convs
          /\ convs'[c] = y /\ \A k \in DOMAIN convs : k # c => convs'[k] = convs[k]
      BY <1>1, <2>2, <3>4, <3>5
    <3>7. ASSUME NEW k \in DOMAIN convs', NEW i \in DOMAIN convs'[k].log
          PROVE  \/ /\ k \in DOMAIN convs /\ i \in DOMAIN convs[k].log
                    /\ convs'[k].log[i].turn = convs[k].log[i].turn /\ convs'[k].owner = convs[k].owner
                 \/ /\ Begun(convs'[k].log[i].turn)
                    /\ owner[turns[convs'[k].log[i].turn].token] = convs'[k].owner
      <4>1. CASE k = c
        <5>1. convs'[k].log[i] = l[i] /\ i \in DOMAIN l /\ convs'[k].owner = convs[c].owner
          BY <3>4, <3>6, <4>1
        <5>2. CASE i \in DOMAIN convs[c].log /\ l[i] = convs[c].log[i]
          BY <2>2, <4>1, <5>1, <5>2
        <5>3. CASE l[i] = e
          BY <1>3, <3>1, <3>2, <5>1, <5>3
        <5> QED
          BY <3>3, <5>1, <5>2, <5>3
      <4>2. CASE k # c
        BY <3>6, <4>2
      <4> QED
        BY <4>1, <4>2
    <3> QED
      BY <3>6, <3>7 DEF EntriesKept
  <2> QED
    BY <2>1, <2>2
<1> QED
  BY <1>2, <1>6, <1>7, <1>8, EntriesStay

LEMMA SendKeepsTurns ==
  ASSUME ChatShape, SessionShape, TurnsInv, Send
  PROVE  TurnsInv' /\ turns' \in Seq(TurnRecords) /\ convs' \in Seq(ConvRecords)
<1> PICK e : e = [token |-> stored, asked |-> chat.open, conv |-> NoConv, pc |-> "sent"]
  OBVIOUS
<1>1. turns' = Append(turns, e) /\ UNCHANGED <<convs, owner>>
  BY DEF Send, ActsOn
<1>2. e \in TurnRecords /\ e.pc = "sent"
  BY DEF ChatShape, SessionShape, KnownTokens, TurnRecords, NoConv, NoToken
<1>3. /\ turns \in Seq(TurnRecords) /\ convs \in Seq(ConvRecords) /\ Len(turns) \in Nat
      /\ turns' \in Seq(TurnRecords) /\ DOMAIN turns' = DOMAIN turns \cup {Len(turns) + 1}
      /\ \A t \in DOMAIN turns : turns'[t] = turns[t]
      /\ turns'[Len(turns) + 1] = e
  BY <1>1, <1>2 DEF ChatShape
<1>4. TurnsKept /\ EntriesKept
  BY <1>1, <1>3 DEF TurnsKept, EntriesKept, Begun
<1>5. \A t \in DOMAIN turns' : Begun(t)' => turns'[t].token \in DOMAIN owner
  BY <1>2, <1>3 DEF Begun, TurnsInv
<1> QED
  BY <1>1, <1>3, <1>4, <1>5, EntriesStay

LEMMA ServeKeepsTurns ==
  ASSUME ChatShape, SessionShape, TurnsInv, NEW r \in calls, Serve(r)
  PROVE  TurnsInv' /\ turns' \in Seq(TurnRecords) /\ convs' \in Seq(ConvRecords)
<1>1. /\ convs' = [convs EXCEPT ![r.conv].exists = FALSE, ![r.conv].log = <<>>] \/ convs' = convs
      /\ UNCHANGED <<turns, owner>>
  BY DEF Serve, sessionVars
<1>2. turns \in Seq(TurnRecords) /\ convs \in Seq(ConvRecords)
  BY DEF ChatShape
<1>3. TurnsKept /\ \A t \in DOMAIN turns' : Begun(t)' => turns'[t].token \in DOMAIN owner
  BY <1>1 DEF TurnsKept, Begun, TurnsInv
<1>4. convs' \in Seq(ConvRecords) /\ EntriesKept
  <2>1. CASE convs' = convs
    BY <1>2, <2>1 DEF EntriesKept
  <2>2. CASE convs' = [convs EXCEPT ![r.conv].exists = FALSE, ![r.conv].log = <<>>]
    <3>1. CASE r.conv \notin DOMAIN convs
      <4>1. convs' = convs
        BY <1>2, <2>2, <3>1
      <4> QED
        BY <1>2, <4>1 DEF EntriesKept
    <3>2. CASE r.conv \in DOMAIN convs
      <4> PICK y : y = [convs[r.conv] EXCEPT !.exists = FALSE, !.log = <<>>]
        OBVIOUS
      <4>1. y \in ConvRecords /\ DOMAIN y.log = {}
        <5>1. convs[r.conv] \in ConvRecords
          BY <1>2, <3>2
        <5>2. <<>> \in Seq(LogEntries) /\ DOMAIN <<>> = {}
          OBVIOUS
        <5> QED
          BY <5>1, <5>2 DEF ConvRecords
      <4>2. convs' = [convs EXCEPT ![r.conv] = y]
        BY <2>2
      <4>3. /\ convs' \in Seq(ConvRecords) /\ DOMAIN convs' = DOMAIN convs
            /\ convs'[r.conv] = y /\ \A k \in DOMAIN convs : k # r.conv => convs'[k] = convs[k]
        BY <1>2, <3>2, <4>1, <4>2
      <4> QED
        BY <4>1, <4>3 DEF EntriesKept
    <3> QED
      BY <3>1, <3>2
  <2> QED
    BY <1>1, <2>1, <2>2
<1> QED
  BY <1>1, <1>2, <1>3, <1>4, EntriesStay

(* The tab's part of ChatShape, which each step of the chat keeps.          *)
TabShape ==
  /\ chat = [list |-> chat.list, open |-> chat.open, messages |-> chat.messages,
             sending |-> chat.sending]
  /\ chat.list \subseteq Nat /\ chat.open \in Nat
  /\ stream = [turn |-> stream.turn, phase |-> stream.phase]
  /\ stream.phase = "waiting" => stream.turn \in DOMAIN turns

LEMMA ShowingKeepsTab ==
  ASSUME ChatShape, NEW conv \in Nat, NEW messages, NEW list, list \subseteq Nat,
         Shows(conv, messages, list), UNCHANGED <<turns, stream>>
  PROVE  TabShape'
<1>1. chat' = [list |-> list, open |-> conv, messages |-> messages, sending |-> chat.sending]
  <2>1. chat' = [chat EXCEPT !.open = conv, !.messages = messages, !.list = list]
    BY DEF Shows
  <2> QED
    BY <2>1 DEF ChatShape
<1> QED
  BY <1>1 DEF ChatShape, TabShape

LEMMA ListsAreNumbers ==
  ASSUME ChatShape, NEW t
  PROVE  ListOf(t) \subseteq Nat
BY DEF ChatShape, ListOf

LEMMA ChatStepKeepsTab ==
  ASSUME ChatShape, ChatStep
  PROVE  TabShape'
<1>1. CASE NewConversation
  <2>1. Shows(NoConv, <<>>, chat.list) /\ UNCHANGED <<turns, stream>>
    BY <1>1 DEF NewConversation, server
  <2>2. chat.list \subseteq Nat /\ NoConv \in Nat
    BY DEF ChatShape, NoConv
  <2> QED
    BY <2>1, <2>2, ShowingKeepsTab
<1>2. CASE Send
  <2> PICK t, ms : /\ t = Len(turns) + 1
                   /\ ms = chat.messages \o << [turn |-> t, text |-> "question", live |-> FALSE],
                                               [turn |-> t, text |-> "pending", live |-> TRUE] >>
    OBVIOUS
  <2> PICK e : e = [token |-> stored, asked |-> chat.open, conv |-> NoConv, pc |-> "sent"]
    OBVIOUS
  <2>1. /\ chat' = [chat EXCEPT !.sending = TRUE, !.messages = ms]
        /\ stream' = [turn |-> t, phase |-> "waiting"] /\ turns' = Append(turns, e)
    BY <1>2 DEF Send
  <2>2. chat' = [list |-> chat.list, open |-> chat.open, messages |-> ms, sending |-> TRUE]
    BY <2>1 DEF ChatShape
  <2>3. t \in DOMAIN turns'
    BY <2>1 DEF ChatShape
  <2> QED
    BY <2>1, <2>2, <2>3 DEF ChatShape, TabShape
<1>3. ASSUME NEW kind \in {"open", "delete"}, NEW c \in chat.list, Click(kind, c)
      PROVE  TabShape'
  BY <1>3 DEF Click, server, ChatShape, TabShape
<1>4. ASSUME NEW r \in calls, Serve(r) \/ CallFails(r)
      PROVE  TabShape'
  BY <1>4 DEF Serve, CallFails, server, ChatShape, TabShape
<1>5. ASSUME NEW r \in calls, Opened(r)
      PROVE  TabShape'
  <2>1. Shows(r.conv, r.messages, chat.list) /\ UNCHANGED <<turns, stream>>
    BY <1>5 DEF Opened, server
  <2>2. chat.list \subseteq Nat /\ r.conv \in Nat
    BY DEF ChatShape
  <2> QED
    BY <2>1, <2>2, ShowingKeepsTab
<1>6. ASSUME NEW r \in calls, Removed(r)
      PROVE  TabShape'
  <2>1. UNCHANGED <<turns, stream>>
    BY <1>6 DEF Removed, server
  <2>2. CASE Shows(NoConv, <<>>, chat.list)
    <3>1. chat.list \subseteq Nat /\ NoConv \in Nat
      BY DEF ChatShape, NoConv
    <3> QED
      BY <2>1, <2>2, <3>1, ShowingKeepsTab
  <2>3. CASE UNCHANGED chat
    BY <2>1, <2>3 DEF ChatShape, TabShape
  <2> QED
    BY <1>6, <2>2, <2>3 DEF Removed
<1>7. ASSUME NEW r \in calls, ListArrives(r)
      PROVE  TabShape'
  <2>1. chat' = [chat EXCEPT !.list = ListOf(r.token)] /\ UNCHANGED <<turns, stream>>
    BY <1>7 DEF ListArrives, server
  <2>2. chat' = [list |-> ListOf(r.token), open |-> chat.open, messages |-> chat.messages,
                 sending |-> chat.sending]
    BY <2>1 DEF ChatShape
  <2> QED
    BY <2>1, <2>2, ListsAreNumbers DEF ChatShape, TabShape
<1>8. ASSUME NEW t \in DOMAIN turns, Bind(t) \/ StoreQuestion(t) \/ StoreAnswer(t)
      PROVE  TabShape'
  <2>1. UNCHANGED <<chat, stream>>
    BY <1>8 DEF Bind, StoreQuestion, StoreAnswer, Store
  <2>2. \E x : turns' = [turns EXCEPT ![t] = x]
    BY <1>8 DEF Bind, StoreQuestion, StoreAnswer, Store, Goes
  <2>3. DOMAIN turns' = DOMAIN turns
    BY <2>2 DEF ChatShape
  <2> QED
    BY <2>1, <2>3 DEF ChatShape, TabShape
<1>9. CASE MetadataArrives
  <2> PICK c : c = turns[stream.turn].conv
    OBVIOUS
  <2>1. /\ stream.phase = "waiting" /\ chat' = [chat EXCEPT !.open = c]
        /\ stream' = [stream EXCEPT !.phase = "open"]
    BY <1>9 DEF MetadataArrives
  <2>2. c \in Nat
    <3>1. turns[stream.turn] \in TurnRecords
      BY <2>1 DEF ChatShape
    <3> QED
      BY <3>1 DEF TurnRecords
  <2>3. chat' = [list |-> chat.list, open |-> c, messages |-> chat.messages,
                 sending |-> chat.sending]
    BY <2>1 DEF ChatShape
  <2>4. stream' = [turn |-> stream.turn, phase |-> "open"]
    BY <2>1 DEF ChatShape
  <2> QED
    BY <2>2, <2>3, <2>4 DEF ChatShape, TabShape
<1>10. CASE AnswerArrives
  <2>1. \E m : chat' = [chat EXCEPT !.messages = m]
    BY <1>10 DEF AnswerArrives, Writes
  <2>2. PICK m : chat' = [list |-> chat.list, open |-> chat.open, messages |-> m,
                          sending |-> chat.sending]
    BY <2>1 DEF ChatShape
  <2>3. stream' = [turn |-> stream.turn, phase |-> "listing"]
    BY <1>10 DEF AnswerArrives, ChatShape
  <2> QED
    BY <2>2, <2>3 DEF ChatShape, TabShape
<1>11. CASE TurnListed
  <2>1. chat' = [chat EXCEPT !.sending = FALSE, !.list = ListOf(stored)] /\ stream' = NoStream
    BY <1>11 DEF TurnListed, Finished
  <2>2. chat' = [list |-> ListOf(stored), open |-> chat.open, messages |-> chat.messages,
                 sending |-> FALSE]
    BY <2>1 DEF ChatShape
  <2>3. stream' = [turn |-> 0, phase |-> "none"]
    BY <2>1 DEF NoStream
  <2>4. chat'.list \subseteq Nat /\ chat.open \in Nat
    BY <2>2, ListsAreNumbers DEF ChatShape
  <2> QED
    BY <2>2, <2>3, <2>4 DEF TabShape
<1>12. CASE StreamFails
  <2>1. \E m : chat' = [[chat EXCEPT !.messages = m] EXCEPT !.sending = FALSE]
    BY <1>12 DEF StreamFails, Writes
  <2>2. PICK m : chat' = [list |-> chat.list, open |-> chat.open, messages |-> m,
                          sending |-> FALSE]
    BY <2>1 DEF ChatShape
  <2>3. stream' = [turn |-> 0, phase |-> "none"]
    BY <1>12 DEF StreamFails, Finished, NoStream
  <2> QED
    BY <2>2, <2>3 DEF ChatShape, TabShape
<1> QED
  BY <1>1, <1>2, <1>3, <1>4, <1>5, <1>6, <1>7, <1>8, <1>9, <1>10, <1>11, <1>12 DEF ChatStep

(* What each step of the chat does to the server.                           *)
LEMMA ChatStepKeepsTurns ==
  ASSUME ChatShape, SessionShape, TurnsInv, OwnersStay, ChatStep
  PROVE  TurnsInv' /\ turns' \in Seq(TurnRecords) /\ convs' \in Seq(ConvRecords)
<1>1. CASE UNCHANGED server
  BY <1>1, TablesUntouched DEF server, ChatShape
<1>2. CASE Send
  BY <1>2, SendKeepsTurns
<1>3. CASE \E r \in calls : Serve(r)
  BY <1>3, ServeKeepsTurns
<1>4. ASSUME NEW t \in DOMAIN turns, Bind(t)
      PROVE  TurnsInv' /\ turns' \in Seq(TurnRecords) /\ convs' \in Seq(ConvRecords)
  BY <1>4, BindKeepsTurns
<1>5. ASSUME NEW t \in DOMAIN turns, StoreQuestion(t)
      PROVE  TurnsInv' /\ turns' \in Seq(TurnRecords) /\ convs' \in Seq(ConvRecords)
  <2>1. Store(t, "bound", "question", "asked")
    BY <1>5 DEF StoreQuestion
  <2> QED
    BY <2>1, StoreKeepsTurns
<1>6. ASSUME NEW t \in DOMAIN turns, StoreAnswer(t)
      PROVE  TurnsInv' /\ turns' \in Seq(TurnRecords) /\ convs' \in Seq(ConvRecords)
  <2>1. Store(t, "asked", "answer", "answered")
    BY <1>6 DEF StoreAnswer
  <2> QED
    BY <2>1, StoreKeepsTurns
<1> QED
  BY <1>1, <1>2, <1>3, <1>4, <1>5, <1>6
  DEF ChatStep, NewConversation, Click, Opened, Removed, ListArrives, CallFails,
      MetadataArrives, AnswerArrives, TurnListed, StreamFails

-----------------------------------------------------------------------------
(* The messages on the screen.                                              *)

TabMessages ==
  [turn : Nat, text : {"question", "pending", "answer", "error"}, live : BOOLEAN]
TabScreen ==
  /\ hist = [mixed |-> hist.mixed, behind |-> hist.behind]
  /\ chat.messages \in Seq(TabMessages) /\ chat.list \subseteq DOMAIN convs
  /\ chat.sending \/ stream = NoStream
ScreenShape ==
  /\ TabScreen
  /\ \A r \in calls : r.messages \in Seq(TabMessages)
  /\ \A r \in calls : r.kind = "list" \/ r.conv \in DOMAIN convs

(* A turn is bound to the conversation it was asked in; conversations, and  *)
(* the answers that bring their messages, have only turns bound to them.    *)
In(t, c) == Begun(t) /\ turns[t].conv = c
TurnsBound ==
  \A t \in DOMAIN turns :
    Begun(t) => turns[t].conv # NoConv /\ turns[t].asked \in {NoConv, turns[t].conv}
EntriesBound == \A c \in DOMAIN convs : \A i \in DOMAIN convs[c].log : In(convs[c].log[i].turn, c)
AnswersBound == \A r \in calls : \A i \in DOMAIN r.messages : In(r.messages[i].turn, r.conv)

(* A message belongs to the open conversation, or failed, or its turn is    *)
(* waiting for its metadata: then it was asked in what is open, and the     *)
(* message its stream writes to is on the screen.                           *)
Waiting(t) == stream.phase = "waiting" /\ stream.turn = t
Shown(t) ==
  /\ In(t, chat.open) \/ Failing(t) \/ Waiting(t)
  /\ stream.phase = "open" /\ stream.turn = t => In(t, chat.open)
Awaited(t) ==
  /\ turns[t].asked = chat.open
  /\ \E i \in DOMAIN chat.messages : chat.messages[i].turn = t /\ chat.messages[i].live
ScreenKnown ==
  ~hist.mixed =>
    /\ \A i \in DOMAIN chat.messages : Shown(chat.messages[i].turn)
    /\ stream.phase = "waiting" => Awaited(stream.turn)

ScreenInv == ScreenShape /\ TurnsBound /\ EntriesBound /\ AnswersBound /\ ScreenKnown

(* What every step does to the turns.                                       *)
TurnsGoOn ==
  \A t \in DOMAIN turns :
    /\ t \in DOMAIN turns' /\ turns'[t].asked = turns[t].asked
    /\ Begun(t) => turns'[t].pc # "sent" /\ turns'[t].conv = turns[t].conv
ServerGoesOn == TurnsGoOn /\ TurnsBound' /\ EntriesBound' /\ DOMAIN convs \subseteq DOMAIN convs'

LEMMA InStays ==
  ASSUME TurnsGoOn, NEW t, NEW c, In(t, c)
  PROVE  In(t, c)'
BY DEF TurnsGoOn, In, Begun

(* The entries of the conversations, by the turns they are of.              *)
LEMMA EntriesAreBound ==
  ASSUME \A c \in DOMAIN convs' : \A i \in DOMAIN convs'[c].log :
           \E t : t = convs'[c].log[i].turn /\ In(t, c)'
  PROVE  EntriesBound'
BY DEF EntriesBound, In, Begun

LEMMA SameTables ==
  ASSUME ScreenInv, UNCHANGED server
  PROVE  ServerGoesOn
<1>1. UNCHANGED <<turns, convs>>
  BY DEF server
<1>2. \A t : Begun(t)' <=> Begun(t)
  BY <1>1 DEF Begun
<1>3. TurnsGoOn
  BY <1>1 DEF TurnsGoOn, Begun
<1>4. TurnsBound'
  BY <1>1, <1>2 DEF ScreenInv, TurnsBound
<1>5. EntriesBound'
  BY <1>1, <1>2 DEF ScreenInv, EntriesBound, In
<1> QED
  BY <1>1, <1>3, <1>4, <1>5 DEF ServerGoesOn

LEMMA SendGoesOn ==
  ASSUME ChatShape, ScreenInv, Send
  PROVE  /\ ServerGoesOn /\ Len(turns) + 1 \in DOMAIN turns'
         /\ turns'[Len(turns) + 1].asked = chat.open
<1> PICK e : e = [token |-> stored, asked |-> chat.open, conv |-> NoConv, pc |-> "sent"]
  OBVIOUS
<1>1. turns' = Append(turns, e) /\ UNCHANGED convs
  BY DEF Send
<1>2. turns \in Seq(TurnRecords \cup {e}) /\ e \in TurnRecords \cup {e}
  BY SeqDef DEF ChatShape
<1>3. /\ DOMAIN turns' = DOMAIN turns \cup {Len(turns) + 1}
      /\ \A t \in DOMAIN turns : turns'[t] = turns[t]
      /\ turns'[Len(turns) + 1] = e
  BY <1>1, <1>2
<1>4. e.pc = "sent" /\ e.asked = chat.open
  OBVIOUS
<1>5. TurnsGoOn
  BY <1>3 DEF TurnsGoOn, Begun
<1>6. TurnsBound'
  BY <1>3, <1>4 DEF ScreenInv, TurnsBound, Begun
<1>7. EntriesBound'
  BY <1>1, <1>5, InStays DEF ScreenInv, EntriesBound
<1> QED
  BY <1>1, <1>3, <1>4, <1>5, <1>6, <1>7 DEF ServerGoesOn

LEMMA BindGoesOn ==
  ASSUME ChatShape, ScreenInv, NEW t \in DOMAIN turns, Bind(t)
  PROVE  ServerGoesOn
<1> PICK c : c = IF turns[t].asked = NoConv THEN Len(convs) + 1 ELSE turns[t].asked
  OBVIOUS
<1> PICK x : x = [turns[t] EXCEPT !.pc = "bound", !.conv = c]
  OBVIOUS
<1>1. turns[t] \in TurnRecords /\ turns \in Seq(TurnRecords) /\ convs \in Seq(ConvRecords)
  BY DEF ChatShape
<1>2. /\ turns[t].pc = "sent"
      /\ turns' = [turns EXCEPT ![t].pc = "bound", ![t].conv = c]
      /\ \/ convs' = Append(convs, [owner |-> Asker(t), exists |-> TRUE, log |-> <<>>])
         \/ UNCHANGED convs
  BY DEF Bind, TurnAt
<1>3. turns' = [turns EXCEPT ![t] = x]
  BY <1>2
<1>4. x.pc = "bound" /\ x.conv = c /\ x.asked = turns[t].asked
  BY <1>1 DEF TurnRecords
<1>5. /\ DOMAIN turns' = DOMAIN turns /\ turns'[t] = x
      /\ \A q \in DOMAIN turns : q # t => turns'[q] = turns[q]
  BY <1>1, <1>3
<1>6. TurnsGoOn
  BY <1>2, <1>4, <1>5 DEF TurnsGoOn, Begun
<1>7. c # NoConv /\ turns[t].asked \in {NoConv, c}
  <2>1. Len(convs) \in Nat
    BY <1>1
  <2> QED
    BY <2>1 DEF NoConv
<1>8. TurnsBound'
  BY <1>4, <1>5, <1>7 DEF ScreenInv, TurnsBound, Begun
<1>9. EntriesBound' /\ DOMAIN convs \subseteq DOMAIN convs'
  <2>1. CASE UNCHANGED convs
    BY <1>6, <2>1, InStays DEF ScreenInv, EntriesBound
  <2>2. CASE convs' = Append(convs, [owner |-> Asker(t), exists |-> TRUE, log |-> <<>>])
    <3> PICK e : e = [owner |-> Asker(t), exists |-> TRUE, log |-> <<>>]
      OBVIOUS
    <3>1. convs \in Seq(ConvRecords \cup {e}) /\ e \in ConvRecords \cup {e}
      BY <1>1, SeqDef
    <3>2. /\ DOMAIN convs' = DOMAIN convs \cup {Len(convs) + 1}
          /\ \A k \in DOMAIN convs : convs'[k] = convs[k]
          /\ convs'[Len(convs) + 1] = e
      BY <2>2, <3>1
    <3>3. DOMAIN e.log = {}
      OBVIOUS
    <3> QED
      BY <1>6, <3>2, <3>3, InStays DEF ScreenInv, EntriesBound
  <2> QED
    BY <1>2, <2>1, <2>2
<1> QED
  BY <1>6, <1>8, <1>9 DEF ServerGoesOn

LEMMA StoreGoesOn ==
  ASSUME ChatShape, ScreenInv, NEW t \in DOMAIN turns, NEW pc \in {"bound", "asked"}, NEW role,
         NEW next \in {"asked", "answered"}, Store(t, pc, role, next)
  PROVE  ServerGoesOn
<1> PICK c : c = turns[t].conv
  OBVIOUS
<1> PICK e : e = [turn |-> t, role |-> role]
  OBVIOUS
<1> PICK x : x = [turns[t] EXCEPT !.pc = next]
  OBVIOUS
<1>1. turns[t] \in TurnRecords /\ turns \in Seq(TurnRecords) /\ convs \in Seq(ConvRecords)
  BY DEF ChatShape
<1>2. /\ turns[t].pc = pc /\ turns' = [turns EXCEPT ![t] = x]
      /\ convs' = [convs EXCEPT ![c].log = Append(@, e)]
  BY DEF Store, TurnAt, Goes
<1>3. x.pc = next /\ x.conv = c /\ x.asked = turns[t].asked
  BY <1>1 DEF TurnRecords
<1>4. /\ DOMAIN turns' = DOMAIN turns /\ turns'[t] = x
      /\ \A q \in DOMAIN turns : q # t => turns'[q] = turns[q]
  BY <1>1, <1>2
<1>5. TurnsGoOn
  BY <1>3, <1>4 DEF TurnsGoOn, Begun
<1>6. TurnsBound'
  BY <1>2, <1>3, <1>4 DEF ScreenInv, TurnsBound, Begun
<1>7. In(t, c)'
  BY <1>3, <1>4 DEF In, Begun
<1>8. ASSUME NEW k \in DOMAIN convs', NEW i \in DOMAIN convs'[k].log
      PROVE  \E q : q = convs'[k].log[i].turn /\ In(q, k)'
  <2>1. CASE k # c \/ c \notin DOMAIN convs
    <3>1. k \in DOMAIN convs /\ convs'[k] = convs[k]
      BY <1>1, <1>2, <2>1
    <3> QED
      BY <1>5, <3>1, InStays DEF ScreenInv, EntriesBound
  <2>2. CASE k = c /\ c \in DOMAIN convs
    <3> PICK l : l = Append(convs[c].log, e)
      OBVIOUS
    <3>1. convs[c] \in ConvRecords
      BY <1>1, <2>2
    <3>2. convs'[k].log = l
      BY <1>2, <2>2, <3>1 DEF ConvRecords
    <3>3. convs[c].log \in Seq(LogEntries)
      BY <3>1 DEF ConvRecords
    <3>4. convs[c].log \in Seq(LogEntries \cup {e}) /\ e \in LogEntries \cup {e}
      BY <3>3, SeqDef
    <3>5. (i \in DOMAIN convs[c].log /\ l[i] = convs[c].log[i]) \/ l[i] = e
      BY <3>2, <3>4
    <3>6. CASE i \in DOMAIN convs[c].log /\ l[i] = convs[c].log[i]
      <4>1. In(convs[c].log[i].turn, c)
        BY <2>2, <3>6 DEF ScreenInv, EntriesBound
      <4> QED
        BY <1>5, <2>2, <3>2, <3>6, <4>1, InStays
    <3>7. CASE l[i] = e
      BY <1>7, <2>2, <3>2, <3>7
    <3> QED
      BY <3>5, <3>6, <3>7
  <2> QED
    BY <2>1, <2>2
<1> QED
  BY <1>1, <1>2, <1>5, <1>6, <1>8, EntriesAreBound DEF ServerGoesOn

LEMMA ServeGoesOn ==
  ASSUME ChatShape, ScreenInv, NEW r \in calls, Serve(r)
  PROVE  ServerGoesOn
<1>1. /\ convs' = [convs EXCEPT ![r.conv].exists = FALSE, ![r.conv].log = <<>>] \/ convs' = convs
      /\ UNCHANGED turns
  BY DEF Serve
<1>2. CASE convs' = convs
  BY <1>1, <1>2, SameTables DEF server
<1>3. CASE convs' = [convs EXCEPT ![r.conv].exists = FALSE, ![r.conv].log = <<>>]
  <2>1. TurnsGoOn /\ TurnsBound'
    BY <1>1 DEF TurnsGoOn, ScreenInv, TurnsBound, Begun
  <2>2. ASSUME NEW k \in DOMAIN convs', NEW i \in DOMAIN convs'[k].log
        PROVE  \E q : q = convs'[k].log[i].turn /\ In(q, k)'
    <3> PICK y : y = [convs[r.conv] EXCEPT !.exists = FALSE, !.log = <<>>]
      OBVIOUS
    <3>1. convs' = [convs EXCEPT ![r.conv] = y] /\ convs \in Seq(ConvRecords)
      BY <1>3 DEF ChatShape
    <3>2. k \in DOMAIN convs
      BY <3>1
    <3>3. CASE k = r.conv
      <4>1. convs[k] \in ConvRecords
        BY <3>1, <3>2
      <4>2. y.log = <<>>
        BY <3>3, <4>1 DEF ConvRecords
      <4>3. convs'[k].log = <<>>
        BY <3>1, <3>2, <3>3, <4>2
      <4> QED
        BY <4>3
    <3>4. CASE k # r.conv
      <4>1. convs'[k] = convs[k]
        BY <3>1, <3>2, <3>4
      <4> QED
        BY <2>1, <3>2, <4>1, InStays DEF ScreenInv, EntriesBound
    <3> QED
      BY <3>3, <3>4
  <2> QED
    BY <1>3, <2>1, <2>2, EntriesAreBound DEF ServerGoesOn
<1> QED
  BY <1>1, <1>2, <1>3

-----------------------------------------------------------------------------
(* What an answer brings, and what the stream writes.                       *)

LEMMA LoadedIsBound ==
  ASSUME ChatShape, EntriesBound, NEW c \in DOMAIN convs
  PROVE  /\ Loaded(c) \in Seq(TabMessages)
         /\ \A i \in DOMAIN Loaded(c) : In(Loaded(c)[i].turn, c)
<1> PICK l : l = convs[c].log
  OBVIOUS
<1>1. l \in Seq(LogEntries)
  <2>1. convs[c] \in ConvRecords
    BY DEF ChatShape
  <2> QED
    BY <2>1 DEF ConvRecords
<1>2. Loaded(c) = [i \in DOMAIN l |-> [turn |-> l[i].turn, text |-> l[i].role, live |-> FALSE]]
  BY DEF Loaded
<1>3. DOMAIN Loaded(c) = DOMAIN l /\ DOMAIN l = 1..Len(l) /\ Len(l) \in Nat
  BY <1>1, <1>2
<1>4. ASSUME NEW i \in DOMAIN l
      PROVE  Loaded(c)[i] \in TabMessages /\ Loaded(c)[i].turn = l[i].turn
  <2>1. l[i] \in LogEntries
    BY <1>1
  <2>2. Loaded(c)[i] = [turn |-> l[i].turn, text |-> l[i].role, live |-> FALSE]
    BY <1>2
  <2> QED
    BY <2>1, <2>2 DEF LogEntries, TabMessages
<1>5. Loaded(c) \in [1..Len(l) -> TabMessages]
  BY <1>2, <1>3, <1>4
<1>6. Loaded(c) \in Seq(TabMessages)
  BY <1>3, <1>5, SeqDef
<1>7. \A i \in DOMAIN l : In(l[i].turn, c)
  BY DEF EntriesBound
<1> QED
  BY <1>3, <1>4, <1>6, <1>7

LEMMA AnswerBrings ==
  ASSUME ChatShape, EntriesBound, NEW r, CallShape(r), r.kind = "list" \/ r.conv \in DOMAIN convs,
         r.messages \in Seq(TabMessages),
         \A i \in DOMAIN r.messages : In(r.messages[i].turn, r.conv)
  PROVE  /\ Answer(r).messages \in Seq(TabMessages) /\ Answer(r).kind = r.kind
         /\ \A i \in DOMAIN Answer(r).messages : In(Answer(r).messages[i].turn, r.conv)
<1> PICK a : a = Answer(r)
  OBVIOUS
<1>1. /\ a.kind = r.kind
      /\ \/ a.messages \in {r.messages, <<>>}
         \/ r.conv \in DOMAIN convs /\ a.messages = Loaded(r.conv)
  <2>1. CASE r.token \notin alive
    BY <2>1 DEF Answer, CallShape
  <2>2. CASE r.token \in alive /\ ~MayUse(r.token, r.conv)
    BY <2>2 DEF Answer, CallShape
  <2>3. CASE r.token \in alive /\ MayUse(r.token, r.conv)
    <3> DEFINE m == IF r.kind = "open" THEN Loaded(r.conv) ELSE <<>>
    <3>1. a = [r EXCEPT !.status = "ok", !.messages = m]
      BY <2>3 DEF Answer
    <3>2. m = <<>> \/ (r.conv \in DOMAIN convs /\ m = Loaded(r.conv))
      OBVIOUS
    <3> HIDE DEF m
    <3>3. a = [kind |-> r.kind, conv |-> r.conv, token |-> r.token, status |-> "ok",
               messages |-> m]
      BY <3>1 DEF CallShape
    <3> QED
      BY <3>2, <3>3
  <2> QED
    BY <2>1, <2>2, <2>3
<1>2. <<>> \in Seq(TabMessages) /\ DOMAIN <<>> = {}
  OBVIOUS
<1>3. CASE r.conv \in DOMAIN convs /\ a.messages = Loaded(r.conv)
  BY <1>1, <1>3, LoadedIsBound
<1>4. CASE a.messages = <<>>
  BY <1>1, <1>2, <1>4
<1>5. CASE a.messages = r.messages
  BY <1>1, <1>5
<1> QED
  BY <1>1, <1>3, <1>4, <1>5

LEMMA CallsBring ==
  ASSUME ChatShape, CallsInv, ScreenInv, CallsGrow, ServerGoesOn
  PROVE  /\ AnswersBound' /\ \A r \in calls' : r.messages \in Seq(TabMessages)
         /\ \A r \in calls' : r.kind = "list" \/ r.conv \in DOMAIN convs'
<1>1. ASSUME NEW r \in calls'
      PROVE  /\ r.messages \in Seq(TabMessages) /\ (r.kind = "list" \/ r.conv \in DOMAIN convs')
             /\ \A i \in DOMAIN r.messages : In(r.messages[i].turn, r.conv)
  <2>1. CASE r \in calls
    BY <2>1 DEF ScreenInv, ScreenShape, AnswersBound, ServerGoesOn
  <2>2. CASE NewCall(r)
    <3>1. <<>> \in Seq(TabMessages) /\ DOMAIN <<>> = {}
      OBVIOUS
    <3> QED
      BY <2>2, <3>1 DEF NewCall, ScreenInv, ScreenShape, TabScreen, ServerGoesOn
  <2>3. ASSUME NEW q \in calls, r = Answer(q)
        PROVE  /\ r.messages \in Seq(TabMessages) /\ (r.kind = "list" \/ r.conv \in DOMAIN convs')
               /\ \A i \in DOMAIN r.messages : In(r.messages[i].turn, r.conv)
    <3>1. /\ CallShape(q) /\ Sound(q) /\ q.messages \in Seq(TabMessages)
          /\ q.kind = "list" \/ q.conv \in DOMAIN convs
          /\ \A i \in DOMAIN q.messages : In(q.messages[i].turn, q.conv)
      BY DEF CallsInv, ScreenInv, ScreenShape, AnswersBound
    <3>2. r.conv = q.conv
      BY <2>3, <3>1, AnsweredIsSound
    <3>3. /\ r.messages \in Seq(TabMessages) /\ r.kind = q.kind
          /\ \A i \in DOMAIN r.messages : In(r.messages[i].turn, q.conv)
      BY <2>3, <3>1, AnswerBrings DEF ScreenInv
    <3> QED
      BY <3>1, <3>2, <3>3 DEF ServerGoesOn
  <2> QED
    BY <2>1, <2>2, <2>3 DEF CallsGrow
<1>2. ASSUME NEW r \in calls', NEW i \in DOMAIN r.messages
      PROVE  In(r.messages[i].turn, r.conv)'
  BY <1>1, <1>2, InStays DEF ServerGoesOn
<1> QED
  BY <1>1, <1>2 DEF AnswersBound

(* The stream writes to the live messages of its turn, and to no other.     *)
LEMMA WritesTells ==
  ASSUME ChatShape, TabScreen, NEW text \in {"answer", "error"}
  PROVE  \E ms \in Seq(TabMessages) :
           /\ Writes(text) = [list |-> chat.list, open |-> chat.open, messages |-> ms,
                              sending |-> chat.sending]
           /\ DOMAIN ms = DOMAIN chat.messages
           /\ \A i \in DOMAIN ms :
                /\ ms[i].turn = chat.messages[i].turn /\ ms[i].live = chat.messages[i].live
                /\ ms[i].text = chat.messages[i].text \/ (ms[i].turn = stream.turn /\ ms[i].text = text)
                /\ ~chat.messages[i].live => ms[i].text = chat.messages[i].text
                /\ ms[i].turn = stream.turn /\ chat.messages[i].live => ms[i].text = text
<1> PICK old : old = chat.messages
  OBVIOUS
<1> DEFINE Written(i) == old[i].live /\ old[i].turn = stream.turn
           Now(i) == IF Written(i) THEN [old[i] EXCEPT !.text = text] ELSE old[i]
<1> PICK ms : ms = [i \in DOMAIN old |-> Now(i)]
  OBVIOUS
<1>1. old \in Seq(TabMessages) /\ DOMAIN old = 1..Len(old) /\ Len(old) \in Nat
  BY DEF TabScreen
<1>2. Writes(text) = [chat EXCEPT !.messages = ms]
  BY DEF Writes
<1>3. Writes(text) = [list |-> chat.list, open |-> chat.open, messages |-> ms,
                      sending |-> chat.sending]
  BY <1>2 DEF ChatShape
<1>4. ASSUME NEW i \in DOMAIN old
      PROVE  /\ ms[i] \in TabMessages /\ ms[i].turn = old[i].turn /\ ms[i].live = old[i].live
             /\ ms[i].text = old[i].text \/ (ms[i].turn = stream.turn /\ ms[i].text = text)
             /\ ~old[i].live => ms[i].text = old[i].text
             /\ ms[i].turn = stream.turn /\ old[i].live => ms[i].text = text
  <2>1. old[i] \in TabMessages
    BY <1>1
  <2>2. CASE Written(i)
    <3>1. ms[i] = [old[i] EXCEPT !.text = text]
      BY <2>2
    <3>2. ms[i] \in TabMessages /\ ms[i].turn = old[i].turn /\ ms[i].live = old[i].live
          /\ ms[i].text = text
      BY <2>1, <3>1 DEF TabMessages
    <3> QED
      BY <2>2, <3>2
  <2>3. CASE ~Written(i)
    <3>1. ms[i] = old[i]
      BY <2>3
    <3> QED
      BY <2>1, <2>3, <3>1
  <2> QED
    BY <2>2, <2>3
<1>5. DOMAIN ms = DOMAIN old
  OBVIOUS
<1>6. ms \in Seq(TabMessages)
  <2>1. ms \in [1..Len(old) -> TabMessages]
    BY <1>1, <1>4
  <2> QED
    BY <1>1, <2>1, SeqDef
<1> HIDE DEF Written, Now
<1>7. \A i \in DOMAIN ms :
        /\ ms[i].turn = chat.messages[i].turn /\ ms[i].live = chat.messages[i].live
        /\ ms[i].text = chat.messages[i].text \/ (ms[i].turn = stream.turn /\ ms[i].text = text)
        /\ ~chat.messages[i].live => ms[i].text = chat.messages[i].text
        /\ ms[i].turn = stream.turn /\ chat.messages[i].live => ms[i].text = text
  BY <1>4, <1>5
<1>8. DOMAIN ms = DOMAIN chat.messages
  BY <1>5
<1> WITNESS ms \in Seq(TabMessages)
<1> QED
  BY <1>3, <1>7, <1>8

-----------------------------------------------------------------------------
(* The steps of the chat.                                                   *)

LEMMA SameScreen ==
  ASSUME ChatShape, ScreenKnown, TurnsGoOn, UNCHANGED stream, hist'.mixed = hist.mixed,
         chat'.messages = chat.messages, chat'.open = chat.open
  PROVE  ScreenKnown'
<1> SUFFICES ASSUME ~hist.mixed
             PROVE  /\ \A i \in DOMAIN chat.messages : Shown(chat.messages[i].turn)'
                    /\ stream.phase = "waiting" => Awaited(stream.turn)'
  BY DEF ScreenKnown, Shown, Awaited, In, Begun, Failing, Waiting
<1>1. ASSUME NEW t, Shown(t) PROVE Shown(t)'
  <2>1. Failing(t)' <=> Failing(t)
    BY DEF Failing
  <2>2. Waiting(t)' <=> Waiting(t)
    BY DEF Waiting
  <2>3. In(t, chat.open) => In(t, chat.open)'
    <3>1. \A c : In(t, c) => In(t, c)'
      BY InStays
    <3>2. chat'.open = chat.open
      OBVIOUS
    <3> QED
      BY <3>1, <3>2 DEF In
  <2> QED
    BY <1>1, <2>1, <2>2, <2>3 DEF Shown
<1>2. stream.phase = "waiting" => Awaited(stream.turn)'
  <2>1. ASSUME stream.phase = "waiting"
        PROVE  /\ turns'[stream.turn].asked = chat.open
               /\ \E i \in DOMAIN chat.messages :
                    chat.messages[i].turn = stream.turn /\ chat.messages[i].live
    BY <2>1 DEF ScreenKnown, Awaited, TurnsGoOn, ChatShape
  <2> QED
    BY <2>1 DEF Awaited
<1> QED
  BY <1>1, <1>2 DEF ScreenKnown

LEMMA ShowingKnown ==
  ASSUME ChatShape, TabScreen, NEW conv, NEW messages \in Seq(TabMessages),
         Shows(conv, messages, chat.list), UNCHANGED <<stream, turns, convs>>,
         \A i \in DOMAIN messages : In(messages[i].turn, conv)
  PROVE  TabScreen' /\ ScreenKnown'
<1> PICK u : u = [chat EXCEPT !.open = conv]
  OBVIOUS
<1> PICK v : v = [u EXCEPT !.messages = messages]
  OBVIOUS
<1>1. chat' = [v EXCEPT !.list = chat.list]
  BY DEF Shows
<1>2. v = [list |-> chat.list, open |-> conv, messages |-> messages, sending |-> chat.sending]
  BY DEF ChatShape
<1>3. chat' = [list |-> chat.list, open |-> conv, messages |-> messages, sending |-> chat.sending]
  BY <1>1, <1>2
<1>4. PICK b : hist' = [hist EXCEPT !.mixed = stream.phase = "waiting", !.behind = b]
  BY DEF Shows
<1>5. hist' = [mixed |-> hist'.mixed, behind |-> hist'.behind]
      /\ (hist'.mixed <=> stream.phase = "waiting")
  BY <1>4 DEF TabScreen
<1>6. TabScreen'
  BY <1>3, <1>5 DEF TabScreen
<1>7. ASSUME NEW i \in DOMAIN messages, stream.phase # "waiting" PROVE Shown(messages[i].turn)'
  <2>1. In(messages[i].turn, conv)'
    BY DEF In, Begun
  <2> QED
    BY <1>3, <2>1 DEF Shown, In
<1> QED
  BY <1>3, <1>5, <1>6, <1>7 DEF ScreenKnown

LEMMA SendKnown ==
  ASSUME ChatShape, ScreenInv, Send
  PROVE  TabScreen' /\ ScreenKnown'
<1> PICK t, q, p : /\ t = Len(turns) + 1
                   /\ q = [turn |-> t, text |-> "question", live |-> FALSE]
                   /\ p = [turn |-> t, text |-> "pending", live |-> TRUE]
  OBVIOUS
<1> PICK old, ms : old = chat.messages /\ ms = old \o <<q, p>>
  OBVIOUS
<1>1. /\ chat' = [chat EXCEPT !.sending = TRUE, !.messages = ms]
      /\ stream' = [turn |-> t, phase |-> "waiting"] /\ ~chat.sending /\ UNCHANGED <<convs, hist>>
  BY DEF Send
<1>2. chat' = [list |-> chat.list, open |-> chat.open, messages |-> ms, sending |-> TRUE]
  BY <1>1 DEF ChatShape
<1>3. old \in Seq(TabMessages) /\ t \in Nat
  BY DEF ScreenInv, ScreenShape, TabScreen, ChatShape
<1>4. q \in TabMessages /\ p \in TabMessages /\ q.turn = t /\ p.turn = t /\ p.live
  BY <1>3 DEF TabMessages
<1>5. <<q, p>> \in Seq(TabMessages) /\ Len(<<q, p>>) = 2
  BY <1>4
<1>6. /\ ms \in Seq(TabMessages) /\ DOMAIN ms = 1..(Len(old) + 2) /\ Len(old) \in Nat
      /\ \A i \in DOMAIN old : i \in DOMAIN ms /\ ms[i] = old[i]
      /\ ms[Len(old) + 1] = q /\ ms[Len(old) + 2] = p
  BY <1>3, <1>5
<1>7. TabScreen'
  BY <1>1, <1>2, <1>6 DEF ScreenInv, ScreenShape, TabScreen
<1>8. ServerGoesOn /\ t \in DOMAIN turns' /\ turns'[t].asked = chat.open
  BY SendGoesOn
<1>9. ASSUME ~hist.mixed, NEW i \in DOMAIN ms PROVE Shown(ms[i].turn)'
  <2>1. CASE i \in DOMAIN old
    <3> PICK m : m = old[i].turn
      OBVIOUS
    <3>1. Shown(m) /\ ms[i].turn = m
      BY <1>6, <1>9, <2>1 DEF ScreenInv, ScreenKnown
    <3>2. stream.phase = "none"
      BY <1>1 DEF ScreenInv, ScreenShape, TabScreen, NoStream
    <3>3. In(m, chat.open) \/ Failing(m)
      BY <3>1, <3>2 DEF Shown, Waiting
    <3>4. Failing(m) => Failing(m)'
      BY <1>2, <1>6 DEF Failing
    <3>5. In(m, chat.open) => In(m, chat.open)'
      <4>1. \A c : In(m, c) => In(m, c)'
        BY <1>8, InStays DEF ServerGoesOn
      <4>2. chat'.open = chat.open
        BY <1>2
      <4> QED
        BY <4>1, <4>2 DEF In
    <3>6. stream'.phase # "open"
      BY <1>1
    <3> QED
      BY <3>1, <3>3, <3>4, <3>5, <3>6 DEF Shown
  <2>2. CASE i \notin DOMAIN old
    <3>1. ms[i].turn = t
      BY <1>3, <1>4, <1>6, <2>2
    <3>2. Waiting(t)' /\ stream'.phase # "open"
      BY <1>1 DEF Waiting
    <3> QED
      BY <3>1, <3>2 DEF Shown
  <2> QED
    BY <2>1, <2>2
<1>10. Awaited(t)'
  <2> PICK j : j = Len(old) + 2
    OBVIOUS
  <2>1. j \in DOMAIN ms /\ ms[j] = p
    BY <1>6
  <2>2. \E i \in DOMAIN ms : ms[i].turn = t /\ ms[i].live
    BY <1>4, <2>1, Zenon
  <2>3. chat'.messages = ms /\ chat'.open = chat.open
    BY <1>2
  <2> QED
    BY <1>8, <2>2, <2>3 DEF Awaited
<1>11. stream'.turn = t /\ chat'.messages = ms /\ hist' = hist
  BY <1>1, <1>2
<1> QED
  BY <1>7, <1>9, <1>10, <1>11 DEF ScreenKnown

LEMMA MetadataKnown ==
  ASSUME ChatShape, ScreenInv, MetadataArrives
  PROVE  TabScreen' /\ ScreenKnown'
<1> PICK t, c : t = stream.turn /\ c = turns[t].conv
  OBVIOUS
<1>1. /\ stream.phase = "waiting" /\ turns[t].pc = "answered"
      /\ chat' = [chat EXCEPT !.open = c] /\ stream' = [stream EXCEPT !.phase = "open"]
      /\ UNCHANGED <<turns, convs, hist>>
  BY DEF MetadataArrives, TurnAt, server
<1>2. chat' = [list |-> chat.list, open |-> c, messages |-> chat.messages, sending |-> chat.sending]
  BY <1>1 DEF ChatShape
<1>3. stream' = [turn |-> t, phase |-> "open"]
  BY <1>1 DEF ChatShape
<1>4. TabScreen'
  <2>1. chat.sending
    BY <1>1 DEF ScreenInv, ScreenShape, TabScreen, NoStream
  <2> QED
    BY <1>1, <1>2, <2>1 DEF ScreenInv, ScreenShape, TabScreen
<1>5. In(t, c) /\ turns[t].asked \in {NoConv, c}
  BY <1>1 DEF ChatShape, ScreenInv, TurnsBound, In, Begun
<1>6. ASSUME ~hist.mixed, NEW i \in DOMAIN chat.messages
      PROVE  Shown(chat.messages[i].turn)'
  <2> PICK m : m = chat.messages[i].turn
    OBVIOUS
  <2>1. Shown(m) /\ turns[t].asked = chat.open
    BY <1>1, <1>6 DEF ScreenInv, ScreenKnown, Awaited
  <2>2. CASE m = t
    BY <1>1, <1>2, <1>5, <2>2 DEF Shown, In, Begun
  <2>3. CASE m # t /\ Failing(m)
    BY <1>2, <1>3, <2>3 DEF Shown, Failing
  <2>4. CASE m # t /\ In(m, chat.open)
    <3>1. chat.open # NoConv
      BY <2>4 DEF ScreenInv, TurnsBound, In, Begun
    <3>2. chat.open = c
      BY <1>5, <2>1, <3>1
    <3> QED
      BY <1>1, <1>2, <1>3, <2>4, <3>2 DEF Shown, In, Begun
  <2> QED
    BY <2>1, <2>2, <2>3, <2>4 DEF Shown, Waiting
<1> QED
  BY <1>1, <1>2, <1>3, <1>4, <1>6 DEF ScreenKnown

LEMMA AnswerKnown ==
  ASSUME ChatShape, ScreenInv, AnswerArrives
  PROVE  TabScreen' /\ ScreenKnown'
<1>1. TabScreen
  BY DEF ScreenInv, ScreenShape
<1>2. PICK ms \in Seq(TabMessages) :
        /\ chat' = [list |-> chat.list, open |-> chat.open, messages |-> ms,
                    sending |-> chat.sending]
        /\ DOMAIN ms = DOMAIN chat.messages
        /\ \A i \in DOMAIN ms :
             /\ ms[i].turn = chat.messages[i].turn
             /\ ms[i].text = chat.messages[i].text
                \/ (ms[i].turn = stream.turn /\ ms[i].text = "answer")
  BY <1>1, WritesTells DEF AnswerArrives
<1>3. /\ stream.phase = "open" /\ stream' = [stream EXCEPT !.phase = "listing"]
      /\ UNCHANGED <<turns, convs, hist>>
  BY DEF AnswerArrives, server
<1>4. stream' = [turn |-> stream.turn, phase |-> "listing"]
  BY <1>3 DEF ChatShape
<1>5. TabScreen'
  <2>1. chat.sending
    BY <1>1, <1>3 DEF TabScreen, NoStream
  <2> QED
    BY <1>1, <1>2, <1>3, <2>1 DEF TabScreen
<1>6. ASSUME ~hist.mixed, NEW i \in DOMAIN ms
      PROVE  Shown(ms[i].turn)'
  <2> PICK m : m = ms[i].turn
    OBVIOUS
  <2>1. Shown(m)
    BY <1>2, <1>6 DEF ScreenInv, ScreenKnown
  <2>2. CASE In(m, chat.open)
    BY <1>2, <1>3, <1>4, <2>2 DEF Shown, In, Begun
  <2>3. CASE Failing(m) /\ m # stream.turn
    <3>1. Failing(m)'
      <4>1. PICK j \in DOMAIN chat.messages :
              chat.messages[j].turn = m /\ chat.messages[j].text = "error"
        BY <2>3 DEF Failing
      <4>2. j \in DOMAIN ms /\ ms[j].turn = m /\ ms[j].text = "error"
        BY <1>2, <2>3, <4>1
      <4> QED
        BY <1>2, <4>2 DEF Failing
    <3> QED
      BY <1>4, <3>1 DEF Shown
  <2> QED
    BY <1>3, <2>1, <2>2, <2>3 DEF Shown, Waiting
<1> QED
  BY <1>2, <1>3, <1>4, <1>5, <1>6 DEF ScreenKnown

LEMMA ListedKnown ==
  ASSUME ChatShape, ScreenInv, TurnListed
  PROVE  TabScreen' /\ ScreenKnown'
<1>1. /\ stream.phase = "listing" /\ chat' = [chat EXCEPT !.sending = FALSE, !.list = ListOf(stored)]
      /\ stream' = NoStream /\ UNCHANGED <<turns, convs, hist>>
  BY DEF TurnListed, Finished, server
<1>2. chat' = [list |-> ListOf(stored), open |-> chat.open, messages |-> chat.messages,
               sending |-> FALSE]
  BY <1>1 DEF ChatShape
<1>3. TabScreen'
  BY <1>1, <1>2 DEF ScreenInv, ScreenShape, TabScreen, ListOf
<1>4. stream'.phase = "none"
  BY <1>1 DEF NoStream
<1>5. ASSUME ~hist.mixed, NEW i \in DOMAIN chat.messages
      PROVE  Shown(chat.messages[i].turn)'
  <2>1. Shown(chat.messages[i].turn)
    BY <1>5 DEF ScreenInv, ScreenKnown
  <2> QED
    BY <1>1, <1>2, <1>4, <2>1 DEF Shown, In, Begun, Failing, Waiting
<1> QED
  BY <1>1, <1>2, <1>3, <1>4, <1>5 DEF ScreenKnown

LEMMA StreamFailsKnown ==
  ASSUME ChatShape, ScreenInv, StreamFails
  PROVE  TabScreen' /\ ScreenKnown'
<1>1. TabScreen
  BY DEF ScreenInv, ScreenShape
<1>2. PICK ms \in Seq(TabMessages) :
        /\ Writes("error") = [list |-> chat.list, open |-> chat.open, messages |-> ms,
                              sending |-> chat.sending]
        /\ DOMAIN ms = DOMAIN chat.messages
        /\ \A i \in DOMAIN ms :
             /\ ms[i].turn = chat.messages[i].turn
             /\ ms[i].text = chat.messages[i].text
                \/ (ms[i].turn = stream.turn /\ ms[i].text = "error")
             /\ ms[i].turn = stream.turn /\ chat.messages[i].live => ms[i].text = "error"
  BY <1>1, WritesTells
<1>3. /\ chat' = [Writes("error") EXCEPT !.sending = FALSE] /\ stream' = NoStream
      /\ UNCHANGED <<turns, convs, hist>>
  BY DEF StreamFails, Finished, server
<1> PICK w : w = Writes("error")
  OBVIOUS
<1>4. chat' = [list |-> chat.list, open |-> chat.open, messages |-> ms, sending |-> FALSE]
  <2>1. chat' = [w EXCEPT !.sending = FALSE]
    BY <1>3
  <2>2. w = [list |-> chat.list, open |-> chat.open, messages |-> ms, sending |-> chat.sending]
    BY <1>2
  <2>3. chat' = [[list |-> chat.list, open |-> chat.open, messages |-> ms,
                  sending |-> chat.sending] EXCEPT !.sending = FALSE]
    BY <2>1, <2>2, Zenon
  <2> QED
    BY <2>3
<1>5. TabScreen'
  BY <1>1, <1>3, <1>4 DEF TabScreen
<1>6. stream'.phase = "none"
  BY <1>3 DEF NoStream
<1>7. ASSUME ~hist.mixed, NEW i \in DOMAIN ms
      PROVE  Shown(ms[i].turn)'
  <2> PICK m : m = ms[i].turn
    OBVIOUS
  <2>1. Shown(m)
    BY <1>2, <1>7 DEF ScreenInv, ScreenKnown
  <2>2. CASE In(m, chat.open)
    BY <1>3, <1>4, <1>6, <2>2 DEF Shown, In, Begun
  <2>3. CASE Failing(m)
    <3>1. PICK j \in DOMAIN chat.messages :
            chat.messages[j].turn = m /\ chat.messages[j].text = "error"
      BY <2>3 DEF Failing
    <3>2. j \in DOMAIN ms /\ ms[j].turn = m /\ ms[j].text = "error"
      BY <1>2, <3>1
    <3> QED
      BY <1>4, <1>6, <3>2 DEF Shown, Failing
  <2>4. CASE Waiting(m)
    <3>1. Awaited(m)
      BY <1>7, <2>4 DEF ScreenInv, ScreenKnown, Waiting
    <3>2. PICK j \in DOMAIN chat.messages : chat.messages[j].turn = m /\ chat.messages[j].live
      BY <3>1 DEF Awaited
    <3>3. j \in DOMAIN ms /\ ms[j].turn = m /\ ms[j].text = "error"
      BY <1>2, <2>4, <3>2 DEF Waiting
    <3> QED
      BY <1>4, <1>6, <3>3 DEF Shown, Failing
  <2> QED
    BY <2>1, <2>2, <2>3, <2>4 DEF Shown
<1> QED
  BY <1>3, <1>4, <1>5, <1>6, <1>7 DEF ScreenKnown

(* The steps that leave the screen as it is.                                *)
LEMMA QuietKnown ==
  ASSUME ChatShape, ScreenInv, ServerGoesOn, UNCHANGED <<chat, stream>>,
         hist' = hist \/ \E b : hist' = [hist EXCEPT !.behind = b]
  PROVE  TabScreen' /\ ScreenKnown'
<1>1. hist' = [mixed |-> hist'.mixed, behind |-> hist'.behind] /\ hist'.mixed = hist.mixed
  BY DEF ScreenInv, ScreenShape, TabScreen
<1>2. TabScreen'
  BY <1>1 DEF ScreenInv, ScreenShape, TabScreen, ServerGoesOn
<1> QED
  BY <1>1, <1>2, SameScreen DEF ScreenInv, ServerGoesOn

LEMMA ChatStepKnown ==
  ASSUME ChatShape, CallsInv, ScreenInv, ChatStep
  PROVE  ServerGoesOn /\ TabScreen' /\ ScreenKnown'
<1> USE DEF server
<1>1. CASE NewConversation
  <2>1. Shows(NoConv, <<>>, chat.list) /\ UNCHANGED <<stream, turns, convs>>
    BY <1>1 DEF NewConversation
  <2>2. <<>> \in Seq(TabMessages) /\ DOMAIN <<>> = {}
    OBVIOUS
  <2>3. TabScreen
    BY DEF ScreenInv, ScreenShape
  <2> QED
    BY <2>1, <2>2, <2>3, SameTables, ShowingKnown
<1>2. CASE Send
  BY <1>2, SendGoesOn, SendKnown
<1>3. ASSUME NEW kind, NEW c, Click(kind, c)
      PROVE  ServerGoesOn /\ TabScreen' /\ ScreenKnown'
  <2>1. UNCHANGED <<turns, convs, chat, stream, hist>>
    BY <1>3 DEF Click
  <2> QED
    BY <2>1, SameTables, QuietKnown
<1>4. ASSUME NEW r \in calls, Serve(r)
      PROVE  ServerGoesOn /\ TabScreen' /\ ScreenKnown'
  <2>1. UNCHANGED <<chat, stream, hist>>
    BY <1>4 DEF Serve
  <2> QED
    BY <1>4, <2>1, ServeGoesOn, QuietKnown
<1>5. ASSUME NEW r \in calls, Opened(r)
      PROVE  ServerGoesOn /\ TabScreen' /\ ScreenKnown'
  <2>1. Shows(r.conv, r.messages, chat.list) /\ UNCHANGED <<stream, turns, convs>>
    BY <1>5 DEF Opened
  <2>2. /\ TabScreen /\ r.messages \in Seq(TabMessages)
        /\ \A i \in DOMAIN r.messages : In(r.messages[i].turn, r.conv)
    BY DEF ScreenInv, ScreenShape, AnswersBound
  <2> QED
    BY <2>1, <2>2, SameTables, ShowingKnown
<1>6. ASSUME NEW r \in calls, Removed(r)
      PROVE  ServerGoesOn /\ TabScreen' /\ ScreenKnown'
  <2>1. UNCHANGED <<stream, turns, convs>>
    BY <1>6 DEF Removed
  <2>2. CASE Shows(NoConv, <<>>, chat.list)
    <3>1. <<>> \in Seq(TabMessages) /\ DOMAIN <<>> = {}
      OBVIOUS
    <3>2. TabScreen
      BY DEF ScreenInv, ScreenShape
    <3> QED
      BY <2>1, <2>2, <3>1, <3>2, SameTables, ShowingKnown
  <2>3. CASE UNCHANGED <<chat, hist>>
    BY <2>1, <2>3, SameTables, QuietKnown
  <2> QED
    BY <1>6, <2>2, <2>3 DEF Removed
<1>7. ASSUME NEW r \in calls, ListArrives(r)
      PROVE  ServerGoesOn /\ TabScreen' /\ ScreenKnown'
  <2>1. /\ chat' = [chat EXCEPT !.list = ListOf(r.token)]
        /\ UNCHANGED <<stream, turns, convs, hist>>
    BY <1>7 DEF ListArrives
  <2>2. chat' = [list |-> ListOf(r.token), open |-> chat.open, messages |-> chat.messages,
                 sending |-> chat.sending]
    BY <2>1 DEF ChatShape
  <2>3. ServerGoesOn
    BY <2>1, SameTables
  <2>4. TabScreen'
    BY <2>1, <2>2 DEF ScreenInv, ScreenShape, TabScreen, ListOf
  <2>5. ScreenKnown'
    BY <2>1, <2>2, <2>3, SameScreen DEF ScreenInv, ServerGoesOn
  <2> QED
    BY <2>3, <2>4, <2>5
<1>8. ASSUME NEW r \in calls, CallFails(r)
      PROVE  ServerGoesOn /\ TabScreen' /\ ScreenKnown'
  <2>1. UNCHANGED <<turns, convs, chat, stream, hist>>
    BY <1>8 DEF CallFails
  <2> QED
    BY <2>1, SameTables, QuietKnown
<1>9. ASSUME NEW t \in DOMAIN turns, Bind(t)
      PROVE  ServerGoesOn /\ TabScreen' /\ ScreenKnown'
  <2>1. UNCHANGED <<chat, stream, hist>>
    BY <1>9 DEF Bind
  <2> QED
    BY <1>9, <2>1, BindGoesOn, QuietKnown
<1>10. ASSUME NEW t \in DOMAIN turns, StoreQuestion(t) \/ StoreAnswer(t)
       PROVE  ServerGoesOn /\ TabScreen' /\ ScreenKnown'
  <2>1. /\ UNCHANGED <<chat, stream>>
        /\ \E b : hist' = [hist EXCEPT !.behind = b]
    BY <1>10 DEF StoreQuestion, StoreAnswer, Store
  <2>2. ServerGoesOn
    BY <1>10, StoreGoesOn DEF StoreQuestion, StoreAnswer
  <2> QED
    BY <2>1, <2>2, QuietKnown
<1>11. CASE MetadataArrives
  BY <1>11, SameTables, MetadataKnown DEF MetadataArrives
<1>12. CASE AnswerArrives
  BY <1>12, SameTables, AnswerKnown DEF AnswerArrives
<1>13. CASE TurnListed
  BY <1>13, SameTables, ListedKnown DEF TurnListed
<1>14. CASE StreamFails
  BY <1>14, SameTables, StreamFailsKnown DEF StreamFails
<1> QED
  BY <1>1, <1>2, <1>3, <1>4, <1>5, <1>6, <1>7, <1>8, <1>9, <1>10, <1>11, <1>12, <1>13, <1>14
  DEF ChatStep

LEMMA ScreenKept ==
  ASSUME ChatShape, CallsInv, ScreenInv, CallsGrow, Next
  PROVE  ScreenInv'
<1>1. ServerGoesOn /\ TabScreen' /\ ScreenKnown'
  <2>1. CASE ChatStep
    BY <2>1, ChatStepKnown
  <2>2. CASE ChatFollows
    <3>1. UNCHANGED <<server, chat, stream, hist>>
      BY <2>2 DEF ChatFollows
    <3> QED
      BY <3>1, SameTables, QuietKnown
  <2>3. CASE ChatLost
    <3>1. UNCHANGED server /\ chat' = EmptyChat /\ stream' = NoStream /\ hist' = NoAccident
      BY <2>3 DEF ChatLost
    <3>2. ServerGoesOn
      BY <3>1, SameTables
    <3>3. /\ chat'.messages = <<>> /\ chat'.list = {} /\ stream'.phase = "none"
          /\ hist' = [mixed |-> hist'.mixed, behind |-> hist'.behind]
      BY <3>1 DEF EmptyChat, NoStream, NoAccident
    <3>4. <<>> \in Seq(TabMessages) /\ DOMAIN <<>> = {}
      OBVIOUS
    <3> QED
      BY <3>1, <3>2, <3>3, <3>4 DEF TabScreen, ScreenKnown
  <2> QED
    BY <2>1, <2>2, <2>3 DEF Next
<1>2. /\ AnswersBound' /\ \A r \in calls' : r.messages \in Seq(TabMessages)
      /\ \A r \in calls' : r.kind = "list" \/ r.conv \in DOMAIN convs'
  BY <1>1, CallsBring
<1> QED
  BY <1>1, <1>2 DEF ScreenInv, ScreenShape, ServerGoesOn

LEMMA ScreenSays ==
  ASSUME ChatShape, ScreenInv
  PROVE  ShownIsOpen
<1> SUFFICES ASSUME ~hist.mixed, NEW i \in DOMAIN chat.messages, NEW m, m = chat.messages[i]
             PROVE  \/ turns[m.turn].conv = chat.open
                    \/ Failing(m.turn)
                    \/ stream = [turn |-> m.turn, phase |-> "waiting"]
                       /\ turns[m.turn].asked = chat.open
  BY DEF ShownIsOpen, OfTurn
<1>1. Shown(m.turn) /\ (stream.phase = "waiting" => Awaited(stream.turn))
  BY DEF ScreenInv, ScreenKnown
<1>2. CASE Waiting(m.turn)
  BY <1>1, <1>2 DEF Waiting, Awaited, ChatShape
<1> QED
  BY <1>1, <1>2 DEF Shown, In

-----------------------------------------------------------------------------
(* The page of the knowledge bases.                                         *)

IsView(v) ==
  v = [bases |-> v.bases, active |-> v.active, rows |-> v.rows, of |-> v.of,
       timer |-> v.timer, deleting |-> v.deleting, last |-> v.last]
DocsShape ==
  /\ \E S : docs \in Seq(S)
  /\ \A d \in DOMAIN docs : docs[d] = [base |-> docs[d].base, state |-> docs[d].state]
PageShape ==
  /\ IsView(view) /\ DocsShape
  /\ khist = [strayed |-> khist.strayed, unwatched |-> khist.unwatched, drifted |-> khist.drifted]

(* A chain that will watch a document knows one that was uploaded to the    *)
(* active base, as long as that has not changed; "Pending" are those whose  *)
(* upload was answered.                                                     *)
Polls == {"bases>poll", "poll"}
Pending(r) == r.then \in Polls \/ (r.kind = "upload" /\ r.status = "ok")
Uploaded(d, b) == d \in DOMAIN docs /\ (~khist.drifted => docs[d].base = b)
ChainKnown(r) ==
  /\ ~Reads(r) => r.then = "end"
  /\ Pending(r) => Uploaded(r.arg, view.active)
  /\ r.kind = "upload" /\ ~khist.drifted => r.base = view.active
ChainsKnown == \A r \in chains : ChainKnown(r)

TimerKnown ==
  /\ view.timer # NoTimer => Uploaded(view.timer.doc, view.timer.base)
  /\ view.last # 0 => view.last \in DOMAIN docs

(* Unless something strayed, documents are asked for the active base only,  *)
(* and those shown are its own or about to be replaced.                     *)
RowsKnown ==
  ~khist.strayed =>
    /\ \A r \in chains : Fetching(r) => r.base = view.active
    /\ view.rows = {} \/ view.of = view.active \/ \E r \in chains : r.kind = "documents"

PageInv == PageShape /\ ChainsKnown /\ TimerKnown /\ WatchedUntilSettled /\ RowsKnown

(* What every step of the page does to the documents: they stay in their    *)
(* bases, and none is queued again; and to the history.                     *)
DocsGoOn ==
  \A d \in DOMAIN docs : /\ d \in DOMAIN docs' /\ docs'[d].base = docs[d].base
                         /\ docs'[d].state = "queued" => docs[d].state = "queued"
DriftsWithUploads ==
  ~khist'.drifted =>
    ~khist.drifted /\ (view'.active # view.active => \A r \in chains : ~Uploading(r))

LEMMA UploadedStays ==
  ASSUME DocsGoOn, ~khist'.drifted => ~khist.drifted, NEW d, NEW b, Uploaded(d, b)
  PROVE  Uploaded(d, b)'
BY DEF DocsGoOn, Uploaded

LEMMA ChainsStay ==
  ASSUME ChainsKnown, DocsGoOn, DriftsWithUploads, NEW r \in chains
  PROVE  ChainKnown(r)'
<1>1. ChainKnown(r)
  BY DEF ChainsKnown
<1>2. (Pending(r))' = Pending(r) /\ (Reads(r))' = Reads(r)
  BY DEF Pending, Reads, Polls
<1>3. ASSUME Pending(r) PROVE Uploaded(r.arg, view.active)'
  <2>1. r.arg \in DOMAIN docs /\ (~khist.drifted => docs[r.arg].base = view.active)
    BY <1>1, <1>3 DEF ChainKnown, Uploaded
  <2>2. Uploading(r)
    BY <1>3 DEF Pending, Uploading, Polls
  <2>3. ~khist'.drifted => ~khist.drifted /\ view'.active = view.active
    BY <2>2 DEF DriftsWithUploads
  <2> QED
    BY <2>1, <2>3 DEF Uploaded, DocsGoOn
<1>4. ASSUME r.kind = "upload", ~khist'.drifted PROVE r.base = view'.active
  <2>1. Uploading(r)
    BY <1>4 DEF Uploading
  <2>2. ~khist.drifted /\ view'.active = view.active
    BY <1>4, <2>1 DEF DriftsWithUploads
  <2> QED
    BY <1>1, <1>4, <2>2 DEF ChainKnown
<1> QED
  BY <1>1, <1>2, <1>3, <1>4 DEF ChainKnown

(* A step that does not set the timer, and stops it only when that is       *)
(* remembered or the document is settled.                                   *)
LEMMA TimerStays ==
  ASSUME TimerKnown, WatchedUntilSettled, DocsGoOn, ~khist'.drifted => ~khist.drifted,
         view'.last = view.last, view'.timer \in {view.timer, NoTimer},
         view.last # 0 /\ docs[view.last].state = "queued" /\ ~khist'.unwatched
           => ~khist.unwatched /\ view'.timer = view.timer
  PROVE  TimerKnown' /\ WatchedUntilSettled'
<1>1. TimerKnown'
  <2>1. ASSUME view'.timer # NoTimer PROVE Uploaded(view.timer.doc, view.timer.base)'
    <3>1. view'.timer = view.timer /\ Uploaded(view.timer.doc, view.timer.base)
      BY <2>1 DEF TimerKnown
    <3>2. view.timer.doc \in DOMAIN docs
          /\ (~khist.drifted => docs[view.timer.doc].base = view.timer.base)
      BY <3>1 DEF Uploaded
    <3> QED
      BY <3>1, <3>2 DEF Uploaded, DocsGoOn
  <2>2. view'.last # 0 => view'.last \in DOMAIN docs'
    BY DEF TimerKnown, DocsGoOn
  <2>3. view'.timer # NoTimer => view'.timer = view.timer
    OBVIOUS
  <2> QED
    BY <2>1, <2>2, <2>3 DEF TimerKnown, NoTimer, NoBase
<1>2. WatchedUntilSettled'
  BY DEF WatchedUntilSettled, TimerKnown, DocsGoOn
<1> QED
  BY <1>1, <1>2

LEMMA MishapsTell ==
  ASSUME NEW strayed, NEW unwatched, khist' = Mishaps(strayed, unwatched)
  PROVE  /\ khist' = [strayed |-> khist'.strayed, unwatched |-> khist'.unwatched,
                      drifted |-> khist'.drifted]
         /\ ~khist'.strayed => ~strayed /\ \A r \in chains' : Fetching(r) => r.base = view'.active
         /\ ~khist'.unwatched => ~unwatched
         /\ DriftsWithUploads
<1>1. /\ khist'.strayed = (strayed \/ \E r \in chains' : Fetching(r) /\ r.base # view'.active)
      /\ khist'.unwatched = unwatched
      /\ khist'.drifted = (khist.drifted
                           \/ (view'.active # view.active /\ \E r \in chains : Uploading(r)))
  BY DEF Mishaps
<1>2. khist' = [strayed |-> khist'.strayed, unwatched |-> khist'.unwatched,
                drifted |-> khist'.drifted]
  BY DEF Mishaps
<1> QED
  BY <1>1, <1>2 DEF DriftsWithUploads

(* What the server does to the documents.                                   *)
LEMMA HandleKeepsDocs ==
  ASSUME DocsShape, NEW r \in chains, Handle(r)
  PROVE  /\ DocsShape' /\ DocsGoOn
         /\ r.kind = "upload" /\ Reply(r).status = "ok" =>
              Len(docs) + 1 \in DOMAIN docs' /\ docs'[Len(docs) + 1].base = r.base
<1> PICK S : docs \in Seq(S)
  BY DEF DocsShape
<1>1. \A d \in DOMAIN docs : docs[d] = [base |-> docs[d].base, state |-> docs[d].state]
  BY DEF DocsShape
<1>2. CASE Reply(r).status # "ok"
  <2>1. docs' = docs
    BY <1>2 DEF Handle, tables
  <2> QED
    BY <1>1, <1>2, <2>1 DEF DocsShape, DocsGoOn
<1>3. CASE Reply(r).status = "ok" /\ r.kind = "upload"
  <2> PICK e : e = [base |-> r.base, state |-> "queued"]
    OBVIOUS
  <2>1. docs' = Append(docs, e)
    BY <1>3 DEF Handle, Changes
  <2>2. docs \in Seq(S \cup {e}) /\ e \in S \cup {e}
    BY SeqDef
  <2>3. /\ docs' \in Seq(S \cup {e}) /\ DOMAIN docs' = DOMAIN docs \cup {Len(docs) + 1}
        /\ \A d \in DOMAIN docs : docs'[d] = docs[d]
        /\ docs'[Len(docs) + 1] = e
    BY <2>1, <2>2
  <2>4. DocsShape'
    BY <1>1, <2>3 DEF DocsShape
  <2> QED
    BY <2>3, <2>4 DEF DocsGoOn
<1>4. CASE Reply(r).status = "ok" /\ r.kind # "upload"
  <2> DEFINE Gone(d) == \/ r.kind = "deleteFile" /\ d = r.arg
                        \/ r.kind = "deleteBase" /\ docs[d].base = r.base
  <2>1. docs' = [d \in DOMAIN docs |->
                   IF Gone(d) THEN [docs[d] EXCEPT !.state = "deleted"] ELSE docs[d]]
    BY <1>4 DEF Handle, Changes
  <2> HIDE DEF Gone
  <2>2. DOMAIN docs' = DOMAIN docs
    BY <2>1
  <2>3. ASSUME NEW d \in DOMAIN docs
        PROVE  /\ docs'[d] = [base |-> docs[d].base, state |-> docs'[d].state]
               /\ docs'[d].base = docs[d].base
               /\ docs'[d].state = "queued" => docs[d].state = "queued"
    <3>1. docs[d] = [base |-> docs[d].base, state |-> docs[d].state]
      BY <1>1
    <3>2. CASE Gone(d)
      <4>1. docs'[d] = [base |-> docs[d].base, state |-> "deleted"]
        BY <2>1, <3>1, <3>2
      <4> QED
        BY <4>1
    <3>3. CASE ~Gone(d)
      BY <2>1, <3>1, <3>3
    <3> QED
      BY <3>2, <3>3
  <2>4. docs' \in Seq({docs'[d] : d \in DOMAIN docs})
    <3>1. DOMAIN docs = 1..Len(docs) /\ Len(docs) \in Nat
      OBVIOUS
    <3>2. docs' = [d \in 1..Len(docs) |-> docs'[d]]
      BY <2>1, <3>1
    <3>3. docs' \in [1..Len(docs) -> {docs'[d] : d \in DOMAIN docs}]
      BY <3>1, <3>2
    <3> QED
      BY <3>1, <3>3, SeqDef
  <2>5. DocsShape'
    BY <2>2, <2>3, <2>4 DEF DocsShape
  <2> QED
    BY <1>4, <2>2, <2>3, <2>5 DEF DocsGoOn
<1> QED
  BY <1>2, <1>3, <1>4

LEMMA SettleKeepsDocs ==
  ASSUME DocsShape, NEW e \in DOMAIN docs, Settle(e)
  PROVE  DocsShape' /\ DocsGoOn
<1> PICK S : docs \in Seq(S)
  BY DEF DocsShape
<1> PICK y : y = [base |-> docs[e].base, state |-> "settled"]
  OBVIOUS
<1>1. docs' = [docs EXCEPT ![e] = y]
  <2>1. docs[e] = [base |-> docs[e].base, state |-> docs[e].state]
    BY DEF DocsShape
  <2>2. [docs[e] EXCEPT !.state = "settled"] = y
    BY <2>1
  <2> QED
    BY <2>2 DEF Settle
<1>2. docs \in Seq(S \cup {y}) /\ y \in S \cup {y}
  BY SeqDef
<1>3. /\ docs' \in Seq(S \cup {y}) /\ DOMAIN docs' = DOMAIN docs /\ docs'[e] = y
      /\ \A d \in DOMAIN docs : d # e => docs'[d] = docs[d]
  BY <1>1, <1>2
<1>4. DocsShape'
  BY <1>3 DEF DocsShape
<1> QED
  BY <1>3, <1>4 DEF DocsGoOn

-----------------------------------------------------------------------------
(* What an answer does to the page, and the calls that follow it.           *)

(* A chain goes on with a call for the bases, or for the documents of the   *)
(* base that is active by then; it watches the document it did before.      *)
GoesOn(q, active, arg, watching) ==
  /\ q.kind \in {"bases", "documents"}
  /\ q.kind = "documents" => q.base = active
  /\ q.then \in Polls => q.arg = arg /\ watching

TimerSet(v, o, arg) ==
  o.view.active = v.active /\ o.view.timer = [base |-> v.active, doc |-> arg] /\ o.view.last = arg

FollowsCall(v, then, arg, o) ==
  /\ IsView(o.view) /\ o.view.rows = v.rows /\ o.view.of = v.of
  /\ o.view.active # v.active => \E q \in o.calls : q.kind = "documents"
  /\ (o.view.timer = v.timer /\ o.view.last = v.last) \/ (then \in Polls /\ TimerSet(v, o, arg))
  /\ \A q \in o.calls : GoesOn(q, o.view.active, arg, then \in Polls)

LEMMA RequestSays ==
  ASSUME NEW kind, NEW base, NEW arg, NEW then
  PROVE  /\ Request(kind, base, arg, then).kind = kind /\ Request(kind, base, arg, then).base = base
         /\ Request(kind, base, arg, then).arg = arg /\ Request(kind, base, arg, then).then = then
         /\ Request(kind, base, arg, then).status = "sent"
BY DEF Request

LEMMA AfterTells ==
  ASSUME NEW v, IsView(v), NEW then \in Continuations, NEW arg
  PROVE  FollowsCall(v, then, arg, After(v, then, arg))
<1> USE DEF Then
<1> PICK o : o = After(v, then, arg)
  OBVIOUS
<1>1. CASE then \in {"end", "timer"}
  <2>1. o.view = v /\ o.calls = {}
    BY <1>1 DEF After
  <2> QED
    BY <2>1 DEF FollowsCall
<1>2. CASE then = "bases" \/ then = "bases>poll"
  <2> PICK next : next = IF then = "bases" THEN "end" ELSE "poll"
    OBVIOUS
  <2> PICK q : q = Request("bases", NoBase, arg, next)
    OBVIOUS
  <2>1. o.view = v /\ o.calls = {q}
    BY <1>2 DEF After
  <2>2. GoesOn(q, v.active, arg, then \in Polls)
    BY <1>2, RequestSays DEF GoesOn, Polls
  <2> QED
    BY <2>1, <2>2 DEF FollowsCall
<1>3. CASE then = "select"
  <2> PICK w : w = [v EXCEPT !.active = arg]
    OBVIOUS
  <2> PICK q : q = Request("documents", arg, arg, "end")
    OBVIOUS
  <2>1. o.view = w /\ o.calls = {q}
    BY <1>3 DEF After
  <2>2. w = [bases |-> v.bases, active |-> arg, rows |-> v.rows, of |-> v.of,
             timer |-> v.timer, deleting |-> v.deleting, last |-> v.last]
    BY DEF IsView
  <2>3. GoesOn(q, arg, arg, then \in Polls) /\ q.kind = "documents"
    BY RequestSays DEF GoesOn, Polls
  <2>4. IsView(w) /\ w.rows = v.rows /\ w.of = v.of /\ w.active = arg
        /\ w.timer = v.timer /\ w.last = v.last
    BY <2>2 DEF IsView
  <2> QED
    BY <2>1, <2>3, <2>4 DEF FollowsCall
<1>4. CASE then = "poll"
  <2> PICK t : t = [base |-> v.active, doc |-> arg]
    OBVIOUS
  <2> PICK u : u = [v EXCEPT !.timer = t]
    OBVIOUS
  <2> PICK w : w = [u EXCEPT !.last = arg]
    OBVIOUS
  <2>1. o.view = w /\ o.calls = {}
    BY <1>4 DEF After, Watch
  <2>2. u = [bases |-> v.bases, active |-> v.active, rows |-> v.rows, of |-> v.of,
             timer |-> t, deleting |-> v.deleting, last |-> v.last]
    BY DEF IsView
  <2>3. w = [bases |-> v.bases, active |-> v.active, rows |-> v.rows, of |-> v.of,
             timer |-> t, deleting |-> v.deleting, last |-> arg]
    BY <2>2
  <2>4. IsView(w) /\ w.rows = v.rows /\ w.of = v.of /\ w.active = v.active
        /\ w.timer = t /\ w.last = arg
    BY <2>3 DEF IsView
  <2> QED
    BY <1>4, <2>1, <2>4 DEF FollowsCall, TimerSet, Polls
<1>5. CASE then = "deleted"
  <2> PICK w : w = [v EXCEPT !.deleting = NoBase]
    OBVIOUS
  <2>1. o.view = w /\ o.calls = {}
    BY <1>5 DEF After
  <2>2. w = [bases |-> v.bases, active |-> v.active, rows |-> v.rows, of |-> v.of,
             timer |-> v.timer, deleting |-> NoBase, last |-> v.last]
    BY DEF IsView
  <2>3. IsView(w) /\ w.rows = v.rows /\ w.of = v.of /\ w.active = v.active
        /\ w.timer = v.timer /\ w.last = v.last
    BY <2>2 DEF IsView
  <2> QED
    BY <2>1, <2>3 DEF FollowsCall
<1> QED
  BY <1>1, <1>2, <1>3, <1>4, <1>5 DEF Continuations

(* An answer changes the active base only to ask for its documents, or to   *)
(* close it; it replaces the rows by those it brings; and it ends the timer *)
(* only when it brings a document that is settled.                          *)
Result(r, o) ==
  /\ IsView(o.view)
  /\ o.view.active # view.active =>
       o.view.rows = {} \/ \E q \in o.calls : q.kind = "documents"
  /\ \/ ~Fetching(r) /\ o.view.rows = view.rows /\ o.view.of = view.of
     \/ ~Fetching(r) /\ o.view.rows = {}
     \/ Fetching(r) /\ o.view.of = r.base
  /\ \/ o.view.timer = view.timer /\ o.view.last = view.last
     \/ r.then \in Polls /\ TimerSet(view, o, r.arg)
     \/ r.kind = "poll" /\ IsSettled(r) /\ o.view.timer = NoTimer /\ o.view.last = view.last
  /\ \A q \in o.calls : GoesOn(q, o.view.active, r.arg, Uploading(r))

LEMMA OutcomeTells ==
  ASSUME IsView(view), NEW r, ChainShape(r)
  PROVE  Result(r, Outcome(r))
<1>1. r.then \in Continuations /\ (r.then \in Polls => Uploading(r))
  BY DEF ChainShape, Uploading, Polls
<1>2. /\ ShowRows(r) = [bases |-> view.bases, active |-> view.active, rows |-> RowsOf(r.base),
                        of |-> r.base, timer |-> view.timer, deleting |-> view.deleting,
                        last |-> view.last]
      /\ IsView(ShowRows(r))
  <2>1. ShowRows(r) = [bases |-> view.bases, active |-> view.active, rows |-> RowsOf(r.base),
                       of |-> r.base, timer |-> view.timer, deleting |-> view.deleting,
                       last |-> view.last]
    <3> PICK u : u = [view EXCEPT !.rows = RowsOf(r.base)]
      OBVIOUS
    <3>1. u = [bases |-> view.bases, active |-> view.active, rows |-> RowsOf(r.base),
               of |-> view.of, timer |-> view.timer, deleting |-> view.deleting,
               last |-> view.last]
      BY DEF IsView
    <3>2. ShowRows(r) = [u EXCEPT !.of = r.base]
      BY DEF ShowRows
    <3> QED
      BY <3>1, <3>2
  <2> QED
    BY <2>1 DEF IsView
<1>3. CASE r.kind = "documents"
  <2> PICK v, o : v = ShowRows(r) /\ o = After(v, r.then, r.arg)
    OBVIOUS
  <2>1. Outcome(r) = o /\ FollowsCall(v, r.then, r.arg, o)
    BY <1>1, <1>2, <1>3, AfterTells DEF Outcome
  <2>2. /\ v.active = view.active /\ v.of = r.base
        /\ v.timer = view.timer /\ v.last = view.last
    BY <1>2
  <2>3. Fetching(r)
    BY <1>3 DEF Fetching
  <2>4. \A q \in o.calls : GoesOn(q, o.view.active, r.arg, Uploading(r))
    BY <1>1, <2>1 DEF FollowsCall, GoesOn
  <2> QED
    BY <2>1, <2>2, <2>3, <2>4 DEF Result, FollowsCall, TimerSet
<1>4. CASE r.kind = "poll"
  <2>1. Outcome(r) = Polled(r) /\ Fetching(r)
    BY <1>4 DEF Outcome, Fetching
  <2>2. CASE IsSettled(r)
    <3> PICK w : w = [ShowRows(r) EXCEPT !.timer = NoTimer]
      OBVIOUS
    <3> PICK q : q = Request("bases", NoBase, 0, "timer")
      OBVIOUS
    <3> PICK o : o = Outcome(r)
      OBVIOUS
    <3>1. o.view = w /\ o.calls = {q}
      BY <2>1, <2>2 DEF Polled, Then
    <3>2. w = [bases |-> view.bases, active |-> view.active, rows |-> RowsOf(r.base),
               of |-> r.base, timer |-> NoTimer, deleting |-> view.deleting, last |-> view.last]
      BY <1>2
    <3>3. GoesOn(q, view.active, r.arg, Uploading(r))
      BY RequestSays DEF GoesOn, Polls
    <3>4. w.of = r.base /\ w.active = view.active /\ w.timer = NoTimer /\ w.last = view.last
      BY <3>2
    <3>5. IsView(w)
      BY <3>2 DEF IsView
    <3> QED
      BY <1>4, <2>1, <2>2, <3>1, <3>3, <3>4, <3>5 DEF Result
  <2>3. CASE ~IsSettled(r)
    <3>1. Polled(r) = [view |-> ShowRows(r), calls |-> {}]
      BY <2>3 DEF Polled, Then
    <3> QED
      BY <1>2, <2>1, <3>1 DEF Result
  <2> QED
    BY <2>2, <2>3
<1>5. CASE r.kind = "bases"
  <2> PICK v : v = [view EXCEPT !.bases = bases]
    OBVIOUS
  <2>1. v = [bases |-> bases, active |-> view.active, rows |-> view.rows, of |-> view.of,
             timer |-> view.timer, deleting |-> view.deleting, last |-> view.last]
    BY DEF IsView
  <2>2. Outcome(r) = BasesLoaded(r) /\ ~Fetching(r) /\ IsView(v)
    BY <1>5, <2>1 DEF Outcome, Fetching, IsView
  <2>3. CASE v.active = NoBase /\ bases # {}
    <3> PICK b : b = Min(bases)
      OBVIOUS
    <3> PICK w : w = [v EXCEPT !.active = b]
      OBVIOUS
    <3> PICK q : q = Request("documents", b, r.arg, r.then)
      OBVIOUS
    <3> PICK o : o = Outcome(r)
      OBVIOUS
    <3>1. o.view = w /\ o.calls = {q}
      BY <2>2, <2>3 DEF BasesLoaded, Then
    <3>2. w = [bases |-> bases, active |-> b, rows |-> view.rows, of |-> view.of,
               timer |-> view.timer, deleting |-> view.deleting, last |-> view.last]
      BY <2>1
    <3>3. GoesOn(q, b, r.arg, Uploading(r)) /\ q.kind = "documents"
      BY <1>1, RequestSays DEF GoesOn
    <3>4. IsView(w) /\ w.rows = view.rows /\ w.of = view.of /\ w.active = b
          /\ w.timer = view.timer /\ w.last = view.last
      BY <3>2 DEF IsView
    <3> QED
      BY <2>2, <3>1, <3>3, <3>4 DEF Result
  <2>4. CASE ~(v.active = NoBase /\ bases # {})
    <3> PICK o : o = After(v, r.then, r.arg)
      OBVIOUS
    <3>1. BasesLoaded(r) = o
      BY <2>4 DEF BasesLoaded
    <3>2. FollowsCall(v, r.then, r.arg, o)
      BY <1>1, <2>2, AfterTells
    <3>3. \A q \in o.calls : GoesOn(q, o.view.active, r.arg, Uploading(r))
      BY <1>1, <3>2 DEF FollowsCall, GoesOn
    <3> QED
      BY <2>1, <2>2, <3>1, <3>2, <3>3 DEF Result, FollowsCall, TimerSet
  <2> QED
    BY <2>3, <2>4
<1>6. CASE r.kind \in {"create", "edit", "upload", "deleteFile"}
  <2>1. PICK kind, base, arg, then :
          /\ Outcome(r) = [view |-> view, calls |-> {Request(kind, base, arg, then)}]
          /\ kind \in {"bases", "documents"} /\ (kind = "documents" => base = view.active)
          /\ then \in Polls => arg = r.arg /\ r.kind = "upload"
    <3>1. CASE r.kind = "create"
      BY <3>1 DEF Outcome, Then, Polls
    <3>2. CASE r.kind = "edit"
      BY <3>2 DEF Outcome, Then, Polls
    <3>3. CASE r.kind = "upload"
      BY <3>3 DEF Outcome, Then, Polls
    <3>4. CASE r.kind = "deleteFile" /\ view.active # NoBase
      BY <3>4 DEF Outcome, Then, Polls
    <3>5. CASE r.kind = "deleteFile" /\ view.active = NoBase
      BY <3>5 DEF Outcome, Then, Polls
    <3> QED
      BY <1>6, <3>1, <3>2, <3>3, <3>4, <3>5
  <2> PICK q : q = Request(kind, base, arg, then)
    OBVIOUS
  <2>2. GoesOn(q, view.active, r.arg, Uploading(r))
    BY <2>1, RequestSays DEF GoesOn, Uploading
  <2>3. ~Fetching(r)
    BY <1>6 DEF Fetching
  <2> QED
    BY <2>1, <2>2, <2>3 DEF Result
<1>7. CASE r.kind = "deleteBase"
  <2> PICK q : q = Request("bases", NoBase, 0, "deleted")
    OBVIOUS
  <2>1. Outcome(r) = [view |-> Closed(r.base), calls |-> {q}] /\ ~Fetching(r)
    BY <1>7 DEF Outcome, Then, Fetching
  <2>2. GoesOn(q, Closed(r.base).active, r.arg, Uploading(r))
    BY RequestSays DEF GoesOn, Polls
  <2>3. CASE view.active = r.base
    <3>1. Closed(r.base) = [bases |-> view.bases, active |-> NoBase, rows |-> {}, of |-> view.of,
                            timer |-> view.timer, deleting |-> view.deleting, last |-> view.last]
      BY <2>3 DEF Closed, IsView
    <3> QED
      BY <2>1, <2>2, <3>1 DEF Result, IsView
  <2>4. CASE view.active # r.base
    BY <2>1, <2>2, <2>4 DEF Result, Closed
  <2> QED
    BY <2>3, <2>4
<1> QED
  BY <1>3, <1>4, <1>5, <1>6, <1>7 DEF ChainShape, Kinds

-----------------------------------------------------------------------------
(* The steps that leave what the page shows as it is, and its history.      *)
LEMMA SamePage ==
  ASSUME PageInv, PageShape', DocsGoOn, khist' = khist,
         view'.active = view.active, view'.rows = view.rows, view'.of = view.of,
         view'.timer = view.timer, view'.last = view.last,
         \A r \in chains' : r \in chains \/ (ChainKnown(r)' /\ (Fetching(r) => r.base = view.active)),
         \A r \in chains : r.kind = "documents" => r \in chains'
  PROVE  PageInv'
<1>1. DriftsWithUploads
  BY DEF DriftsWithUploads
<1>2. ChainsKnown'
  BY <1>1, ChainsStay DEF PageInv, ChainsKnown
<1>3. TimerKnown' /\ WatchedUntilSettled'
  BY TimerStays DEF PageInv
<1>4. RowsKnown'
  <2>1. ASSUME NEW r \in chains', Fetching(r), ~khist.strayed PROVE r.base = view.active
    BY <2>1 DEF PageInv, RowsKnown
  <2>2. (\E r \in chains : r.kind = "documents") => \E r \in chains' : r.kind = "documents"
    OBVIOUS
  <2>3. ~khist.strayed => view.rows = {} \/ view.of = view.active
                          \/ \E r \in chains : r.kind = "documents"
    BY DEF PageInv, RowsKnown
  <2>4. \A r : (Fetching(r))' = Fetching(r)
    BY DEF Fetching
  <2> QED
    BY <2>1, <2>2, <2>3, <2>4 DEF RowsKnown
<1> QED
  BY <1>2, <1>3, <1>4 DEF PageInv

LEMMA DocsUntouched ==
  ASSUME DocsShape, UNCHANGED docs
  PROVE  DocsShape' /\ DocsGoOn
BY DEF DocsShape, DocsGoOn

LEMMA ClickBaseKeepsPage ==
  ASSUME PageInv, NEW b, ClickBase(b)
  PROVE  PageInv'
<1> PICK q : q = Request("documents", b, 0, "end")
  OBVIOUS
<1>1. /\ chains' = chains \cup {q} /\ view' = [view EXCEPT !.active = b]
      /\ khist' = Mishaps(khist.strayed, khist.unwatched) /\ UNCHANGED docs
  BY DEF ClickBase, Starts, tables
<1>2. DocsShape' /\ DocsGoOn
  BY <1>1, DocsUntouched DEF PageInv, PageShape
<1>3. /\ khist' = [strayed |-> khist'.strayed, unwatched |-> khist'.unwatched,
                   drifted |-> khist'.drifted]
      /\ ~khist'.strayed => \A r \in chains' : Fetching(r) => r.base = view'.active
      /\ ~khist'.unwatched => ~khist.unwatched
      /\ DriftsWithUploads
  BY <1>1, MishapsTell
<1>4. view' = [bases |-> view.bases, active |-> b, rows |-> view.rows, of |-> view.of,
               timer |-> view.timer, deleting |-> view.deleting, last |-> view.last]
  BY <1>1 DEF PageInv, PageShape, IsView
<1>5. PageShape'
  BY <1>2, <1>3, <1>4 DEF PageShape, IsView
<1>6. /\ q.kind = "documents" /\ q.then = "end"
  BY RequestSays
<1>7. ChainKnown(q)'
  BY <1>6 DEF ChainKnown, Reads, Pending, Polls
<1>8. ChainsKnown'
  BY <1>1, <1>2, <1>3, <1>7, ChainsStay DEF PageInv, ChainsKnown
<1>9. TimerKnown' /\ WatchedUntilSettled'
  BY <1>2, <1>3, <1>4, TimerStays DEF PageInv, DriftsWithUploads
<1>10. RowsKnown'
  <2>1. q \in chains' /\ q.kind = "documents"
    BY <1>1, <1>6
  <2>2. \A r : (Fetching(r))' = Fetching(r)
    BY DEF Fetching
  <2> QED
    BY <1>3, <2>1, <2>2 DEF RowsKnown
<1> QED
  BY <1>5, <1>8, <1>9, <1>10 DEF PageInv

LEMMA RequestKeepsPage ==
  ASSUME PageInv, NEW kind \in {"create", "edit", "upload", "deleteFile", "deleteBase"},
         NEW base, NEW arg, kind = "upload" => base = view.active, Starts(kind, base, arg),
         \/ UNCHANGED view
         \/ \E b : view' = [view EXCEPT !.deleting = b],
         UNCHANGED khist
  PROVE  PageInv'
<1> PICK q : q = Request(kind, base, arg, "end")
  OBVIOUS
<1>1. chains' = chains \cup {q} /\ UNCHANGED docs
  BY DEF Starts, tables
<1>2. DocsShape' /\ DocsGoOn
  BY <1>1, DocsUntouched DEF PageInv, PageShape
<1>3. IsView(view)' /\ view'.active = view.active /\ view'.rows = view.rows /\ view'.of = view.of
      /\ view'.timer = view.timer /\ view'.last = view.last
  <2>1. CASE UNCHANGED view
    BY <2>1 DEF PageInv, PageShape, IsView
  <2>2. ASSUME NEW b, view' = [view EXCEPT !.deleting = b]
        PROVE  view' = [bases |-> view.bases, active |-> view.active, rows |-> view.rows,
                        of |-> view.of, timer |-> view.timer, deleting |-> b,
                        last |-> view.last]
    BY <2>2 DEF PageInv, PageShape, IsView
  <2>3. ASSUME NEW b, view' = [view EXCEPT !.deleting = b]
        PROVE  IsView(view)' /\ view'.active = view.active /\ view'.rows = view.rows
               /\ view'.of = view.of /\ view'.timer = view.timer /\ view'.last = view.last
    BY <2>2, <2>3 DEF IsView
  <2> QED
    BY <2>1, <2>3
<1>4. PageShape'
  BY <1>2, <1>3 DEF PageInv, PageShape
<1>5. q.kind = kind /\ q.base = base /\ q.then = "end" /\ q.status = "sent"
  BY RequestSays
<1>6. ChainKnown(q)' /\ ~Fetching(q)
  BY <1>3, <1>5 DEF ChainKnown, Reads, Pending, Polls, Fetching
<1> QED
  BY <1>1, <1>2, <1>3, <1>4, <1>6, SamePage

LEMMA ReplySays ==
  ASSUME NEW r, ChainShape(r)
  PROVE  /\ Reply(r).kind = r.kind /\ Reply(r).base = r.base /\ Reply(r).then = r.then
         /\ r.kind = "upload" /\ Reply(r).status = "ok" => Reply(r).arg = Len(docs) + 1
<1>1. CASE r.token \notin alive
  BY <1>1 DEF Reply, ChainShape
<1>2. CASE r.token \in alive /\ (owner[r.token] \notin Admins \/ ~Found(r))
  BY <1>2 DEF Reply, ChainShape
<1>3. CASE r.token \in alive /\ ~(owner[r.token] \notin Admins \/ ~Found(r))
  <2> DEFINE a == CASE r.kind = "create" -> made + 1
                    [] r.kind = "upload" -> Len(docs) + 1
                    [] OTHER -> r.arg
  <2>1. Reply(r) = [r EXCEPT !.status = "ok", !.arg = a]
    BY <1>3 DEF Reply
  <2>2. r.kind = "upload" => a = Len(docs) + 1
    OBVIOUS
  <2> HIDE DEF a
  <2>3. Reply(r) = [kind |-> r.kind, base |-> r.base, arg |-> a, then |-> r.then,
                    token |-> r.token, status |-> "ok"]
    BY <2>1 DEF ChainShape
  <2> QED
    BY <2>2, <2>3
<1> QED
  BY <1>1, <1>2, <1>3

LEMMA HandleKeepsPage ==
  ASSUME PageInv, CallsInv, NEW r \in chains, Handle(r)
  PROVE  PageInv'
<1> PICK q : q = Reply(r)
  OBVIOUS
<1>1. /\ chains' = (chains \ {r}) \cup {q} /\ ~Reads(r) /\ r.status = "sent"
      /\ UNCHANGED <<view, khist>>
  BY DEF Handle
<1>2. /\ DocsShape' /\ DocsGoOn
      /\ r.kind = "upload" /\ q.status = "ok" =>
           Len(docs) + 1 \in DOMAIN docs' /\ docs'[Len(docs) + 1].base = r.base
  BY HandleKeepsDocs DEF PageInv, PageShape
<1>3. PageShape'
  BY <1>1, <1>2 DEF PageInv, PageShape, IsView
<1>4. /\ q.kind = r.kind /\ q.base = r.base /\ q.then = r.then
      /\ r.kind = "upload" /\ q.status = "ok" => q.arg = Len(docs) + 1
  BY ReplySays DEF CallsInv
<1>5. ~Fetching(q) /\ ~Reads(q) /\ r.kind # "documents"
  BY <1>1, <1>4 DEF Fetching, Reads
<1>6. ChainKnown(q)'
  <2>1. ChainKnown(r)
    BY DEF PageInv, ChainsKnown
  <2>2. q.then = "end" /\ (q.kind = "upload" /\ ~khist.drifted => q.base = view.active)
    BY <1>1, <1>4, <2>1 DEF ChainKnown
  <2>3. Pending(q) => q.arg \in DOMAIN docs' /\ docs'[q.arg].base = q.base /\ q.kind = "upload"
    BY <1>2, <1>4, <2>2 DEF Pending, Polls
  <2>4. Pending(q) => Uploaded(q.arg, view.active)'
    BY <1>1, <2>2, <2>3 DEF Uploaded
  <2>5. (Pending(q))' = Pending(q)
    BY DEF Pending, Polls
  <2> QED
    BY <1>1, <2>2, <2>4, <2>5 DEF ChainKnown
<1> QED
  BY <1>1, <1>2, <1>3, <1>5, <1>6, SamePage

LEMMA SettleKeepsPage ==
  ASSUME PageInv, NEW d \in DOMAIN docs, Settle(d)
  PROVE  PageInv'
<1>1. UNCHANGED <<view, chains, khist>>
  BY DEF Settle
<1>2. DocsShape' /\ DocsGoOn
  BY SettleKeepsDocs DEF PageInv, PageShape
<1>3. PageShape'
  BY <1>1, <1>2 DEF PageInv, PageShape, IsView
<1> QED
  BY <1>1, <1>2, <1>3, SamePage

-----------------------------------------------------------------------------
(* An answer arrives.                                                       *)

LEMMA ArrivesTells ==
  ASSUME PageInv, CallsInv, NEW r \in chains, Arrives(r)
  PROVE  /\ Result(r, Outcome(r)) /\ view' = Outcome(r).view
         /\ chains' = (chains \ {r}) \cup Outcome(r).calls
         /\ PageShape' /\ DocsGoOn /\ DriftsWithUploads
         /\ ~khist'.strayed =>
              /\ (Fetching(r) /\ r.base = view.active) \/ ~khist.strayed
              /\ \A q \in chains' : Fetching(q) => q.base = view'.active
         /\ ~khist'.unwatched =>
              \/ view'.last # view.last
              \/ ~khist.unwatched /\ ~(r.kind = "poll" /\ IsSettled(r) /\ r.arg # view.last)
<1> PICK o : o = Outcome(r)
  OBVIOUS
<1> PICK strayed, unwatched :
      /\ strayed = IF Fetching(r) /\ r.base = view.active THEN FALSE ELSE khist.strayed
      /\ unwatched = IF o.view.last # view.last THEN FALSE
                     ELSE khist.unwatched \/ (r.kind = "poll" /\ IsSettled(r) /\ r.arg # view.last)
  OBVIOUS
<1>1. Result(r, o)
  BY OutcomeTells DEF PageInv, PageShape, CallsInv
<1>2. /\ view' = o.view /\ chains' = (chains \ {r}) \cup o.calls
      /\ khist' = Mishaps(strayed, unwatched) /\ UNCHANGED docs
  BY DEF Arrives, tables
<1>3. /\ khist' = [strayed |-> khist'.strayed, unwatched |-> khist'.unwatched,
                   drifted |-> khist'.drifted]
      /\ ~khist'.strayed => ~strayed /\ \A q \in chains' : Fetching(q) => q.base = view'.active
      /\ ~khist'.unwatched => ~unwatched
      /\ DriftsWithUploads
  BY <1>2, MishapsTell
<1>4. DocsShape' /\ DocsGoOn
  BY <1>2, DocsUntouched DEF PageInv, PageShape
<1>5. IsView(view)'
  BY <1>1, <1>2 DEF Result, IsView
<1>6. PageShape'
  BY <1>3, <1>4, <1>5 DEF PageShape
<1>7. ~strayed => (Fetching(r) /\ r.base = view.active) \/ ~khist.strayed
  OBVIOUS
<1>8. ~unwatched => \/ view'.last # view.last
                    \/ ~khist.unwatched /\ ~(r.kind = "poll" /\ IsSettled(r) /\ r.arg # view.last)
  BY <1>2
<1> QED
  BY <1>1, <1>2, <1>3, <1>4, <1>6, <1>7, <1>8

LEMMA ArrivesKeepsChains ==
  ASSUME PageInv, CallsInv, NEW r \in chains, Arrives(r)
  PROVE  ChainsKnown'
<1> PICK o : o = Outcome(r)
  OBVIOUS
<1>1. /\ Result(r, o) /\ view' = o.view /\ chains' = (chains \ {r}) \cup o.calls
      /\ DocsGoOn /\ DriftsWithUploads
  BY ArrivesTells
<1>2. ASSUME NEW q \in o.calls PROVE ChainKnown(q)'
  <2>1. GoesOn(q, o.view.active, r.arg, Uploading(r))
    BY <1>1 DEF Result
  <2>2. Reads(q) /\ q.kind # "upload" /\ (Reads(q))' = Reads(q)
    BY <2>1 DEF GoesOn, Reads
  <2>3. ASSUME q.then \in Polls PROVE Uploaded(q.arg, view.active)'
    <3>1. q.arg = r.arg /\ Uploading(r)
      BY <2>1, <2>3 DEF GoesOn
    <3>2. Pending(r)
      <4>1. CASE r.kind = "upload"
        BY <4>1 DEF Arrives, Status, Reads, Pending
      <4> QED
        BY <3>1, <4>1 DEF Uploading, Pending, Polls
    <3>3. r.arg \in DOMAIN docs /\ (~khist.drifted => docs[r.arg].base = view.active)
      BY <3>2 DEF PageInv, ChainsKnown, ChainKnown, Uploaded
    <3>4. ~khist'.drifted => ~khist.drifted /\ view'.active = view.active
      BY <1>1, <3>1 DEF DriftsWithUploads
    <3> QED
      BY <1>1, <3>1, <3>3, <3>4 DEF Uploaded, DocsGoOn
  <2>4. (Pending(q))' => q.then \in Polls
    BY <2>2 DEF Pending, Polls
  <2> QED
    BY <2>2, <2>3, <2>4 DEF ChainKnown
<1> QED
  BY <1>1, <1>2, ChainsStay DEF PageInv, ChainsKnown

LEMMA ArrivesKeepsTimer ==
  ASSUME PageInv, CallsInv, NEW r \in chains, Arrives(r)
  PROVE  TimerKnown' /\ WatchedUntilSettled'
<1> PICK o : o = Outcome(r)
  OBVIOUS
<1>1. /\ Result(r, o) /\ view' = o.view /\ DocsGoOn /\ DriftsWithUploads
      /\ ~khist'.unwatched =>
           \/ view'.last # view.last
           \/ ~khist.unwatched /\ ~(r.kind = "poll" /\ IsSettled(r) /\ r.arg # view.last)
  BY ArrivesTells
<1>2. ~khist'.drifted => ~khist.drifted
  BY <1>1 DEF DriftsWithUploads
<1>3. CASE view'.timer = view.timer /\ view'.last = view.last
  BY <1>1, <1>2, <1>3, TimerStays DEF PageInv
<1>4. CASE r.then \in Polls /\ TimerSet(view, o, r.arg)
  <2>1. r.arg \in DOMAIN docs /\ (~khist.drifted => docs[r.arg].base = view.active)
    BY <1>4 DEF PageInv, ChainsKnown, ChainKnown, Uploaded, Pending
  <2>2. /\ r.arg \in DOMAIN docs' /\ (~khist'.drifted => docs'[r.arg].base = view.active)
        /\ view'.timer = [base |-> view.active, doc |-> r.arg] /\ view'.last = r.arg
    BY <1>1, <1>2, <1>4, <2>1 DEF DocsGoOn, TimerSet
  <2> QED
    BY <2>2 DEF TimerKnown, Uploaded, WatchedUntilSettled
<1>5. CASE r.kind = "poll" /\ IsSettled(r) /\ o.view.timer = NoTimer /\ o.view.last = view.last
  <2>1. view'.timer = NoTimer /\ view'.last = view.last
    BY <1>1, <1>5
  <2>2. docs[r.arg].state = "settled"
    BY <1>5 DEF IsSettled, RowsOf
  <2>3. docs[view.last].state = "queued" => khist'.unwatched
    BY <1>1, <1>5, <2>1, <2>2
  <2> QED
    BY <1>1, <1>2, <2>1, <2>3, TimerStays DEF PageInv
<1> QED
  BY <1>1, <1>3, <1>4, <1>5 DEF Result

LEMMA ArrivesKeepsRows ==
  ASSUME PageInv, CallsInv, NEW r \in chains, Arrives(r)
  PROVE  RowsKnown'
<1> PICK o : o = Outcome(r)
  OBVIOUS
<1>1. /\ Result(r, o) /\ view' = o.view /\ chains' = (chains \ {r}) \cup o.calls
      /\ ~khist'.strayed =>
           /\ (Fetching(r) /\ r.base = view.active) \/ ~khist.strayed
           /\ \A q \in chains' : Fetching(q) => q.base = view'.active
  BY ArrivesTells
<1>2. \A q : (Fetching(q))' = Fetching(q)
  BY DEF Fetching
<1>3. ASSUME ~khist'.strayed
      PROVE  view'.rows = {} \/ view'.of = view'.active \/ \E q \in chains' : q.kind = "documents"
  <2>1. CASE view'.active # view.active
    BY <1>1, <2>1 DEF Result
  <2>2. CASE view'.active = view.active /\ Fetching(r)
    <3>1. view'.of = r.base
      BY <1>1, <2>2 DEF Result
    <3>2. r.base = view.active
      BY <1>1, <1>3, <2>2 DEF PageInv, RowsKnown
    <3> QED
      BY <2>2, <3>1, <3>2
  <2>3. CASE view'.active = view.active /\ ~Fetching(r)
    <3>1. (view'.rows = view.rows /\ view'.of = view.of) \/ view'.rows = {}
      BY <1>1, <2>3 DEF Result
    <3>2. view.rows = {} \/ view.of = view.active \/ \E q \in chains : q.kind = "documents"
      BY <1>1, <1>3, <2>3 DEF PageInv, RowsKnown
    <3>3. r.kind # "documents"
      BY <2>3 DEF Fetching
    <3> QED
      BY <1>1, <2>3, <3>1, <3>2, <3>3
  <2> QED
    BY <2>1, <2>2, <2>3
<1> QED
  BY <1>1, <1>2, <1>3 DEF RowsKnown

LEMMA ArrivesKeepsPage ==
  ASSUME PageInv, CallsInv, NEW r \in chains, Arrives(r)
  PROVE  PageInv'
<1>1. PageShape'
  BY ArrivesTells
<1> QED
  BY <1>1, ArrivesKeepsChains, ArrivesKeepsTimer, ArrivesKeepsRows DEF PageInv

-----------------------------------------------------------------------------
(* The timer, failures and the other components.                            *)

LEMMA ChainFailsKeepsPage ==
  ASSUME PageInv, NEW r \in chains, ChainFails(r)
  PROVE  PageInv'
<1> PICK timer : timer = IF OfTimer(r) \/ Mounts("chat") THEN NoTimer ELSE view.timer
  OBVIOUS
<1> PICK deleting : deleting = IF r.kind = "deleteBase" \/ r.then = "deleted" THEN NoBase
                               ELSE view.deleting
  OBVIOUS
<1> PICK u : u = [view EXCEPT !.deleting = deleting]
  OBVIOUS
<1>1. /\ view' = [u EXCEPT !.timer = timer] /\ chains' = chains \ {r}
      /\ khist' = Mishaps(khist.strayed \/ r.kind = "documents",
                          khist.unwatched \/ OfTimer(r) \/ Mounts("chat"))
      /\ UNCHANGED docs
  BY DEF ChainFails, tables
<1>2. DocsShape' /\ DocsGoOn
  BY <1>1, DocsUntouched DEF PageInv, PageShape
<1>3. /\ khist' = [strayed |-> khist'.strayed, unwatched |-> khist'.unwatched,
                   drifted |-> khist'.drifted]
      /\ ~khist'.strayed => ~(khist.strayed \/ r.kind = "documents")
                            /\ \A q \in chains' : Fetching(q) => q.base = view'.active
      /\ ~khist'.unwatched => ~(khist.unwatched \/ OfTimer(r) \/ Mounts("chat"))
      /\ DriftsWithUploads
  BY <1>1, MishapsTell
<1>4. u = [bases |-> view.bases, active |-> view.active, rows |-> view.rows, of |-> view.of,
           timer |-> view.timer, deleting |-> deleting, last |-> view.last]
  BY DEF PageInv, PageShape, IsView
<1>5. view' = [bases |-> view.bases, active |-> view.active, rows |-> view.rows, of |-> view.of,
               timer |-> timer, deleting |-> deleting, last |-> view.last]
  BY <1>1, <1>4
<1>6. PageShape'
  BY <1>2, <1>3, <1>5 DEF PageShape, IsView
<1>7. ChainsKnown'
  BY <1>1, <1>2, <1>3, ChainsStay DEF PageInv, ChainsKnown
<1>8. TimerKnown' /\ WatchedUntilSettled'
  <2>1. ~khist'.unwatched => ~khist.unwatched /\ view'.timer = view.timer
    BY <1>3, <1>5
  <2>2. view'.timer \in {view.timer, NoTimer} /\ view'.last = view.last
    BY <1>5
  <2> QED
    BY <1>2, <1>3, <2>1, <2>2, TimerStays DEF PageInv, DriftsWithUploads
<1>9. RowsKnown'
  <2>1. \A q : (Fetching(q))' = Fetching(q)
    BY DEF Fetching
  <2>2. ASSUME ~khist'.strayed
        PROVE  view.rows = {} \/ view.of = view.active \/ \E q \in chains' : q.kind = "documents"
    BY <1>1, <1>3, <2>2 DEF PageInv, RowsKnown
  <2> QED
    BY <1>3, <1>5, <2>1, <2>2 DEF RowsKnown
<1> QED
  BY <1>6, <1>7, <1>8, <1>9 DEF PageInv

(* The timer is stopped, and the rest of the page stays.                    *)
LEMMA StoppingKeepsPage ==
  ASSUME PageInv, view' = [view EXCEPT !.timer = NoTimer], UNCHANGED <<docs, chains>>,
         khist' = [khist EXCEPT !.unwatched = TRUE]
  PROVE  PageInv'
<1>1. DocsShape' /\ DocsGoOn
  BY DocsUntouched DEF PageInv, PageShape
<1>2. view' = [bases |-> view.bases, active |-> view.active, rows |-> view.rows, of |-> view.of,
               timer |-> NoTimer, deleting |-> view.deleting, last |-> view.last]
  BY DEF PageInv, PageShape, IsView
<1>3. khist' = [strayed |-> khist.strayed, unwatched |-> TRUE, drifted |-> khist.drifted]
  BY DEF PageInv, PageShape
<1>4. khist'.strayed = khist.strayed /\ khist'.unwatched /\ khist'.drifted = khist.drifted
      /\ khist' = [strayed |-> khist'.strayed, unwatched |-> khist'.unwatched,
                   drifted |-> khist'.drifted]
  BY <1>3
<1>5. PageShape'
  BY <1>1, <1>2, <1>4 DEF PageShape, IsView
<1>6. DriftsWithUploads
  BY <1>2, <1>4 DEF DriftsWithUploads
<1>7. ChainsKnown'
  BY <1>1, <1>6, ChainsStay DEF PageInv, ChainsKnown
<1>8. TimerKnown' /\ WatchedUntilSettled'
  BY <1>1, <1>2, <1>4, TimerStays DEF PageInv
<1>9. RowsKnown'
  <2>1. \A q : (Fetching(q))' = Fetching(q)
    BY DEF Fetching
  <2> QED
    BY <1>2, <1>4, <2>1 DEF PageInv, RowsKnown
<1> QED
  BY <1>5, <1>7, <1>8, <1>9 DEF PageInv

LEMMA TickKeepsPage ==
  ASSUME PageInv, Tick
  PROVE  PageInv'
<1>1. CASE view.active # view.timer.base
  <2>1. /\ view' = [view EXCEPT !.timer = NoTimer] /\ UNCHANGED <<docs, chains>>
        /\ khist' = [khist EXCEPT !.unwatched = TRUE]
    BY <1>1 DEF Tick, tables
  <2> QED
    BY <2>1, StoppingKeepsPage
<1>2. CASE view.active = view.timer.base
  <2> PICK q : q = Request("poll", view.timer.base, view.timer.doc, "end")
    OBVIOUS
  <2>1. chains' = chains \cup {q} /\ UNCHANGED <<view, khist, docs>>
    BY <1>2 DEF Tick, tables
  <2>2. DocsShape' /\ DocsGoOn
    BY <2>1, DocsUntouched DEF PageInv, PageShape
  <2>3. PageShape'
    BY <2>1, <2>2 DEF PageInv, PageShape, IsView
  <2>4. q.kind = "poll" /\ q.base = view.active /\ q.then = "end"
    BY <1>2, RequestSays
  <2>5. ChainKnown(q)'
    BY <2>4 DEF ChainKnown, Reads, Pending, Polls
  <2> QED
    BY <2>1, <2>2, <2>3, <2>4, <2>5, SamePage
<1> QED
  BY <1>1, <1>2

(* The page as it is when it is shown, with at most its call for the bases. *)
LEMMA FreshPage ==
  ASSUME PageShape, UNCHANGED docs, view' = EmptyView, khist' = NoMishap,
         \A r \in chains' : r.kind = "bases" /\ r.then = "end"
  PROVE  PageInv'
<1>1. DocsShape'
  BY DocsUntouched DEF PageShape
<1>2. /\ IsView(view)' /\ view'.rows = {} /\ view'.timer = NoTimer /\ view'.last = 0
      /\ ~khist'.drifted
      /\ khist' = [strayed |-> khist'.strayed, unwatched |-> khist'.unwatched,
                   drifted |-> khist'.drifted]
  BY DEF EmptyView, NoMishap, IsView
<1>3. \A r \in chains' : ChainKnown(r)' /\ ~(Fetching(r))'
  BY DEF ChainKnown, Reads, Pending, Polls, Fetching
<1> QED
  BY <1>1, <1>2, <1>3
  DEF PageInv, PageShape, ChainsKnown, TimerKnown, WatchedUntilSettled, RowsKnown

LEMMA FollowsKeepsPage ==
  ASSUME PageInv, KnowledgeFollows
  PROVE  PageInv'
<1>1. UNCHANGED docs
  BY DEF KnowledgeFollows, tables
<1>2. CASE Mounts("knowledge")
  <2>1. /\ view' = EmptyView /\ khist' = NoMishap
        /\ chains' = {Request("bases", NoBase, 0, "end")'}
    BY <1>2 DEF KnowledgeFollows
  <2>2. \A r \in chains' : r.kind = "bases" /\ r.then = "end"
    BY <2>1 DEF Request
  <2> QED
    BY <1>1, <2>1, <2>2, FreshPage DEF PageInv
<1>3. CASE ~Mounts("knowledge") /\ page = "knowledge" /\ page' # page
  <2>1. /\ view' = [view EXCEPT !.timer = NoTimer] /\ UNCHANGED chains
        /\ khist' = [khist EXCEPT !.unwatched = TRUE]
    BY <1>3 DEF KnowledgeFollows
  <2> QED
    BY <1>1, <2>1, StoppingKeepsPage
<1>4. CASE ~Mounts("knowledge") /\ ~(page = "knowledge" /\ page' # page)
  <2>1. /\ UNCHANGED <<view, chains>>
        /\ khist' = [khist EXCEPT !.unwatched = @ \/ FALSE]
    BY <1>4 DEF KnowledgeFollows
  <2>2. DocsShape' /\ DocsGoOn
    BY <1>1, DocsUntouched DEF PageInv, PageShape
  <2>3. /\ khist' = [strayed |-> khist'.strayed, unwatched |-> khist'.unwatched,
                     drifted |-> khist'.drifted]
        /\ khist'.strayed = khist.strayed /\ khist'.drifted = khist.drifted
        /\ khist'.unwatched = (khist.unwatched \/ FALSE)
    BY <2>1 DEF PageInv, PageShape
  <2>4. PageShape'
    BY <2>1, <2>2, <2>3 DEF PageInv, PageShape, IsView
  <2>5. DriftsWithUploads
    BY <2>1, <2>3 DEF DriftsWithUploads
  <2>6. ChainsKnown'
    BY <2>1, <2>2, <2>5, ChainsStay DEF PageInv, ChainsKnown
  <2>7. TimerKnown' /\ WatchedUntilSettled'
    BY <2>1, <2>2, <2>3, TimerStays DEF PageInv
  <2>8. RowsKnown'
    BY <2>1, <2>3 DEF PageInv, RowsKnown, Fetching
  <2> QED
    BY <2>4, <2>6, <2>7, <2>8 DEF PageInv
<1> QED
  BY <1>2, <1>3, <1>4

LEMMA KnowledgeStepKeepsPage ==
  ASSUME PageInv, CallsInv, KnowledgeStep
  PROVE  PageInv'
<1>1. ASSUME NEW b \in view.bases, ClickBase(b) \/ Rename(b) \/ DeleteBase(b)
      PROVE  PageInv'
  BY <1>1, ClickBaseKeepsPage, RequestKeepsPage DEF Rename, DeleteBase
<1>2. ASSUME Create \/ Permit \/ Upload
      PROVE  PageInv'
  BY <1>2, RequestKeepsPage DEF Create, Permit, Upload
<1>3. ASSUME NEW d, DeleteFile(d)
      PROVE  PageInv'
  BY <1>3, RequestKeepsPage DEF DeleteFile
<1>4. ASSUME NEW r \in chains, Handle(r) \/ Arrives(r) \/ ChainFails(r)
      PROVE  PageInv'
  BY <1>4, HandleKeepsPage, ArrivesKeepsPage, ChainFailsKeepsPage
<1>5. ASSUME NEW d \in DOMAIN docs, Settle(d)
      PROVE  PageInv'
  BY <1>5, SettleKeepsPage
<1>6. ASSUME Tick
      PROVE  PageInv'
  BY <1>6, TickKeepsPage
<1> QED
  BY <1>1, <1>2, <1>3, <1>4, <1>5, <1>6 DEF KnowledgeStep

LEMMA PageKept ==
  ASSUME PageInv, CallsInv, Next
  PROVE  PageInv'
<1>1. CASE KnowledgeFollows
  BY <1>1, FollowsKeepsPage
<1>2. CASE KnowledgeLost
  <2>1. UNCHANGED docs
    BY <1>2 DEF KnowledgeLost, tables
  <2> QED
    BY <1>2, <2>1, FreshPage DEF KnowledgeLost, PageInv
<1>3. CASE KnowledgeStep
  BY <1>3, KnowledgeStepKeepsPage
<1> QED
  BY <1>1, <1>2, <1>3 DEF Next

-----------------------------------------------------------------------------
(* What is on the screen beside what is stored.                             *)
(* A message on the screen stands for an entry: the placeholder of an       *)
(* answer, for the answer.  S are the messages on the screen, L the entries *)
(* of the conversation, "t" is the turn that waits for its metadata and     *)
(* "pc" how far it came: what it has not stored yet has no entry.           *)
Fails(S, t) == \E i \in DOMAIN S : S[i].turn = t /\ S[i].text = "error"
Same(m, e) ==
  m.turn = e.turn /\ (m.text = e.role \/ (m.text = "pending" /\ e.role = "answer"))
Unstored(m, t, pc) ==
  /\ m.turn = t
  /\ m.text = "question" => pc \in {"sent", "bound"}
  /\ m.text # "question" => pc # "answered"

IsStored(S, L, t, pc) ==
  \A i \in DOMAIN S : \/ Fails(S, S[i].turn) \/ Unstored(S[i], t, pc)
                      \/ \E k \in DOMAIN L : Same(S[i], L[k])
IsShown(S, L) ==
  \A k \in DOMAIN L : Fails(S, L[k].turn) \/ \E i \in DOMAIN S : Same(S[i], L[k])
SameOrder(S, L) ==
  \A i, j \in DOMAIN S, k, l \in DOMAIN L :
    ~Fails(S, S[i].turn) /\ ~Fails(S, S[j].turn) /\ Same(S[i], L[k]) /\ Same(S[j], L[l])
    => (i < j <=> k < l)
Agree(S, L, t, pc) == IsStored(S, L, t, pc) /\ IsShown(S, L) /\ SameOrder(S, L)

(* A conversation has each question and each answer once.                   *)
Single(L) == \A k, l \in DOMAIN L : L[k].turn = L[l].turn /\ L[k].role = L[l].role => k = l

(* Once the answer is stored, nothing is left to be stored.                 *)
LEMMA NothingUnstored == \A m, t : ~Unstored(m, t, "answered")
BY DEF Unstored

LEMMA AnyTurnAnswered ==
  ASSUME NEW S, NEW L, NEW t, NEW u, Agree(S, L, t, "answered")
  PROVE  Agree(S, L, u, "answered")
BY NothingUnstored DEF Agree, IsStored

(* Messages that were loaded from the conversation.                         *)
LEMMA LoadedAgree ==
  ASSUME NEW L \in Seq(LogEntries), Single(L), NEW S, DOMAIN S = DOMAIN L,
         \A i \in DOMAIN L : S[i].turn = L[i].turn /\ S[i].text = L[i].role,
         NEW t, NEW pc
  PROVE  Agree(S, L, t, pc)
<1>1. \A k \in DOMAIN L : L[k].role # "pending"
  <2>1. \A k \in DOMAIN L : L[k] \in LogEntries
    OBVIOUS
  <2> QED
    BY <2>1 DEF LogEntries
<1>2. \A i, k \in DOMAIN L : Same(S[i], L[k]) <=> i = k
  BY <1>1 DEF Same, Single
<1>3. IsStored(S, L, t, pc) /\ IsShown(S, L)
  BY <1>2 DEF IsStored, IsShown
<1>4. SameOrder(S, L)
  BY <1>2 DEF SameOrder
<1> QED
  BY <1>3, <1>4 DEF Agree

(* A question is asked.                                                     *)
LEMMA AgreeAsked ==
  ASSUME NEW S \in Seq(TabMessages), NEW L \in Seq(LogEntries), NEW u, Agree(S, L, u, "answered"),
         NEW t \in Nat, \A i \in DOMAIN S : S[i].turn # t, \A k \in DOMAIN L : L[k].turn # t,
         NEW ms, DOMAIN ms = 1..(Len(S) + 2), \A i \in DOMAIN S : ms[i] = S[i],
         \A i \in {Len(S) + 1, Len(S) + 2} : ms[i].turn = t /\ ms[i].text # "error"
  PROVE  Agree(ms, L, t, "sent")
<1>1. DOMAIN S = 1..Len(S) /\ Len(S) \in Nat
  OBVIOUS
<1>2. DOMAIN ms = DOMAIN S \cup {Len(S) + 1, Len(S) + 2}
  BY <1>1
<1>3. \A v : Fails(ms, v) <=> Fails(S, v)
  BY <1>2 DEF Fails
<1>4. \A i \in DOMAIN ms, k \in DOMAIN L : Same(ms[i], L[k]) => i \in DOMAIN S /\ ms[i] = S[i]
  BY <1>2 DEF Same
<1>5. IsStored(ms, L, t, "sent")
  <2> SUFFICES ASSUME NEW i \in DOMAIN ms
               PROVE  \/ Fails(ms, ms[i].turn) \/ Unstored(ms[i], t, "sent")
                      \/ \E k \in DOMAIN L : Same(ms[i], L[k])
    BY DEF IsStored
  <2>1. CASE i \in DOMAIN S
    BY <1>3, <2>1, NothingUnstored DEF Agree, IsStored
  <2>2. CASE i \notin DOMAIN S
    BY <1>2, <2>2 DEF Unstored
  <2> QED
    BY <2>1, <2>2
<1>6. IsShown(ms, L)
  <2> SUFFICES ASSUME NEW k \in DOMAIN L, ~Fails(S, L[k].turn)
               PROVE  \E i \in DOMAIN ms : Same(ms[i], L[k])
    BY <1>3 DEF IsShown
  <2>1. PICK i \in DOMAIN S : Same(S[i], L[k])
    BY DEF Agree, IsShown
  <2> QED
    BY <1>2, <2>1
<1>7. SameOrder(ms, L)
  BY <1>3, <1>4 DEF Agree, SameOrder
<1> QED
  BY <1>5, <1>6, <1>7 DEF Agree

(* The screen of a question that was asked in no conversation.              *)
LEMMA NothingAgrees ==
  ASSUME NEW S, NEW t, \A i \in DOMAIN S : Fails(S, S[i].turn) \/ S[i].turn = t, NEW L, DOMAIN L = {}
  PROVE  Agree(S, L, t, "bound")
BY DEF Agree, IsStored, IsShown, SameOrder, Unstored

(* The turn is bound to the conversation.                                   *)
LEMMA AgreeBound ==
  ASSUME NEW S, NEW L, NEW t, Agree(S, L, t, "sent")
  PROVE  Agree(S, L, t, "bound")
<1>1. \A m : Unstored(m, t, "sent") => Unstored(m, t, "bound")
  BY DEF Unstored
<1> QED
  BY <1>1 DEF Agree, IsStored

(* An entry of a failed turn is stored.                                     *)
LEMMA AgreeFailedStored ==
  ASSUME NEW S \in Seq(TabMessages), NEW L \in Seq(LogEntries), NEW t, NEW pc, Agree(S, L, t, pc),
         NEW e, Fails(S, e.turn),
         NEW M, DOMAIN M = DOMAIN L \cup {Len(L) + 1}, \A k \in DOMAIN L : M[k] = L[k],
         M[Len(L) + 1] = e
  PROVE  Agree(S, M, t, pc)
<1>1. \A i \in DOMAIN S, k \in DOMAIN M :
        Same(S[i], M[k]) /\ ~Fails(S, S[i].turn) => k \in DOMAIN L /\ M[k] = L[k]
  BY DEF Same
<1>2. IsStored(S, M, t, pc)
  BY DEF Agree, IsStored
<1>3. IsShown(S, M)
  BY DEF Agree, IsShown
<1>4. SameOrder(S, M)
  <2> SUFFICES ASSUME NEW i \in DOMAIN S, NEW j \in DOMAIN S, NEW k \in DOMAIN M, NEW l \in DOMAIN M,
                      ~Fails(S, S[i].turn), ~Fails(S, S[j].turn), Same(S[i], M[k]), Same(S[j], M[l])
               PROVE  i < j <=> k < l
    BY DEF SameOrder
  <2>1. k \in DOMAIN L /\ M[k] = L[k] /\ l \in DOMAIN L /\ M[l] = L[l]
    BY <1>1
  <2> QED
    BY <2>1 DEF Agree, SameOrder
<1> QED
  BY <1>2, <1>3, <1>4 DEF Agree

(* The turn has the last two messages: its question and its placeholder.    *)
IsLast(S, t) ==
  /\ Len(S) >= 2
  /\ S[Len(S)].turn = t /\ S[Len(S)].text = "pending"
  /\ S[Len(S) - 1].turn = t /\ S[Len(S) - 1].text = "question"
  /\ \A i \in DOMAIN S : i < Len(S) - 1 => S[i].turn # t

(* An entry is stored: it is the last of the conversation.                  *)
Appended(old, new, e) ==
  /\ old \in Seq(LogEntries) /\ DOMAIN new = DOMAIN old \cup {Len(old) + 1}
  /\ Len(old) + 1 \notin DOMAIN old
  /\ \A k \in DOMAIN old : new[k] = old[k]
  /\ new[Len(old) + 1] = e

(* An entry of the waiting turn is stored.                                  *)
LEMMA AgreeStored ==
  ASSUME NEW S \in Seq(TabMessages), NEW L, NEW t, NEW pc, NEW next,
         Agree(S, L, t, pc), IsLast(S, t), NEW e, e.turn = t, NEW M, Appended(L, M, e),
         \/ pc = "bound" /\ e.role = "question" /\ next = "asked"
         \/ pc = "asked" /\ e.role = "answer" /\ next = "answered",
         \A k \in DOMAIN L : L[k].turn = t => pc = "asked" /\ L[k].role = "question"
  PROVE  Agree(S, M, t, next)
<1>0. /\ Len(S) >= 2
      /\ S[Len(S)].turn = t /\ S[Len(S)].text = "pending"
      /\ S[Len(S) - 1].turn = t /\ S[Len(S) - 1].text = "question"
      /\ \A i \in DOMAIN S : i < Len(S) - 1 => S[i].turn # t
      /\ L \in Seq(LogEntries) /\ DOMAIN M = DOMAIN L \cup {Len(L) + 1}
      /\ \A k \in DOMAIN L : M[k] = L[k]
      /\ M[Len(L) + 1] = e
  BY DEF IsLast, Appended
<1> PICK n, q, p, new : n = Len(S) /\ q = n - 1 /\ p = n /\ new = Len(L) + 1
  OBVIOUS
<1>1. /\ DOMAIN S = 1..n /\ n \in Nat /\ DOMAIN L = 1..(new - 1) /\ new \in Nat /\ new > 0
      /\ q \in DOMAIN S /\ p \in DOMAIN S /\ new \in DOMAIN M /\ new \notin DOMAIN L
      /\ \A k \in DOMAIN L : k < new
  BY <1>0, LenProperties
<1>2. /\ S[p].turn = t /\ S[p].text = "pending" /\ S[q].turn = t /\ S[q].text = "question"
      /\ \A i \in DOMAIN S : S[i].turn = t => i = p \/ i = q
  <2>1. S[p].turn = t /\ S[p].text = "pending" /\ S[q].turn = t /\ S[q].text = "question"
    BY <1>0
  <2>2. ASSUME NEW i \in DOMAIN S, S[i].turn = t PROVE i = p \/ i = q
    <3>1. i \in 1..n /\ ~(i < n - 1)
      BY <1>0, <1>1, <2>2
    <3> QED
      BY <1>1, <3>1
  <2> QED
    BY <2>1, <2>2
<1> PICK z : z \in DOMAIN S /\ z = IF pc = "bound" THEN q ELSE p
  BY <1>1
<1>3. \A i \in DOMAIN S : Same(S[i], e) <=> i = z
  BY <1>2 DEF Same
<1>4. \A i \in DOMAIN S, k \in DOMAIN L : Same(S[i], L[k]) => i < z
  <2> SUFFICES ASSUME NEW i \in DOMAIN S, NEW k \in DOMAIN L, Same(S[i], L[k])
               PROVE  i < z
    OBVIOUS
  <2>1. CASE S[i].turn # t
    <3>1. i < q
      BY <1>1, <1>2, <2>1
    <3> QED
      BY <1>1, <3>1
  <2>2. CASE S[i].turn = t
    <3>1. L[k].turn = t
      BY <2>2 DEF Same
    <3>2. pc = "asked" /\ L[k].role = "question"
      BY <3>1
    <3>3. i = q
      BY <1>2, <2>2, <3>2 DEF Same
    <3> QED
      BY <1>1, <3>2, <3>3
  <2> QED
    BY <2>1, <2>2
<1>5. \A k \in DOMAIN M : (k \in DOMAIN L /\ M[k] = L[k]) \/ (k = new /\ M[k] = e)
  BY <1>0
<1>6. \A k \in DOMAIN L : k \in DOMAIN M /\ M[k] = L[k]
  BY <1>0
<1>7. IsStored(S, M, t, next)
  <2> SUFFICES ASSUME NEW i \in DOMAIN S, ~Fails(S, S[i].turn), ~Unstored(S[i], t, next)
               PROVE  \E k \in DOMAIN M : Same(S[i], M[k])
    BY DEF IsStored
  <2>1. CASE i = z
    BY <1>0, <1>1, <1>3, <2>1
  <2>2. CASE i # z
    <3>1. ~Unstored(S[i], t, pc)
      BY <1>2, <2>2 DEF Unstored
    <3>2. PICK k \in DOMAIN L : Same(S[i], L[k])
      BY <3>1 DEF Agree, IsStored
    <3> QED
      BY <1>6, <3>2
  <2> QED
    BY <2>1, <2>2
<1>8. IsShown(S, M)
  <2> SUFFICES ASSUME NEW k \in DOMAIN M, ~Fails(S, M[k].turn)
               PROVE  \E i \in DOMAIN S : Same(S[i], M[k])
    BY DEF IsShown
  <2>1. CASE k \in DOMAIN L /\ M[k] = L[k]
    BY <2>1 DEF Agree, IsShown
  <2>2. CASE k = new /\ M[k] = e
    BY <1>3, <2>2
  <2> QED
    BY <1>5, <2>1, <2>2
<1>9. SameOrder(S, M)
  <2> SUFFICES ASSUME NEW i \in DOMAIN S, NEW j \in DOMAIN S, NEW k \in DOMAIN M, NEW l \in DOMAIN M,
                      ~Fails(S, S[i].turn), ~Fails(S, S[j].turn), Same(S[i], M[k]), Same(S[j], M[l])
               PROVE  i < j <=> k < l
    BY DEF SameOrder
  <2>1. CASE k \in DOMAIN L /\ M[k] = L[k] /\ l \in DOMAIN L /\ M[l] = L[l]
    BY <2>1 DEF Agree, SameOrder
  <2>2. CASE k \in DOMAIN L /\ M[k] = L[k] /\ l = new /\ M[l] = e
    <3>1. i < z /\ j = z /\ k < l
      BY <1>1, <1>3, <1>4, <2>2
    <3> QED
      BY <3>1
  <2>3. CASE k = new /\ M[k] = e /\ l \in DOMAIN L /\ M[l] = L[l]
    <3>1. j < z /\ i = z /\ l < k
      BY <1>1, <1>3, <1>4, <2>3
    <3>2. i \in Nat /\ j \in Nat /\ k \in Nat /\ l \in Nat
      <4>1. i \in 1..n /\ j \in 1..n /\ l \in 1..(new - 1)
        BY <1>1, <2>3
      <4> QED
        BY <1>1, <2>3, <4>1
    <3>3. ~(i < j) /\ ~(k < l)
      BY <3>1, <3>2
    <3> QED
      BY <3>3
  <2>4. CASE k = new /\ M[k] = e /\ l = new /\ M[l] = e
    <3>1. i = j /\ k = l
      BY <1>3, <2>4
    <3>2. ~(i < i) /\ ~(new < new)
      BY <1>1
    <3> QED
      BY <2>4, <3>1, <3>2
  <2> QED
    BY <1>5, <2>1, <2>2, <2>3, <2>4
<1> QED
  BY <1>7, <1>8, <1>9 DEF Agree

(* The answer is written to its placeholder.                                *)
LEMMA AgreeAnswered ==
  ASSUME NEW S, NEW L \in Seq(LogEntries), NEW t, NEW u, Agree(S, L, t, "answered"),
         NEW ms, DOMAIN ms = DOMAIN S,
         \A i \in DOMAIN S : /\ ms[i].turn = S[i].turn
                             /\ \/ ms[i].text = S[i].text
                                \/ S[i].text = "pending" /\ ms[i].text = "answer"
  PROVE  Agree(ms, L, u, "answered")
<1>1. \A k \in DOMAIN L : L[k].role # "pending"
  <2>1. \A k \in DOMAIN L : L[k] \in LogEntries
    OBVIOUS
  <2> QED
    BY <2>1 DEF LogEntries
<1>2. \A i \in DOMAIN S, k \in DOMAIN L : Same(ms[i], L[k]) <=> Same(S[i], L[k])
  BY <1>1 DEF Same
<1>3. \A v : Fails(ms, v) <=> Fails(S, v)
  BY DEF Fails
<1>4. IsStored(ms, L, u, "answered")
  BY <1>2, <1>3, NothingUnstored DEF Agree, IsStored
<1>5. IsShown(ms, L)
  BY <1>2, <1>3 DEF Agree, IsShown
<1>6. SameOrder(ms, L)
  <2> SUFFICES ASSUME NEW i \in DOMAIN S, NEW j \in DOMAIN S, NEW k \in DOMAIN L, NEW l \in DOMAIN L,
                      ~Fails(S, S[i].turn), ~Fails(S, S[j].turn), Same(S[i], L[k]), Same(S[j], L[l])
               PROVE  i < j <=> k < l
    BY <1>2, <1>3 DEF SameOrder
  <2> QED
    BY DEF Agree, SameOrder
<1> QED
  BY <1>4, <1>5, <1>6 DEF Agree

(* The turn of the stream fails: nothing of it has to agree any more.       *)
LEMMA AgreeFailing ==
  ASSUME NEW S, NEW L, NEW t, NEW pc, NEW u, Agree(S, L, t, pc),
         NEW ms, DOMAIN ms = DOMAIN S, Fails(ms, t),
         \A i \in DOMAIN S : /\ ms[i].turn = S[i].turn
                             /\ ms[i].text = S[i].text \/ (S[i].turn = t /\ ms[i].text = "error")
  PROVE  Agree(ms, L, u, "answered")
<1>1. \A v : Fails(S, v) => Fails(ms, v)
  BY DEF Fails
<1>2. \A v : v # t /\ Fails(ms, v) => Fails(S, v)
  BY DEF Fails
<1>3. \A i \in DOMAIN S : S[i].turn # t => ms[i].text = S[i].text
  OBVIOUS
<1>4. \A i \in DOMAIN S, k \in DOMAIN L : S[i].turn # t => (Same(ms[i], L[k]) <=> Same(S[i], L[k]))
  BY <1>3 DEF Same
<1>5. IsStored(ms, L, u, "answered")
  <2> SUFFICES ASSUME NEW i \in DOMAIN S, ~Fails(ms, ms[i].turn)
               PROVE  \E k \in DOMAIN L : Same(ms[i], L[k])
    BY DEF IsStored
  <2>1. S[i].turn # t /\ ~Fails(S, S[i].turn)
    BY <1>1
  <2>2. ~Unstored(S[i], t, pc)
    BY <2>1 DEF Unstored
  <2> QED
    BY <1>4, <2>1, <2>2 DEF Agree, IsStored
<1>6. IsShown(ms, L)
  <2> SUFFICES ASSUME NEW k \in DOMAIN L, ~Fails(ms, L[k].turn)
               PROVE  \E i \in DOMAIN S : Same(ms[i], L[k])
    BY DEF IsShown
  <2>1. L[k].turn # t /\ ~Fails(S, L[k].turn)
    BY <1>1
  <2>2. PICK i \in DOMAIN S : Same(S[i], L[k])
    BY <2>1 DEF Agree, IsShown
  <2>3. S[i].turn # t
    BY <2>1, <2>2 DEF Same
  <2> QED
    BY <1>4, <2>2, <2>3
<1>7. SameOrder(ms, L)
  <2> SUFFICES ASSUME NEW i \in DOMAIN S, NEW j \in DOMAIN S, NEW k \in DOMAIN L, NEW l \in DOMAIN L,
                      ~Fails(ms, S[i].turn), ~Fails(ms, S[j].turn), Same(ms[i], L[k]), Same(ms[j], L[l])
               PROVE  i < j <=> k < l
    BY DEF SameOrder
  <2>1. S[i].turn # t /\ S[j].turn # t /\ ~Fails(S, S[i].turn) /\ ~Fails(S, S[j].turn)
    BY <1>1
  <2>2. Same(S[i], L[k]) /\ Same(S[j], L[l])
    BY <1>4, <2>1
  <2> QED
    BY <2>1, <2>2 DEF Agree, SameOrder
<1> QED
  BY <1>5, <1>6, <1>7 DEF Agree

(* What the tables of the server say of the entries of the conversations:   *)
(* each is there once, and its turn has come as far as that.                *)
Stored(t, role) == turns[t].pc = "answered" \/ (turns[t].pc = "asked" /\ role = "question")
LogsKnown ==
  \A c \in DOMAIN convs :
    /\ Single(convs[c].log)
    /\ \A k \in DOMAIN convs[c].log : Stored(convs[c].log[k].turn, convs[c].log[k].role)

(* Every conversation that is named is there.                               *)
ConvsKnown ==
  /\ chat.open \in DOMAIN convs \cup {NoConv}
  /\ \A t \in DOMAIN turns : /\ turns[t].asked \in DOMAIN convs \cup {NoConv}
                             /\ Begun(t) => turns[t].conv \in DOMAIN convs

(* The turn of the stream has stored its answer when the metadata is there, *)
(* and a conversation created for it is nobody else's until then.           *)
StreamKnown ==
  /\ stream.phase \in {"none", "waiting", "open", "listing"}
  /\ stream.phase = "none" => stream.turn = 0
  /\ stream.phase \in {"open", "listing"}
     => stream.turn \in DOMAIN turns /\ turns[stream.turn].pc = "answered"
OwnConv ==
  stream.phase = "waiting" /\ Begun(stream.turn) /\ turns[stream.turn].asked = NoConv =>
    \A t \in DOMAIN turns \ {stream.turn} :
      /\ turns[t].asked # turns[stream.turn].conv
      /\ Begun(t) => turns[t].conv # turns[stream.turn].conv

TablesKnown == LogsKnown /\ ConvsKnown /\ StreamKnown /\ OwnConv

-----------------------------------------------------------------------------
(* What the steps of the server do to its tables.                           *)

LEMMA SendTells ==
  ASSUME ChatShape, TabScreen, Send, NEW t, t = Len(turns) + 1
  PROVE  /\ t \in Nat /\ t \notin DOMAIN turns /\ DOMAIN turns' = DOMAIN turns \cup {t}
         /\ \A k \in DOMAIN turns : turns'[k] = turns[k]
         /\ turns'[t].asked = chat.open /\ turns'[t].pc = "sent"
         /\ stream' = [turn |-> t, phase |-> "waiting"] /\ stream.phase = "none"
         /\ UNCHANGED <<convs, hist>> /\ chat'.open = chat.open
         /\ \E ms \in Seq(TabMessages) :
              /\ chat'.messages = ms /\ DOMAIN ms = 1..(Len(chat.messages) + 2)
              /\ Len(ms) = Len(chat.messages) + 2
              /\ \A i \in DOMAIN chat.messages : ms[i] = chat.messages[i]
              /\ ms[Len(chat.messages) + 1] = [turn |-> t, text |-> "question", live |-> FALSE]
              /\ ms[Len(chat.messages) + 2] = [turn |-> t, text |-> "pending", live |-> TRUE]
<1> PICK e : e = [token |-> stored, asked |-> chat.open, conv |-> NoConv, pc |-> "sent"]
  OBVIOUS
<1> PICK q, p : /\ q = [turn |-> t, text |-> "question", live |-> FALSE]
                /\ p = [turn |-> t, text |-> "pending", live |-> TRUE]
  OBVIOUS
<1> PICK old, ms : old = chat.messages /\ ms = old \o <<q, p>>
  OBVIOUS
<1>1. /\ turns' = Append(turns, e) /\ UNCHANGED <<convs, hist>>
      /\ chat' = [chat EXCEPT !.sending = TRUE, !.messages = ms]
      /\ stream' = [turn |-> t, phase |-> "waiting"] /\ ~chat.sending
  BY DEF Send
<1>2. turns \in Seq(TurnRecords \cup {e}) /\ e \in TurnRecords \cup {e}
  BY SeqDef DEF ChatShape
<1>3. /\ DOMAIN turns' = DOMAIN turns \cup {t}
      /\ \A k \in DOMAIN turns : turns'[k] = turns[k]
      /\ turns'[t] = e /\ t \in Nat /\ t \notin DOMAIN turns
  BY <1>1, <1>2
<1>4. e.pc = "sent" /\ e.asked = chat.open
  OBVIOUS
<1>5. chat' = [list |-> chat.list, open |-> chat.open, messages |-> ms, sending |-> TRUE]
  BY <1>1 DEF ChatShape
<1>6. stream.phase = "none"
  BY <1>1 DEF TabScreen, NoStream
<1>7. old \in Seq(TabMessages) /\ <<q, p>> \in Seq(TabMessages) /\ Len(<<q, p>>) = 2
  BY <1>3 DEF TabScreen, TabMessages
<1>8. /\ ms \in Seq(TabMessages) /\ DOMAIN ms = 1..(Len(old) + 2) /\ Len(old) \in Nat
      /\ Len(ms) = Len(old) + 2
      /\ \A i \in DOMAIN old : ms[i] = old[i]
      /\ ms[Len(old) + 1] = q /\ ms[Len(old) + 2] = p
  BY <1>7
<1>9. \E s \in Seq(TabMessages) :
        /\ chat'.messages = s /\ DOMAIN s = 1..(Len(chat.messages) + 2)
        /\ Len(s) = Len(chat.messages) + 2
        /\ \A i \in DOMAIN chat.messages : s[i] = chat.messages[i]
        /\ s[Len(chat.messages) + 1] = [turn |-> t, text |-> "question", live |-> FALSE]
        /\ s[Len(chat.messages) + 2] = [turn |-> t, text |-> "pending", live |-> TRUE]
  BY <1>5, <1>8
<1> QED
  BY <1>1, <1>3, <1>4, <1>5, <1>6, <1>9

LEMMA BindTells ==
  ASSUME ChatShape, NEW t \in DOMAIN turns, Bind(t)
  PROVE  /\ DOMAIN turns' = DOMAIN turns /\ \A q \in DOMAIN turns : q # t => turns'[q] = turns[q]
         /\ turns[t].pc = "sent" /\ turns'[t].pc = "bound" /\ turns'[t].asked = turns[t].asked
         /\ \A k \in DOMAIN convs : convs'[k] = convs[k]
         /\ \/ /\ turns[t].asked = NoConv /\ turns'[t].conv \notin DOMAIN convs \cup {NoConv}
               /\ DOMAIN convs' = DOMAIN convs \cup {turns'[t].conv}
               /\ convs'[turns'[t].conv].log = <<>>
            \/ /\ turns[t].asked # NoConv /\ turns'[t].conv = turns[t].asked
               /\ DOMAIN convs' = DOMAIN convs
         /\ UNCHANGED <<chat, stream, hist>>
<1> PICK c : c = IF turns[t].asked = NoConv THEN Len(convs) + 1 ELSE turns[t].asked
  OBVIOUS
<1> PICK x : x = [turns[t] EXCEPT !.pc = "bound", !.conv = c]
  OBVIOUS
<1> PICK e : e = [owner |-> Asker(t), exists |-> TRUE, log |-> <<>>]
  OBVIOUS
<1>1. turns[t] \in TurnRecords /\ turns \in Seq(TurnRecords) /\ convs \in Seq(ConvRecords)
  BY DEF ChatShape
<1>2. /\ turns[t].pc = "sent" /\ turns' = [turns EXCEPT ![t] = x]
      /\ IF turns[t].asked = NoConv THEN convs' = Append(convs, e) ELSE UNCHANGED convs
      /\ UNCHANGED <<chat, stream, hist>>
  BY DEF Bind, TurnAt
<1>3. x.pc = "bound" /\ x.conv = c /\ x.asked = turns[t].asked
  BY <1>1 DEF TurnRecords
<1>4. /\ DOMAIN turns' = DOMAIN turns /\ turns'[t] = x
      /\ \A q \in DOMAIN turns : q # t => turns'[q] = turns[q]
  BY <1>1, <1>2
<1>5. CASE turns[t].asked # NoConv
  BY <1>2, <1>3, <1>4, <1>5
<1>6. CASE turns[t].asked = NoConv
  <2>1. convs \in Seq(ConvRecords \cup {e}) /\ e \in ConvRecords \cup {e}
    BY <1>1, SeqDef
  <2>2. /\ DOMAIN convs' = DOMAIN convs \cup {c} /\ c \notin DOMAIN convs /\ c # 0
        /\ \A k \in DOMAIN convs : convs'[k] = convs[k]
        /\ convs'[c] = e
    BY <1>2, <1>6, <2>1
  <2>3. e.log = <<>>
    OBVIOUS
  <2> QED
    BY <1>2, <1>3, <1>4, <1>6, <2>2, <2>3 DEF NoConv
<1> QED
  BY <1>5, <1>6

LEMMA StoreTells ==
  ASSUME ChatShape, ScreenShape, NEW t \in DOMAIN turns, NEW pc \in {"bound", "asked"},
         NEW role \in {"question", "answer"}, NEW next \in {"asked", "answered"},
         Store(t, pc, role, next), NEW c \in DOMAIN convs, c = turns[t].conv
  PROVE  /\ DOMAIN turns' = DOMAIN turns /\ \A q \in DOMAIN turns : q # t => turns'[q] = turns[q]
         /\ turns[t].pc = pc /\ turns'[t].pc = next /\ turns'[t].asked = turns[t].asked
         /\ turns'[t].conv = c
         /\ DOMAIN convs' = DOMAIN convs /\ \A k \in DOMAIN convs : k # c => convs'[k] = convs[k]
         /\ convs'[c].exists = convs[c].exists
         /\ UNCHANGED <<chat, stream>> /\ hist'.mixed = hist.mixed
         /\ (hist'.behind <=> hist.behind \/ (t # stream.turn /\ chat.open = c /\ ~Failing(t)))
<1> PICK e : e = [turn |-> t, role |-> role]
  OBVIOUS
<1> PICK x, y : x = [turns[t] EXCEPT !.pc = next] /\ y = [convs[c] EXCEPT !.log = Append(@, e)]
  OBVIOUS
<1>1. /\ turns[t] \in TurnRecords /\ turns \in Seq(TurnRecords)
      /\ convs[c] \in ConvRecords /\ convs \in Seq(ConvRecords)
  BY DEF ChatShape
<1>2. /\ turns[t].pc = pc /\ turns' = [turns EXCEPT ![t] = x]
      /\ convs' = [convs EXCEPT ![c] = y] /\ UNCHANGED <<chat, stream>>
      /\ hist' = [hist EXCEPT !.behind = @ \/ (t # stream.turn /\ chat.open = c /\ ~Failing(t))]
  BY DEF Store, TurnAt, Goes
<1>3. x.pc = next /\ x.conv = c /\ x.asked = turns[t].asked
  BY <1>1 DEF TurnRecords
<1>4. /\ DOMAIN turns' = DOMAIN turns /\ turns'[t] = x
      /\ \A q \in DOMAIN turns : q # t => turns'[q] = turns[q]
  BY <1>1, <1>2
<1>5. /\ DOMAIN convs' = DOMAIN convs /\ convs'[c] = y
      /\ \A k \in DOMAIN convs : k # c => convs'[k] = convs[k]
  BY <1>1, <1>2
<1>6. y.exists = convs[c].exists
  BY <1>1 DEF ConvRecords
<1>7. /\ hist'.mixed = hist.mixed
      /\ (hist'.behind <=> hist.behind \/ (t # stream.turn /\ chat.open = c /\ ~Failing(t)))
  <2> PICK b : b = (hist.behind \/ (t # stream.turn /\ chat.open = c /\ ~Failing(t)))
    OBVIOUS
  <2>1. hist' = [hist EXCEPT !.behind = b]
    BY <1>2
  <2>2. hist = [mixed |-> hist.mixed, behind |-> hist.behind]
    BY DEF ScreenShape, TabScreen
  <2>3. hist'.mixed = hist.mixed /\ hist'.behind = b
    BY <2>1, <2>2
  <2> QED
    BY <2>3, Zenon
<1> QED
  BY <1>2, <1>3, <1>4, <1>5, <1>6, <1>7

(* The entry is the last of the conversation.                               *)
LEMMA StoreAppends ==
  ASSUME ChatShape, NEW t, NEW pc, NEW role, NEW next,
         Store(t, pc, role, next), NEW c \in DOMAIN convs, c = turns[t].conv
  PROVE  Appended(convs[c].log, convs'[c].log, [turn |-> t, role |-> role])
<1> PICK e, l, n : e = [turn |-> t, role |-> role] /\ l = convs[c].log /\ n = Len(l)
  OBVIOUS
<1>1. convs[c] \in ConvRecords
  BY DEF ChatShape
<1>2. convs' = [convs EXCEPT ![c].log = Append(@, e)]
  BY DEF Store
<1>3. l \in Seq(LogEntries) /\ convs'[c].log = Append(l, e)
  BY <1>1, <1>2 DEF ConvRecords
<1>4. l \in Seq(LogEntries \cup {e}) /\ e \in LogEntries \cup {e}
  BY <1>3, SeqDef
<1>5. /\ n \in Nat /\ DOMAIN l = 1..n /\ n + 1 \notin DOMAIN l
      /\ DOMAIN Append(l, e) = DOMAIN l \cup {n + 1} /\ Append(l, e)[n + 1] = e
      /\ \A k \in DOMAIN l : Append(l, e)[k] = l[k]
  BY <1>4, AppendProperties, LenProperties
<1>6. Appended(l, Append(l, e), e)
  BY <1>3, <1>5 DEF Appended
<1> QED
  BY <1>3, <1>6

LEMMA ServeTells ==
  ASSUME ChatShape, NEW r \in calls, Serve(r)
  PROVE  /\ DOMAIN convs' = DOMAIN convs
         /\ \A c \in DOMAIN convs : \/ convs'[c] = convs[c]
                                    \/ convs'[c].log = <<>> /\ ~convs'[c].exists
         /\ UNCHANGED <<turns, chat, stream, hist>>
<1>1. /\ convs' = [convs EXCEPT ![r.conv].exists = FALSE, ![r.conv].log = <<>>] \/ convs' = convs
      /\ UNCHANGED <<turns, chat, stream, hist>>
  BY DEF Serve
<1>2. CASE convs' = convs
  BY <1>1, <1>2
<1>3. CASE convs' = [convs EXCEPT ![r.conv].exists = FALSE, ![r.conv].log = <<>>]
  <2> PICK y : y = [convs[r.conv] EXCEPT !.exists = FALSE, !.log = <<>>]
    OBVIOUS
  <2>1. convs' = [convs EXCEPT ![r.conv] = y] /\ convs \in Seq(ConvRecords)
    BY <1>3 DEF ChatShape
  <2>2. ASSUME NEW c \in DOMAIN convs, c = r.conv
        PROVE  convs'[c].log = <<>> /\ ~convs'[c].exists
    <3>1. convs[c] \in ConvRecords
      BY <2>1
    <3>2. y.log = <<>> /\ y.exists = FALSE
      BY <2>2, <3>1 DEF ConvRecords
    <3> QED
      BY <2>1, <2>2, <3>2
  <2> QED
    BY <1>1, <2>1, <2>2
<1> QED
  BY <1>1, <1>2, <1>3

(* Steps that leave the server's tables alone.                              *)
LEMMA SameKnown ==
  ASSUME TablesKnown, UNCHANGED server, chat'.open \in DOMAIN convs \cup {NoConv}, StreamKnown',
         stream'.phase = "waiting" => stream' = stream
  PROVE  TablesKnown'
<1>1. UNCHANGED <<turns, convs>> /\ \A t : Begun(t)' <=> Begun(t)
  BY DEF server, Begun
<1>2. LogsKnown'
  BY <1>1 DEF TablesKnown, LogsKnown, Stored
<1>3. ConvsKnown'
  BY <1>1 DEF TablesKnown, ConvsKnown
<1>4. OwnConv'
  BY <1>1 DEF TablesKnown, OwnConv
<1> QED
  BY <1>2, <1>3, <1>4 DEF TablesKnown

LEMMA SendKeepsTables ==
  ASSUME ChatShape, ScreenInv, TablesKnown, Send
  PROVE  TablesKnown'
<1> PICK t : t = Len(turns) + 1
  OBVIOUS
<1>1. /\ t \notin DOMAIN turns /\ DOMAIN turns' = DOMAIN turns \cup {t}
      /\ \A k \in DOMAIN turns : turns'[k] = turns[k]
      /\ turns'[t].asked = chat.open /\ turns'[t].pc = "sent"
      /\ stream'.turn = t /\ stream'.phase = "waiting"
      /\ UNCHANGED convs /\ chat'.open = chat.open
  <2>1. TabScreen
    BY DEF ScreenInv, ScreenShape
  <2>2. stream' = [turn |-> t, phase |-> "waiting"]
    BY <2>1, SendTells
  <2> QED
    BY <2>1, <2>2, SendTells
<1>2. ~Begun(t)' /\ \A k \in DOMAIN turns : Begun(k)' <=> Begun(k)
  BY <1>1 DEF Begun
<1>3. LogsKnown'
  <2>1. \A c \in DOMAIN convs : \A k \in DOMAIN convs[c].log : convs[c].log[k].turn \in DOMAIN turns
    BY DEF ScreenInv, EntriesBound, In, Begun
  <2> QED
    BY <1>1, <2>1 DEF TablesKnown, LogsKnown, Stored
<1>4. ConvsKnown'
  BY <1>1, <1>2 DEF TablesKnown, ConvsKnown
<1>5. StreamKnown' /\ OwnConv'
  BY <1>1, <1>2 DEF StreamKnown, OwnConv
<1> QED
  BY <1>3, <1>4, <1>5 DEF TablesKnown

LEMMA BindKeepsTables ==
  ASSUME ChatShape, ScreenInv, TablesKnown, NEW t \in DOMAIN turns, Bind(t)
  PROVE  TablesKnown'
<1>1. /\ DOMAIN turns' = DOMAIN turns /\ \A q \in DOMAIN turns : q # t => turns'[q] = turns[q]
      /\ turns[t].pc = "sent" /\ turns'[t].pc = "bound" /\ turns'[t].asked = turns[t].asked
      /\ \A k \in DOMAIN convs : convs'[k] = convs[k]
      /\ \/ /\ turns[t].asked = NoConv /\ turns'[t].conv \notin DOMAIN convs \cup {NoConv}
            /\ DOMAIN convs' = DOMAIN convs \cup {turns'[t].conv}
            /\ convs'[turns'[t].conv].log = <<>>
         \/ turns[t].asked # NoConv /\ turns'[t].conv = turns[t].asked
            /\ DOMAIN convs' = DOMAIN convs
      /\ UNCHANGED <<chat, stream, hist>>
  BY BindTells
<1>2. ~Begun(t) /\ Begun(t)' /\ \A k \in DOMAIN turns : k # t => (Begun(k)' <=> Begun(k))
  BY <1>1 DEF Begun
<1>3. LogsKnown'
  <2>1. ASSUME NEW c \in DOMAIN convs, NEW k \in DOMAIN convs[c].log
        PROVE  Stored(convs[c].log[k].turn, convs[c].log[k].role)'
    <3>1. Begun(convs[c].log[k].turn)
      BY DEF ScreenInv, EntriesBound, In
    <3>2. convs[c].log[k].turn \in DOMAIN turns \ {t}
      BY <1>2, <3>1 DEF Begun
    <3> QED
      BY <1>1, <3>2 DEF TablesKnown, LogsKnown, Stored
  <2>2. \A c \in DOMAIN convs : Single(convs[c].log)
    BY DEF TablesKnown, LogsKnown
  <2>3. Single(<<>>) /\ DOMAIN <<>> = {}
    BY DEF Single
  <2> QED
    BY <1>1, <2>1, <2>2, <2>3 DEF LogsKnown
<1>4. turns'[t].conv \in DOMAIN convs' /\ DOMAIN convs \subseteq DOMAIN convs'
  BY <1>1 DEF TablesKnown, ConvsKnown
<1>5. ConvsKnown'
  BY <1>1, <1>2, <1>4 DEF TablesKnown, ConvsKnown
<1>6. StreamKnown'
  BY <1>1 DEF TablesKnown, StreamKnown
<1>7. OwnConv'
  <2> SUFFICES ASSUME stream.phase = "waiting", Begun(stream.turn)',
                      turns'[stream.turn].asked = NoConv,
                      NEW q \in DOMAIN turns, q # stream.turn
               PROVE  /\ turns'[q].asked # turns'[stream.turn].conv
                      /\ Begun(q)' => turns'[q].conv # turns'[stream.turn].conv
    BY <1>1 DEF OwnConv
  <2>0. stream.turn \in DOMAIN turns
    BY DEF ChatShape
  <2>1. CASE t = stream.turn
    <3>1. turns'[t].conv \notin DOMAIN convs \cup {NoConv}
      BY <1>1, <2>1
    <3>2. turns'[q] = turns[q] /\ (Begun(q)' <=> Begun(q))
      BY <1>1, <1>2, <2>1
    <3>3. turns[q].asked \in DOMAIN convs \cup {NoConv} /\ (Begun(q) => turns[q].conv \in DOMAIN convs)
      BY DEF TablesKnown, ConvsKnown
    <3> QED
      BY <2>1, <3>1, <3>2, <3>3
  <2>2. CASE t # stream.turn /\ q # t
    <3>1. turns'[q] = turns[q] /\ (Begun(q)' <=> Begun(q)) /\ turns'[stream.turn] = turns[stream.turn]
          /\ Begun(stream.turn)
      BY <1>1, <1>2, <2>0, <2>2
    <3>2. turns[q].asked # turns[stream.turn].conv /\ (Begun(q) => turns[q].conv # turns[stream.turn].conv)
      BY <3>1 DEF TablesKnown, OwnConv
    <3> QED
      BY <3>1, <3>2
  <2>3. CASE t # stream.turn /\ q = t
    <3>1. turns'[stream.turn] = turns[stream.turn] /\ Begun(stream.turn)
      BY <1>1, <1>2, <2>0, <2>3
    <3>2. turns[t].asked # turns[stream.turn].conv
      BY <2>3, <3>1 DEF TablesKnown, OwnConv
    <3>3. turns[stream.turn].conv \in DOMAIN convs
      BY <2>0, <3>1 DEF TablesKnown, ConvsKnown
    <3> QED
      BY <1>1, <2>3, <3>1, <3>2, <3>3
  <2> QED
    BY <2>1, <2>2, <2>3
<1> QED
  BY <1>3, <1>5, <1>6, <1>7 DEF TablesKnown

LEMMA SingleGrows ==
  ASSUME NEW old, Single(old), NEW new, NEW n, DOMAIN new = DOMAIN old \cup {n},
         \A i \in DOMAIN old : new[i] = old[i],
         \A i \in DOMAIN old : ~(old[i].turn = new[n].turn /\ old[i].role = new[n].role)
  PROVE  Single(new)
BY DEF Single

LEMMA StoreKeepsTables ==
  ASSUME ChatShape, ScreenInv, TablesKnown, NEW t \in DOMAIN turns, NEW pc, NEW role, NEW next,
         \/ pc = "bound" /\ role = "question" /\ next = "asked"
         \/ pc = "asked" /\ role = "answer" /\ next = "answered",
         Store(t, pc, role, next)
  PROVE  TablesKnown'
<1> PICK c : c = turns[t].conv
  OBVIOUS
<1>1. turns[t].pc = pc /\ Begun(t) /\ c \in DOMAIN convs
  <2>1. turns[t].pc = pc
    BY DEF Store, TurnAt
  <2> QED
    BY <2>1 DEF Begun, TablesKnown, ConvsKnown
<1>2. /\ DOMAIN turns' = DOMAIN turns /\ \A q \in DOMAIN turns : q # t => turns'[q] = turns[q]
      /\ turns'[t].pc = next /\ turns'[t].asked = turns[t].asked
      /\ turns'[t].conv = c
      /\ DOMAIN convs' = DOMAIN convs /\ \A k \in DOMAIN convs : k # c => convs'[k] = convs[k]
      /\ UNCHANGED <<chat, stream>>
  BY <1>1, StoreTells DEF ScreenInv
<1> PICK old, new : old = convs[c].log /\ new = convs'[c].log
  OBVIOUS
<1>3. /\ old \in Seq(LogEntries) /\ DOMAIN new = DOMAIN old \cup {Len(old) + 1}
      /\ Len(old) + 1 \notin DOMAIN old
      /\ \A k \in DOMAIN old : new[k] = old[k]
      /\ new[Len(old) + 1] = [turn |-> t, role |-> role]
  <2>1. Appended(old, new, [turn |-> t, role |-> role])
    BY <1>1, StoreAppends
  <2> QED
    BY <2>1 DEF Appended
<1>4. \A q \in DOMAIN turns : Begun(q)' <=> Begun(q)
  BY <1>1, <1>2 DEF Begun
<1>5. \A q \in DOMAIN turns : \A x : Stored(q, x) => Stored(q, x)'
  BY <1>1, <1>2 DEF Stored
<1>6. \A k \in DOMAIN convs : \A i \in DOMAIN convs[k].log :
        convs[k].log[i].turn \in DOMAIN turns /\ Stored(convs[k].log[i].turn, convs[k].log[i].role)
  BY DEF ScreenInv, EntriesBound, In, Begun, TablesKnown, LogsKnown
<1>7. LogsKnown'
  <2> SUFFICES ASSUME NEW k \in DOMAIN convs
               PROVE  /\ Single(convs'[k].log)
                      /\ \A i \in DOMAIN convs'[k].log :
                           \E q, x : /\ q = convs'[k].log[i].turn /\ x = convs'[k].log[i].role
                                     /\ Stored(q, x)'
    <3>1. DOMAIN convs' = DOMAIN convs
      BY <1>2
    <3> QED
      BY <3>1 DEF LogsKnown, Stored
  <2>1. CASE k # c
    <3>1. convs'[k] = convs[k] /\ Single(convs[k].log)
      BY <1>2, <2>1 DEF TablesKnown, LogsKnown
    <3> QED
      BY <1>5, <1>6, <3>1
  <2>2. CASE k = c
    <3>1. Stored(t, role)' /\ ~Stored(t, role)
      BY <1>1, <1>2 DEF Stored
    <3>2. \A i \in DOMAIN old : \E q, x : q = old[i].turn /\ x = old[i].role /\ Stored(q, x)'
      BY <1>1, <1>5, <1>6
    <3>3. \A i \in DOMAIN old : ~(old[i].turn = t /\ old[i].role = role)
      BY <1>1, <1>6, <3>1
    <3>4. Single(old)
      BY <1>1 DEF TablesKnown, LogsKnown
    <3>5. Single(new)
      <4>1. new[Len(old) + 1].turn = t /\ new[Len(old) + 1].role = role
        BY <1>3
      <4>2. DOMAIN new = DOMAIN old \cup {Len(old) + 1} /\ \A i \in DOMAIN old : new[i] = old[i]
        BY <1>3
      <4> QED
        BY <3>3, <3>4, <4>1, <4>2, SingleGrows
    <3>6. ASSUME NEW i \in DOMAIN new
          PROVE  \E q, x : q = new[i].turn /\ x = new[i].role /\ Stored(q, x)'
      <4>1. CASE i \in DOMAIN old
        BY <1>3, <3>2, <4>1
      <4>2. CASE i = Len(old) + 1
        <5>1. new[i].turn = t /\ new[i].role = role
          BY <1>3, <4>2
        <5> QED
          BY <3>1, <5>1
      <4> QED
        BY <1>3, <4>1, <4>2
    <3> QED
      BY <2>2, <3>5, <3>6
  <2> QED
    BY <2>1, <2>2
<1>8. ConvsKnown'
  BY <1>1, <1>2, <1>4 DEF TablesKnown, ConvsKnown
<1>9. StreamKnown'
  BY <1>1, <1>2 DEF TablesKnown, StreamKnown
<1>10. OwnConv'
  <2>1. \A q \in DOMAIN turns : turns'[q].asked = turns[q].asked /\ turns'[q].conv = turns[q].conv
    BY <1>2
  <2>2. stream.phase = "waiting" => stream.turn \in DOMAIN turns
    BY DEF ChatShape
  <2> QED
    BY <1>2, <1>4, <2>1, <2>2 DEF TablesKnown, OwnConv
<1> QED
  BY <1>7, <1>8, <1>9, <1>10 DEF TablesKnown

LEMMA ServeKeepsTables ==
  ASSUME ChatShape, TablesKnown, NEW r \in calls, Serve(r)
  PROVE  TablesKnown'
<1>1. /\ DOMAIN convs' = DOMAIN convs
      /\ \A c \in DOMAIN convs : convs'[c] = convs[c] \/ convs'[c].log = <<>>
      /\ UNCHANGED <<turns, chat, stream, hist>>
  BY ServeTells
<1>2. \A t : Begun(t)' <=> Begun(t)
  BY <1>1 DEF Begun
<1>3. Single(<<>>) /\ DOMAIN <<>> = {}
  BY DEF Single
<1>4. LogsKnown'
  BY <1>1, <1>3 DEF TablesKnown, LogsKnown, Stored
<1>5. ConvsKnown' /\ StreamKnown' /\ OwnConv'
  BY <1>1, <1>2 DEF TablesKnown, ConvsKnown, StreamKnown, OwnConv
<1> QED
  BY <1>4, <1>5 DEF TablesKnown

(* What the screen shows, unless it was loaded too early or holds messages  *)
(* of two conversations.                                                    *)
Exact == ~hist.mixed /\ ~hist.behind
Streaming == stream.phase \in {"waiting", "open"}

(* The placeholder is the message the stream is about to write.             *)
IsKnown(m) ==
  /\ m.turn \in DOMAIN turns
  /\ m.text = "pending" <=> Streaming /\ m.live /\ m.turn = stream.turn
MessagesKnown == \A i \in DOMAIN chat.messages : IsKnown(chat.messages[i])

(* A turn that waits for its metadata has the last two messages.            *)
LastKnown == stream.phase = "waiting" => IsLast(chat.messages, stream.turn)

(* The messages agree with the open conversation, or with the one the       *)
(* waiting turn goes to.                                                    *)
AskedIn(c) ==
  IF Begun(stream.turn) THEN c = turns[stream.turn].conv ELSE c = turns[stream.turn].asked
IsCopy(c) ==
  /\ stream.phase # "waiting" /\ c = chat.open
     => Agree(chat.messages, convs[c].log, 0, "answered")
  /\ stream.phase = "waiting" /\ AskedIn(c)
     => Agree(chat.messages, convs[c].log, stream.turn, turns[stream.turn].pc)
Copied == \A c \in DOMAIN convs : convs[c].exists => IsCopy(c)

CopyKnown == Exact => MessagesKnown /\ LastKnown /\ Copied

LEMMA MessagesStay ==
  ASSUME MessagesKnown, DOMAIN turns \subseteq DOMAIN turns', chat'.messages = chat.messages,
         Streaming' <=> Streaming, Streaming => stream'.turn = stream.turn
  PROVE  MessagesKnown'
<1> SUFFICES ASSUME NEW i \in DOMAIN chat.messages
             PROVE  \E m : m = chat'.messages[i] /\ IsKnown(m)'
  BY DEF MessagesKnown, IsKnown, Streaming
<1> PICK m : m = chat.messages[i]
  OBVIOUS
<1>1. IsKnown(m)
  BY DEF MessagesKnown
<1>2. IsKnown(m)'
  BY <1>1 DEF IsKnown
<1> QED
  BY <1>2

(* Steps that leave the screen and the server as they are.                  *)
LEMMA QuietCopies ==
  ASSUME CopyKnown, UNCHANGED <<turns, convs, stream, hist>>,
         chat'.messages = chat.messages, chat'.open = chat.open
  PROVE  CopyKnown'
<1>1. \A t : Begun(t)' <=> Begun(t)
  BY DEF Begun
<1>2. MessagesKnown => MessagesKnown'
  BY MessagesStay DEF Streaming
<1>3. LastKnown => LastKnown'
  BY DEF LastKnown
<1>4. Copied => Copied'
  BY <1>1 DEF Copied, IsCopy, AskedIn
<1> QED
  BY <1>2, <1>3, <1>4 DEF CopyKnown, Exact

LEMMA ServeCopies ==
  ASSUME ChatShape, CopyKnown, NEW r \in calls, Serve(r)
  PROVE  CopyKnown'
<1>1. /\ DOMAIN convs' = DOMAIN convs
      /\ \A c \in DOMAIN convs : convs'[c] = convs[c] \/ ~convs'[c].exists
      /\ UNCHANGED <<turns, chat, stream, hist>>
  BY ServeTells
<1>2. \A t : Begun(t)' <=> Begun(t)
  BY <1>1 DEF Begun
<1>3. MessagesKnown => MessagesKnown'
  BY <1>1, MessagesStay DEF Streaming
<1>4. LastKnown => LastKnown'
  BY <1>1 DEF LastKnown
<1>5. Copied => Copied'
  <2> SUFFICES ASSUME Copied, NEW c \in DOMAIN convs, convs'[c].exists
               PROVE  IsCopy(c)'
    BY <1>1 DEF Copied
  <2>1. convs'[c] = convs[c] /\ IsCopy(c)
    BY <1>1 DEF Copied
  <2> QED
    BY <1>1, <1>2, <2>1 DEF IsCopy, AskedIn
<1> QED
  BY <1>1, <1>3, <1>4, <1>5 DEF CopyKnown, Exact

LEMMA NoNumberZero ==
  ASSUME ChatShape
  PROVE  NoConv \notin DOMAIN convs /\ 0 \notin DOMAIN turns
BY DEF ChatShape, NoConv

(* The messages are replaced.                                               *)
LEMMA ShowsCopies ==
  ASSUME ChatShape, ScreenInv, TablesKnown, NEW conv, NEW messages,
         Shows(conv, messages, chat.list), UNCHANGED <<turns, convs, stream>>,
         (conv = NoConv /\ messages = <<>>) \/ conv \in DOMAIN convs
  PROVE  CopyKnown'
<1>1. chat'.messages = messages /\ chat'.open = conv
  <2> PICK u : u = [chat EXCEPT !.open = conv]
    OBVIOUS
  <2> PICK v : v = [u EXCEPT !.messages = messages]
    OBVIOUS
  <2>1. chat' = [v EXCEPT !.list = chat.list]
    BY DEF Shows
  <2>2. v = [list |-> chat.list, open |-> conv, messages |-> messages, sending |-> chat.sending]
    BY DEF ChatShape
  <2> QED
    BY <2>1, <2>2
<1> PICK mixed, behind :
      /\ mixed = (stream.phase = "waiting")
      /\ behind = (conv # NoConv /\ (stream.phase \in {"waiting", "open"} \/ messages # Loaded(conv)))
  OBVIOUS
<1>2. hist'.mixed = mixed /\ hist'.behind = behind
  <2>1. hist' = [hist EXCEPT !.mixed = mixed, !.behind = behind]
    BY DEF Shows
  <2>2. hist = [mixed |-> hist.mixed, behind |-> hist.behind]
    BY DEF ScreenInv, ScreenShape, TabScreen
  <2>3. hist' = [mixed |-> mixed, behind |-> behind]
    BY <2>1, <2>2
  <2> QED
    BY <2>3
<1> SUFFICES ASSUME Exact' PROVE MessagesKnown' /\ LastKnown' /\ Copied'
  BY DEF CopyKnown
<1>3. /\ stream.phase # "waiting"
      /\ conv # NoConv => stream.phase # "open" /\ messages = Loaded(conv)
  BY <1>2, Zenon DEF Exact
<1>4. LastKnown'
  BY <1>3 DEF LastKnown
<1>5. CASE conv = NoConv /\ messages = <<>>
  <2>1. DOMAIN chat'.messages = {}
    BY <1>1, <1>5
  <2>2. MessagesKnown'
    BY <2>1 DEF MessagesKnown
  <2>3. Copied'
    BY <1>1, <1>3, <1>5, NoNumberZero DEF Copied, IsCopy
  <2> QED
    BY <1>4, <2>2, <2>3
<1>6. CASE conv \in DOMAIN convs
  <2> PICK L : L = convs[conv].log
    OBVIOUS
  <2>1. conv # NoConv
    BY <1>6, NoNumberZero
  <2>2. messages = Loaded(conv) /\ stream.phase \notin {"waiting", "open"}
    BY <1>3, <2>1
  <2>3. L \in Seq(LogEntries) /\ Single(L)
    <3>1. convs[conv] \in ConvRecords
      BY <1>6 DEF ChatShape
    <3> QED
      BY <1>6, <3>1 DEF ConvRecords, TablesKnown, LogsKnown
  <2>4. DOMAIN messages = DOMAIN L
        /\ \A i \in DOMAIN L : messages[i].turn = L[i].turn /\ messages[i].text = L[i].role
    <3>1. messages =
            [i \in DOMAIN L |-> [turn |-> L[i].turn, text |-> L[i].role, live |-> FALSE]]
      BY <2>2 DEF Loaded
    <3>2. ASSUME NEW i \in DOMAIN L
          PROVE  messages[i].turn = L[i].turn /\ messages[i].text = L[i].role
      <4>1. messages[i] = [turn |-> L[i].turn, text |-> L[i].role, live |-> FALSE]
        BY <3>1
      <4> QED
        BY <4>1
    <3>3. DOMAIN messages = DOMAIN L
      BY <3>1
    <3> QED
      BY <3>2, <3>3
  <2>5. \A i \in DOMAIN L : L[i].turn \in DOMAIN turns /\ L[i].role # "pending"
    <3>1. \A i \in DOMAIN L : L[i] \in LogEntries
      BY <2>3
    <3>2. \A i \in DOMAIN L : L[i].turn \in DOMAIN turns
      BY <1>6 DEF ScreenInv, EntriesBound, In, Begun
    <3> QED
      BY <3>1, <3>2 DEF LogEntries
  <2>6. MessagesKnown'
    <3>1. ASSUME NEW i \in DOMAIN messages PROVE \E m : m = messages[i] /\ IsKnown(m)'
      <4>1. messages[i].turn \in DOMAIN turns /\ messages[i].text # "pending"
        BY <2>4, <2>5
      <4> QED
        BY <2>2, <4>1 DEF IsKnown, Streaming
    <3> QED
      BY <1>1, <3>1 DEF MessagesKnown, IsKnown, Streaming
  <2>7. Agree(messages, L, 0, "answered")
    BY <2>3, <2>4, LoadedAgree
  <2>8. Copied'
    BY <1>1, <1>3, <2>7 DEF Copied, IsCopy
  <2> QED
    BY <1>4, <2>6, <2>8
<1> QED
  BY <1>5, <1>6

LEMMA MetadataCopies ==
  ASSUME ChatShape, ScreenInv, TablesKnown, CopyKnown, MetadataArrives
  PROVE  CopyKnown'
<1> PICK t, c : t = stream.turn /\ c = turns[t].conv
  OBVIOUS
<1>1. /\ stream.phase = "waiting" /\ turns[t].pc = "answered"
      /\ chat' = [chat EXCEPT !.open = c] /\ stream' = [stream EXCEPT !.phase = "open"]
      /\ UNCHANGED <<turns, convs, hist>>
  BY DEF MetadataArrives, TurnAt, server
<1>2. chat'.messages = chat.messages /\ chat'.open = c
  BY <1>1 DEF ChatShape
<1>3. stream'.phase = "open" /\ stream'.turn = t
  BY <1>1 DEF ChatShape
<1>4. MessagesKnown => MessagesKnown'
  BY <1>1, <1>2, <1>3, MessagesStay DEF Streaming
<1>5. LastKnown'
  BY <1>3 DEF LastKnown
<1>6. Copied => Copied'
  <2> SUFFICES ASSUME Copied, c \in DOMAIN convs, convs[c].exists
               PROVE  Agree(chat.messages, convs[c].log, 0, "answered")
    BY <1>1, <1>2, <1>3 DEF Copied, IsCopy
  <2>1. AskedIn(c)
    BY <1>1 DEF AskedIn, Begun, ChatShape
  <2>2. Agree(chat.messages, convs[c].log, t, "answered")
    BY <1>1, <2>1 DEF Copied, IsCopy
  <2> QED
    BY <2>2, AnyTurnAnswered
<1> QED
  BY <1>1, <1>4, <1>5, <1>6 DEF CopyKnown, Exact

LEMMA AnswerCopies ==
  ASSUME ChatShape, ScreenInv, TablesKnown, CopyKnown, AnswerArrives
  PROVE  CopyKnown'
<1>1. TabScreen
  BY DEF ScreenInv, ScreenShape
<1>2. PICK ms \in Seq(TabMessages) :
        /\ chat' = [list |-> chat.list, open |-> chat.open, messages |-> ms,
                    sending |-> chat.sending]
        /\ DOMAIN ms = DOMAIN chat.messages
        /\ \A i \in DOMAIN ms :
             /\ ms[i].turn = chat.messages[i].turn
             /\ ms[i].text = chat.messages[i].text
                \/ (ms[i].turn = stream.turn /\ ms[i].text = "answer")
             /\ ~chat.messages[i].live => ms[i].text = chat.messages[i].text
             /\ ms[i].turn = stream.turn /\ chat.messages[i].live => ms[i].text = "answer"
  BY <1>1, WritesTells DEF AnswerArrives
<1>3. /\ stream.phase = "open" /\ stream' = [stream EXCEPT !.phase = "listing"]
      /\ UNCHANGED <<turns, convs, hist>>
  BY DEF AnswerArrives, server
<1>4. stream'.phase = "listing" /\ chat'.messages = ms /\ chat'.open = chat.open
  BY <1>2, <1>3 DEF ChatShape
<1> SUFFICES ASSUME MessagesKnown, Copied PROVE MessagesKnown' /\ LastKnown' /\ Copied'
  BY <1>3 DEF CopyKnown, Exact
<1>5. ASSUME NEW i \in DOMAIN ms
      PROVE  /\ ms[i].turn \in DOMAIN turns /\ ms[i].text # "pending"
             /\ \/ ms[i].text = chat.messages[i].text
                \/ chat.messages[i].text = "pending" /\ ms[i].text = "answer"
  <2> PICK m : m = chat.messages[i]
    OBVIOUS
  <2>1. IsKnown(m)
    BY <1>2 DEF MessagesKnown
  <2>2. m.turn \in DOMAIN turns /\ (m.text = "pending" <=> m.live /\ m.turn = stream.turn)
    BY <1>3, <2>1 DEF IsKnown, Streaming
  <2> QED
    BY <1>2, <2>2
<1>6. MessagesKnown'
  <2>1. ASSUME NEW i \in DOMAIN ms PROVE \E m : m = ms[i] /\ IsKnown(m)'
    BY <1>3, <1>4, <1>5 DEF IsKnown, Streaming
  <2> QED
    BY <1>4, <2>1 DEF MessagesKnown, IsKnown, Streaming
<1>7. LastKnown'
  BY <1>4 DEF LastKnown
<1>8. Copied'
  <2> SUFFICES ASSUME NEW c \in DOMAIN convs, convs[c].exists, c = chat.open
               PROVE  Agree(ms, convs[c].log, 0, "answered")
    BY <1>3, <1>4 DEF Copied, IsCopy
  <2> PICK S, L : S = chat.messages /\ L = convs[c].log
    OBVIOUS
  <2>1. Agree(S, L, 0, "answered")
    BY <1>3 DEF Copied, IsCopy
  <2>2. L \in Seq(LogEntries)
    <3>1. convs[c] \in ConvRecords
      BY DEF ChatShape
    <3> QED
      BY <3>1 DEF ConvRecords
  <2>3. DOMAIN ms = DOMAIN S
    BY <1>2
  <2>4. \A i \in DOMAIN S : /\ ms[i].turn = S[i].turn
                            /\ \/ ms[i].text = S[i].text
                               \/ S[i].text = "pending" /\ ms[i].text = "answer"
    BY <1>2, <1>5
  <2>5. Agree(ms, L, 0, "answered")
    BY <2>1, <2>2, <2>3, <2>4, AgreeAnswered
  <2> QED
    BY <2>5
<1> QED
  BY <1>6, <1>7, <1>8

LEMMA ListedCopies ==
  ASSUME ChatShape, CopyKnown, TurnListed
  PROVE  CopyKnown'
<1>1. /\ stream.phase = "listing" /\ chat' = [chat EXCEPT !.sending = FALSE, !.list = ListOf(stored)]
      /\ stream' = NoStream /\ UNCHANGED <<turns, convs, hist>>
  BY DEF TurnListed, Finished, server
<1>2. chat'.messages = chat.messages /\ chat'.open = chat.open
  BY <1>1 DEF ChatShape
<1>3. stream'.phase = "none"
  BY <1>1 DEF NoStream
<1>4. MessagesKnown => MessagesKnown'
  BY <1>1, <1>2, <1>3, MessagesStay DEF Streaming
<1>5. LastKnown'
  BY <1>3 DEF LastKnown
<1>6. Copied => Copied'
  BY <1>1, <1>2, <1>3 DEF Copied, IsCopy
<1> QED
  BY <1>1, <1>4, <1>5, <1>6 DEF CopyKnown, Exact

LEMMA LostCopies ==
  ASSUME ChatShape, ChatLost
  PROVE  CopyKnown'
<1>1. /\ UNCHANGED <<turns, convs>> /\ chat'.messages = <<>> /\ chat'.open = NoConv
      /\ stream'.phase = "none"
  BY DEF ChatLost, server, EmptyChat, NoStream
<1>2. DOMAIN <<>> = {}
  OBVIOUS
<1>3. MessagesKnown'
  BY <1>1, <1>2 DEF MessagesKnown
<1>4. LastKnown' /\ Copied'
  BY <1>1, NoNumberZero DEF LastKnown, Copied, IsCopy
<1> QED
  BY <1>3, <1>4 DEF CopyKnown

LEMMA LogsAreSequences ==
  ASSUME ChatShape, NEW c \in DOMAIN convs
  PROVE  convs[c].log \in Seq(LogEntries)
<1>1. convs[c] \in ConvRecords
  BY DEF ChatShape
<1> QED
  BY <1>1 DEF ConvRecords

(* The open conversation is the one the waiting turn goes to.               *)
LEMMA AskedInOpen ==
  ASSUME ChatShape, ScreenInv, ~hist.mixed, stream.phase = "waiting", chat.open # NoConv
  PROVE  AskedIn(chat.open)
<1>1. stream.turn \in DOMAIN turns /\ turns[stream.turn].asked = chat.open
  BY DEF ChatShape, ScreenInv, ScreenKnown, Awaited
<1> QED
  BY <1>1 DEF AskedIn, ScreenInv, TurnsBound

LEMMA FailsCopies ==
  ASSUME ChatShape, ScreenInv, TablesKnown, CopyKnown, StreamFails
  PROVE  CopyKnown'
<1> PICK S, t : S = chat.messages /\ t = stream.turn
  OBVIOUS
<1>1. TabScreen
  BY DEF ScreenInv, ScreenShape
<1>2. PICK ms \in Seq(TabMessages) :
        /\ Writes("error") = [list |-> chat.list, open |-> chat.open, messages |-> ms,
                              sending |-> chat.sending]
        /\ DOMAIN ms = DOMAIN S
        /\ \A i \in DOMAIN ms :
             /\ ms[i].turn = S[i].turn
             /\ ms[i].text = S[i].text \/ (ms[i].turn = t /\ ms[i].text = "error")
             /\ ~S[i].live => ms[i].text = S[i].text
             /\ ms[i].turn = t /\ S[i].live => ms[i].text = "error"
  BY <1>1, WritesTells
<1>3. /\ chat' = [Writes("error") EXCEPT !.sending = FALSE] /\ stream' = NoStream
      /\ UNCHANGED <<turns, convs, hist>> /\ stream.phase \in {"waiting", "open", "listing"}
  BY DEF StreamFails, Finished, server
<1> PICK w : w = Writes("error")
  OBVIOUS
<1>4. chat'.messages = ms /\ chat'.open = chat.open
  <2>1. chat' = [w EXCEPT !.sending = FALSE]
    BY <1>3
  <2>2. w = [list |-> chat.list, open |-> chat.open, messages |-> ms, sending |-> chat.sending]
    BY <1>2
  <2> QED
    BY <2>1, <2>2
<1>5. stream'.phase = "none"
  BY <1>3 DEF NoStream
<1> SUFFICES ASSUME Exact, MessagesKnown, LastKnown, Copied
             PROVE  MessagesKnown' /\ LastKnown' /\ Copied'
  BY <1>3 DEF CopyKnown, Exact
<1>6. ASSUME NEW i \in DOMAIN ms
      PROVE  /\ ms[i].turn \in DOMAIN turns /\ ms[i].text # "pending"
             /\ S[i].text = "pending" => ms[i].text = "error" /\ ms[i].turn = t
  <2> PICK m : m = S[i]
    OBVIOUS
  <2>1. IsKnown(m)
    BY <1>2 DEF MessagesKnown
  <2>2. m.turn \in DOMAIN turns /\ (m.text = "pending" => m.live /\ m.turn = t)
    BY <2>1 DEF IsKnown
  <2> QED
    BY <1>2, <2>2
<1>7. MessagesKnown'
  <2>1. ASSUME NEW i \in DOMAIN ms PROVE \E m : m = ms[i] /\ IsKnown(m)'
    BY <1>3, <1>5, <1>6 DEF IsKnown, Streaming
  <2> QED
    BY <1>4, <2>1 DEF MessagesKnown, IsKnown, Streaming
<1>8. LastKnown'
  BY <1>5 DEF LastKnown
<1>9. Copied'
  <2> SUFFICES ASSUME NEW c \in DOMAIN convs, convs[c].exists, c = chat.open
               PROVE  Agree(ms, convs[c].log, 0, "answered")
    BY <1>3, <1>4, <1>5 DEF Copied, IsCopy
  <2> PICK L : L = convs[c].log
    OBVIOUS
  <2>1. L \in Seq(LogEntries)
    BY LogsAreSequences
  <2>2. \A i \in DOMAIN S : /\ ms[i].turn = S[i].turn
                            /\ ms[i].text = S[i].text \/ (S[i].turn = t /\ ms[i].text = "error")
    BY <1>2
  <2>3. DOMAIN ms = DOMAIN S
    BY <1>2
  <2>4. CASE stream.phase = "waiting"
    <3> PICK pc : pc = turns[t].pc
      OBVIOUS
    <3>1. AskedIn(c)
      BY <2>4, AskedInOpen, NoNumberZero DEF Exact
    <3>2. Agree(S, L, t, pc)
      BY <2>4, <3>1 DEF Copied, IsCopy
    <3>3. Fails(ms, t)
      <4> PICK n : n = Len(S)
        OBVIOUS
      <4>1. n >= 2 /\ S[n].text = "pending"
        BY <2>4 DEF LastKnown, IsLast
      <4>2. n \in DOMAIN S
        <5>1. S \in Seq(TabMessages)
          BY <1>1 DEF TabScreen
        <5>2. n \in Nat /\ DOMAIN S = 1..n
          BY <5>1, LenProperties
        <5> QED
          BY <4>1, <5>2
      <4>3. ms[n].text = "error" /\ ms[n].turn = t /\ n \in DOMAIN ms
        BY <1>2, <1>6, <4>1, <4>2
      <4> QED
        BY <4>3, Zenon DEF Fails
    <3>4. Agree(ms, L, 0, "answered")
      BY <2>2, <2>3, <3>2, <3>3, AgreeFailing
    <3> QED
      BY <3>4
  <2>5. CASE stream.phase # "waiting"
    <3>1. Agree(S, L, 0, "answered")
      BY <2>5 DEF Copied, IsCopy
    <3>2. CASE Fails(ms, t)
      <4>1. Agree(S, L, t, "answered")
        BY <3>1, AnyTurnAnswered
      <4>2. Agree(ms, L, 0, "answered")
        BY <2>2, <2>3, <3>2, <4>1, AgreeFailing
      <4> QED
        BY <4>2
    <3>3. CASE ~Fails(ms, t)
      <4>1. \A i \in DOMAIN S : ms[i].turn = S[i].turn /\ ms[i].text = S[i].text
        BY <2>2, <2>3, <3>3 DEF Fails
      <4>2. Agree(ms, L, 0, "answered")
        BY <2>1, <2>3, <3>1, <4>1, AgreeAnswered
      <4> QED
        BY <4>2
    <3> QED
      BY <3>2, <3>3
  <2> QED
    BY <2>4, <2>5
<1> QED
  BY <1>7, <1>8, <1>9

LEMMA SendCopies ==
  ASSUME ChatShape, ScreenInv, TablesKnown, CopyKnown, Send
  PROVE  CopyKnown'
<1> PICK S, t : S = chat.messages /\ t = Len(turns) + 1
  OBVIOUS
<1>1. TabScreen
  BY DEF ScreenInv, ScreenShape
<1>2. /\ t \in Nat /\ t \notin DOMAIN turns /\ DOMAIN turns' = DOMAIN turns \cup {t}
      /\ \A k \in DOMAIN turns : turns'[k] = turns[k]
      /\ turns'[t].asked = chat.open /\ turns'[t].pc = "sent"
      /\ stream' = [turn |-> t, phase |-> "waiting"] /\ stream.phase = "none"
      /\ UNCHANGED <<convs, hist>> /\ chat'.open = chat.open
  BY <1>1, SendTells
<1>3. PICK ms \in Seq(TabMessages) :
        /\ chat'.messages = ms /\ DOMAIN ms = 1..(Len(S) + 2)
        /\ Len(ms) = Len(S) + 2
        /\ \A i \in DOMAIN S : ms[i] = S[i]
        /\ ms[Len(S) + 1] = [turn |-> t, text |-> "question", live |-> FALSE]
        /\ ms[Len(S) + 2] = [turn |-> t, text |-> "pending", live |-> TRUE]
  BY <1>1, SendTells
<1>4. stream'.turn = t /\ stream'.phase = "waiting" /\ ~Begun(t)'
  BY <1>2 DEF Begun
<1> PICK n : n = Len(S)
  OBVIOUS
<1>5. S \in Seq(TabMessages) /\ n \in Nat /\ DOMAIN S = 1..n
  <2>1. S \in Seq(TabMessages)
    BY <1>1 DEF TabScreen
  <2> QED
    BY <2>1, LenProperties
<1>6. /\ ms[n + 1].turn = t /\ ms[n + 1].text = "question" /\ ~ms[n + 1].live
      /\ ms[n + 2].turn = t /\ ms[n + 2].text = "pending" /\ ms[n + 2].live
  BY <1>3
<1> SUFFICES ASSUME MessagesKnown, Copied PROVE MessagesKnown' /\ LastKnown' /\ Copied'
  BY <1>2 DEF CopyKnown, Exact
<1>7. \A i \in DOMAIN S : S[i].turn \in DOMAIN turns /\ S[i].text # "pending"
  BY <1>2 DEF MessagesKnown, IsKnown, Streaming
<1>8. MessagesKnown'
  <2>1. ASSUME NEW i \in DOMAIN ms PROVE \E m : m = ms[i] /\ IsKnown(m)'
    <3> PICK m : m = ms[i]
      OBVIOUS
    <3>1. CASE i \in DOMAIN S
      <4>1. m.turn \in DOMAIN turns /\ m.text # "pending" /\ m.turn # t
        BY <1>2, <1>3, <1>7, <3>1
      <4> QED
        BY <1>2, <1>4, <4>1 DEF IsKnown
    <3>2. CASE i = n + 1
      <4>1. m.turn = t /\ m.text = "question" /\ ~m.live
        BY <1>6, <3>2
      <4> QED
        BY <1>2, <1>4, <4>1 DEF IsKnown
    <3>3. CASE i = n + 2
      <4>1. m.turn = t /\ m.text = "pending" /\ m.live
        BY <1>6, <3>3
      <4> QED
        BY <1>2, <1>4, <4>1 DEF IsKnown, Streaming
    <3>4. i \in DOMAIN S \/ i = n + 1 \/ i = n + 2
      <4>1. i \in 1..(n + 2)
        BY <1>3
      <4>2. i \in 1..n \/ i = n + 1 \/ i = n + 2
        BY <1>5, <4>1
      <4> QED
        BY <1>5, <4>2
    <3> QED
      BY <3>1, <3>2, <3>3, <3>4
  <2> QED
    BY <1>3, <2>1 DEF MessagesKnown, IsKnown, Streaming
<1>9. LastKnown'
  <2>1. IsLast(ms, t)
    <3>1. Len(ms) = n + 2 /\ Len(ms) - 1 = n + 1 /\ Len(ms) >= 2
      BY <1>3, <1>5
    <3>2. ASSUME NEW i \in DOMAIN ms, i < n + 1 PROVE ms[i].turn # t
      <4>1. i \in DOMAIN S
        BY <1>3, <1>5, <3>2
      <4> QED
        BY <1>2, <1>3, <1>7, <4>1
    <3> QED
      BY <1>6, <3>1, <3>2 DEF IsLast
  <2> QED
    BY <1>3, <1>4, <2>1 DEF LastKnown
<1>10. Copied'
  <2> SUFFICES ASSUME NEW c \in DOMAIN convs, convs[c].exists, c = chat.open
               PROVE  Agree(ms, convs[c].log, t, "sent")
    BY <1>2, <1>3, <1>4 DEF Copied, IsCopy, AskedIn
  <2> PICK L : L = convs[c].log
    OBVIOUS
  <2>1. L \in Seq(LogEntries)
    BY LogsAreSequences
  <2>2. Agree(S, L, 0, "answered")
    BY <1>2 DEF Copied, IsCopy
  <2>3. \A k \in DOMAIN L : L[k].turn # t
    BY <1>2 DEF ScreenInv, EntriesBound, In, Begun
  <2>4. \A i \in DOMAIN S : S[i].turn # t
    BY <1>2, <1>7
  <2>5. \A i \in {Len(S) + 1, Len(S) + 2} : ms[i].turn = t /\ ms[i].text # "error"
    BY <1>6
  <2>6. t \in Nat /\ DOMAIN ms = 1..(Len(S) + 2) /\ \A i \in DOMAIN S : ms[i] = S[i]
    BY <1>2, <1>3
  <2>7. Agree(ms, L, t, "sent")
    BY <1>5, <2>1, <2>2, <2>3, <2>4, <2>5, <2>6, AgreeAsked
  <2> QED
    BY <2>7
<1> QED
  BY <1>8, <1>9, <1>10

LEMMA BindCopies ==
  ASSUME ChatShape, ScreenInv, TablesKnown, CopyKnown, NEW t \in DOMAIN turns, Bind(t)
  PROVE  CopyKnown'
<1> PICK S : S = chat.messages
  OBVIOUS
<1>1. /\ DOMAIN turns' = DOMAIN turns /\ \A q \in DOMAIN turns : q # t => turns'[q] = turns[q]
      /\ turns[t].pc = "sent" /\ turns'[t].pc = "bound" /\ turns'[t].asked = turns[t].asked
      /\ \A k \in DOMAIN convs : convs'[k] = convs[k]
      /\ \/ /\ turns[t].asked = NoConv /\ turns'[t].conv \notin DOMAIN convs \cup {NoConv}
            /\ DOMAIN convs' = DOMAIN convs \cup {turns'[t].conv}
            /\ convs'[turns'[t].conv].log = <<>>
         \/ turns[t].asked # NoConv /\ turns'[t].conv = turns[t].asked
            /\ DOMAIN convs' = DOMAIN convs
      /\ UNCHANGED <<chat, stream, hist>>
  BY BindTells
<1>2. ~Begun(t) /\ Begun(t)' /\ \A k \in DOMAIN turns : k # t => (Begun(k)' <=> Begun(k))
  BY <1>1 DEF Begun
<1> SUFFICES ASSUME Exact, MessagesKnown, LastKnown, Copied
             PROVE  MessagesKnown' /\ LastKnown' /\ Copied'
  BY <1>1 DEF CopyKnown, Exact
<1>3. MessagesKnown'
  BY <1>1, MessagesStay DEF Streaming
<1>4. LastKnown'
  BY <1>1 DEF LastKnown
<1>5. Copied'
  <2> SUFFICES ASSUME NEW c \in DOMAIN convs', convs'[c].exists
               PROVE  IsCopy(c)'
    BY DEF Copied
  <2>1. CASE stream.phase # "waiting"
    <3> SUFFICES ASSUME c = chat.open PROVE Agree(S, convs'[c].log, 0, "answered")
      BY <1>1, <2>1 DEF IsCopy
    <3>1. c \in DOMAIN convs
      BY <1>1, NoNumberZero DEF TablesKnown, ConvsKnown
    <3>2. convs'[c] = convs[c]
      BY <1>1, <3>1
    <3> QED
      BY <2>1, <3>1, <3>2 DEF Copied, IsCopy
  <2>2. CASE stream.phase = "waiting" /\ stream.turn = t
    <3> SUFFICES ASSUME c = turns'[t].conv PROVE Agree(S, convs'[c].log, t, "bound")
      BY <1>1, <1>2, <2>2 DEF IsCopy, AskedIn
    <3>1. turns[t].asked = chat.open
      BY <2>2 DEF ScreenInv, ScreenKnown, Awaited, Exact
    <3>2. CASE turns[t].asked # NoConv
      <4>1. c = turns[t].asked /\ c \in DOMAIN convs
        BY <1>1, <3>2
      <4>2. convs'[c] = convs[c] /\ convs[c].exists
        BY <1>1, <4>1
      <4>3. AskedIn(c)
        BY <1>2, <2>2, <4>1 DEF AskedIn
      <4>4. Agree(S, convs[c].log, t, "sent")
        BY <1>1, <2>2, <4>1, <4>2, <4>3 DEF Copied, IsCopy
      <4>5. Agree(S, convs[c].log, t, "bound")
        BY <4>4, AgreeBound
      <4> QED
        BY <4>2, <4>5
    <3>3. CASE turns[t].asked = NoConv
      <4>1. ASSUME NEW i \in DOMAIN S
            PROVE  Fails(S, S[i].turn) \/ S[i].turn = t
        <5> PICK m : m = S[i].turn
          OBVIOUS
        <5>1. Shown(m)
          BY DEF ScreenInv, ScreenKnown, Exact
        <5>2. ~In(m, chat.open)
          BY <3>1, <3>3 DEF ScreenInv, TurnsBound, In, Begun
        <5>3. Failing(m) \/ m = t
          BY <2>2, <5>1, <5>2 DEF Shown, Waiting
        <5> QED
          BY <5>3 DEF Failing, Fails
      <4> PICK L : L = convs'[c].log
        OBVIOUS
      <4>2. DOMAIN L = {}
        <5>1. L = <<>>
          BY <1>1, <3>3
        <5> QED
          BY <5>1
      <4>3. Agree(S, L, t, "bound")
        BY <4>1, <4>2, NothingAgrees
      <4> QED
        BY <4>3
    <3> QED
      BY <3>2, <3>3
  <2>3. CASE stream.phase = "waiting" /\ stream.turn # t
    <3> PICK u : u = stream.turn
      OBVIOUS
    <3>1. u \in DOMAIN turns /\ turns'[u] = turns[u] /\ (Begun(u)' <=> Begun(u))
      BY <1>1, <1>2, <2>3 DEF ChatShape
    <3> SUFFICES ASSUME AskedIn(c) PROVE Agree(S, convs'[c].log, u, turns[u].pc)
      BY <1>1, <2>3, <3>1 DEF IsCopy, AskedIn
    <3>2. c \in DOMAIN convs
      <4>1. c \in DOMAIN convs \cup {NoConv}
        BY <3>1 DEF AskedIn, TablesKnown, ConvsKnown
      <4>2. c # NoConv
        <5>1. NoConv \notin DOMAIN convs
          BY NoNumberZero
        <5> QED
          BY <1>1, <5>1
      <4> QED
        BY <4>1, <4>2
    <3>3. convs'[c] = convs[c]
      BY <1>1, <3>2
    <3> QED
      BY <2>3, <3>2, <3>3 DEF Copied, IsCopy
  <2> QED
    BY <2>1, <2>2, <2>3
<1> QED
  BY <1>3, <1>4, <1>5

LEMMA StoreCopies ==
  ASSUME ChatShape, ScreenInv, TablesKnown, CopyKnown,
         NEW t \in DOMAIN turns, NEW pc, NEW role, NEW next,
         \/ pc = "bound" /\ role = "question" /\ next = "asked"
         \/ pc = "asked" /\ role = "answer" /\ next = "answered",
         Store(t, pc, role, next)
  PROVE  CopyKnown'
<1> PICK c, S, e : c = turns[t].conv /\ S = chat.messages /\ e = [turn |-> t, role |-> role]
  OBVIOUS
<1>1. turns[t].pc = pc /\ Begun(t) /\ c \in DOMAIN convs
  <2>1. turns[t].pc = pc
    BY DEF Store, TurnAt
  <2> QED
    BY <2>1 DEF Begun, TablesKnown, ConvsKnown
<1>2. /\ DOMAIN turns' = DOMAIN turns /\ \A q \in DOMAIN turns : q # t => turns'[q] = turns[q]
      /\ turns'[t].pc = next /\ turns'[t].asked = turns[t].asked
      /\ turns'[t].conv = c
      /\ DOMAIN convs' = DOMAIN convs /\ \A k \in DOMAIN convs : k # c => convs'[k] = convs[k]
      /\ convs'[c].exists = convs[c].exists
      /\ UNCHANGED <<chat, stream>> /\ hist'.mixed = hist.mixed
      /\ (hist'.behind <=> hist.behind \/ (t # stream.turn /\ chat.open = c /\ ~Failing(t)))
  BY <1>1, StoreTells DEF ScreenInv
<1> PICK old, new : old = convs[c].log /\ new = convs'[c].log
  OBVIOUS
<1>3. Appended(old, new, e)
  BY <1>1, StoreAppends
<1>4. e.turn = t /\ e.role = role
  OBVIOUS
<1>5. \A q \in DOMAIN turns : Begun(q)' <=> Begun(q)
  BY <1>1, <1>2 DEF Begun
<1> SUFFICES ASSUME Exact, t = stream.turn \/ chat.open # c \/ Failing(t),
                    MessagesKnown, LastKnown, Copied
             PROVE  MessagesKnown' /\ LastKnown' /\ Copied'
  BY <1>2 DEF CopyKnown, Exact
<1>6. MessagesKnown'
  BY <1>2, MessagesStay DEF Streaming
<1>7. LastKnown'
  BY <1>2 DEF LastKnown
<1>8. S \in Seq(TabMessages)
  BY DEF ScreenInv, ScreenShape, TabScreen
<1>9. stream.phase = "waiting" => stream.turn \in DOMAIN turns
  BY DEF ChatShape
<1>10. ASSUME NEW u, NEW p, Agree(S, old, u, p), Failing(t)
       PROVE  Agree(S, new, u, p)
  <2>1. Fails(S, e.turn)
    BY <1>4, <1>10 DEF Fails, Failing
  <2> QED
    BY <1>3, <1>8, <1>10, <2>1, AgreeFailedStored DEF Appended
<1>11. Copied'
  <2> SUFFICES ASSUME NEW k \in DOMAIN convs, convs'[k].exists
               PROVE  IsCopy(k)'
    BY <1>2 DEF Copied
  <2>0. IsCopy(k)
    BY <1>2 DEF Copied
  <2>1. CASE stream.phase # "waiting"
    <3> SUFFICES ASSUME k = chat.open PROVE Agree(S, convs'[k].log, 0, "answered")
      BY <1>2, <2>1 DEF IsCopy
    <3>1. Agree(S, convs[k].log, 0, "answered")
      BY <2>0, <2>1 DEF IsCopy
    <3>2. CASE k # c
      BY <1>2, <3>1, <3>2
    <3>3. CASE k = c
      <4>1. t # stream.turn
        <5>1. stream.phase = "none" => stream.turn = 0
          BY DEF TablesKnown, StreamKnown
        <5>2. stream.phase \in {"open", "listing"} => turns[stream.turn].pc = "answered"
          BY DEF TablesKnown, StreamKnown
        <5>3. stream.phase \in {"none", "open", "listing"}
          BY <2>1 DEF TablesKnown, StreamKnown
        <5> QED
          BY <1>1, <5>1, <5>2, <5>3, NoNumberZero
      <4>2. Failing(t)
        BY <3>3, <4>1
      <4> QED
        BY <1>10, <3>1, <3>3, <4>2
    <3> QED
      BY <3>2, <3>3
  <2>2. CASE stream.phase = "waiting" /\ stream.turn = t
    <3> SUFFICES ASSUME k = c PROVE Agree(S, new, t, next)
      BY <1>1, <1>2, <1>5, <2>2 DEF IsCopy, AskedIn
    <3>1. Agree(S, old, t, pc)
      BY <1>1, <2>0, <2>2 DEF IsCopy, AskedIn
    <3>2. \A i \in DOMAIN old : old[i].turn = t => pc = "asked" /\ old[i].role = "question"
      BY <1>1 DEF TablesKnown, LogsKnown, Stored
    <3>3. IsLast(S, t)
      BY <2>2 DEF LastKnown
    <3>5. \/ pc = "bound" /\ e.role = "question" /\ next = "asked"
          \/ pc = "asked" /\ e.role = "answer" /\ next = "answered"
      BY <1>4
    <3> QED
      BY <1>3, <1>4, <1>8, <3>1, <3>2, <3>3, <3>5, AgreeStored
  <2>3. CASE stream.phase = "waiting" /\ stream.turn # t
    <3> PICK u : u = stream.turn
      OBVIOUS
    <3>1. u \in DOMAIN turns /\ turns'[u] = turns[u] /\ (Begun(u)' <=> Begun(u))
      BY <1>2, <1>5, <1>9, <2>3
    <3> SUFFICES ASSUME AskedIn(k) PROVE Agree(S, convs'[k].log, u, turns[u].pc)
      BY <1>2, <2>3, <3>1 DEF IsCopy, AskedIn
    <3>2. Agree(S, convs[k].log, u, turns[u].pc)
      BY <2>0, <2>3 DEF IsCopy
    <3>3. CASE k # c
      BY <1>2, <3>2, <3>3
    <3>4. CASE k = c
      <4>1. turns[u].asked = chat.open
        BY <2>3 DEF ScreenInv, ScreenKnown, Awaited, Exact
      <4>2. c = chat.open
        <5>1. CASE ~Begun(u)
          BY <3>4, <4>1, <5>1 DEF AskedIn
        <5>2. CASE Begun(u)
          <6>1. turns[u].conv = c
            BY <3>4, <5>2 DEF AskedIn
          <6>2. turns[u].asked # NoConv
            BY <1>1, <2>3, <5>2, <6>1 DEF TablesKnown, OwnConv
          <6> QED
            BY <3>1, <4>1, <5>2, <6>1, <6>2 DEF ScreenInv, TurnsBound
        <5> QED
          BY <5>1, <5>2
      <4>3. Failing(t)
        BY <2>3, <4>2
      <4> QED
        BY <1>10, <3>2, <3>4, <4>3
    <3> QED
      BY <3>3, <3>4
  <2> QED
    BY <2>1, <2>2, <2>3
<1> QED
  BY <1>6, <1>7, <1>11

CopyInv == TablesKnown /\ CopyKnown

(* What the steps of the chat keep.                                         *)
LEMMA QuietKeepsCopy ==
  ASSUME CopyInv, UNCHANGED <<turns, convs, stream, hist>>,
         chat'.messages = chat.messages, chat'.open = chat.open
  PROVE  CopyInv'
<1>1. StreamKnown'
  BY DEF CopyInv, TablesKnown, StreamKnown
<1>2. chat'.open \in DOMAIN convs \cup {NoConv} /\ UNCHANGED server
  BY DEF CopyInv, TablesKnown, ConvsKnown, server
<1>3. TablesKnown'
  BY <1>1, <1>2, SameKnown DEF CopyInv
<1> QED
  BY <1>3, QuietCopies DEF CopyInv

LEMMA ShowsKeepsCopy ==
  ASSUME ChatShape, ScreenInv, CopyInv, NEW conv, NEW messages,
         Shows(conv, messages, chat.list), UNCHANGED <<turns, convs, stream>>,
         (conv = NoConv /\ messages = <<>>) \/ conv \in DOMAIN convs
  PROVE  CopyInv'
<1>1. chat'.open = conv
  <2>1. chat' = [chat EXCEPT !.open = conv, !.messages = messages, !.list = chat.list]
    BY DEF Shows
  <2> QED
    BY <2>1 DEF ChatShape
<1>2. StreamKnown' /\ UNCHANGED server
  BY DEF CopyInv, TablesKnown, StreamKnown, server
<1>3. TablesKnown'
  BY <1>1, <1>2, SameKnown DEF CopyInv
<1> QED
  BY <1>3, ShowsCopies DEF CopyInv

(* The steps of the stream.                                                 *)
LEMMA StreamKeepsCopy ==
  ASSUME ChatShape, ScreenInv, CopyInv,
         MetadataArrives \/ AnswerArrives \/ TurnListed \/ StreamFails \/ ChatLost
  PROVE  CopyInv'
<1>0. UNCHANGED server
  BY DEF MetadataArrives, AnswerArrives, TurnListed, StreamFails, ChatLost
<1>1. /\ chat'.open \in DOMAIN convs \cup {NoConv} /\ StreamKnown'
      /\ stream'.phase # "waiting"
  <2> PICK t : t = stream.turn
    OBVIOUS
  <2>0. UNCHANGED <<turns, convs>> /\ chat.open \in DOMAIN convs \cup {NoConv}
    BY <1>0 DEF server, CopyInv, TablesKnown, ConvsKnown
  <2>1. CASE MetadataArrives
    <3>1. /\ stream.phase = "waiting" /\ turns[t].pc = "answered"
          /\ chat' = [chat EXCEPT !.open = turns[t].conv] /\ stream' = [stream EXCEPT !.phase = "open"]
      BY <2>1 DEF MetadataArrives, TurnAt
    <3>2. chat'.open = turns[t].conv /\ stream'.phase = "open" /\ stream'.turn = t
      BY <3>1 DEF ChatShape
    <3>3. t \in DOMAIN turns /\ Begun(t)
      BY <3>1 DEF ChatShape, Begun
    <3>4. turns[t].conv \in DOMAIN convs
      BY <3>3 DEF CopyInv, TablesKnown, ConvsKnown
    <3> QED
      BY <2>0, <3>1, <3>2, <3>3, <3>4 DEF StreamKnown
  <2>2. CASE AnswerArrives
    <3>1. stream.phase = "open" /\ stream' = [stream EXCEPT !.phase = "listing"]
      BY <2>2 DEF AnswerArrives
    <3>2. stream'.phase = "listing" /\ stream'.turn = t
      BY <3>1 DEF ChatShape
    <3>3. chat'.open = chat.open
      <4>1. TabScreen
        BY DEF ScreenInv, ScreenShape
      <4>2. PICK ms \in Seq(TabMessages) :
              Writes("answer") = [list |-> chat.list, open |-> chat.open, messages |-> ms,
                                  sending |-> chat.sending]
        BY <4>1, WritesTells
      <4> QED
        BY <2>2, <4>2 DEF AnswerArrives
    <3> QED
      BY <2>0, <3>1, <3>2, <3>3 DEF StreamKnown, CopyInv, TablesKnown
  <2>3. CASE TurnListed
    <3>1. /\ chat' = [chat EXCEPT !.sending = FALSE, !.list = ListOf(stored)]
          /\ stream' = NoStream
      BY <2>3 DEF TurnListed, Finished
    <3>2. chat'.open = chat.open /\ stream'.phase = "none" /\ stream'.turn = 0
      BY <3>1 DEF ChatShape, NoStream
    <3> QED
      BY <2>0, <3>2 DEF StreamKnown
  <2>4. CASE StreamFails
    <3>1. chat' = [Writes("error") EXCEPT !.sending = FALSE] /\ stream' = NoStream
      BY <2>4 DEF StreamFails, Finished
    <3>2. stream'.phase = "none" /\ stream'.turn = 0
      BY <3>1 DEF NoStream
    <3>3. chat'.open = chat.open
      <4>1. TabScreen
        BY DEF ScreenInv, ScreenShape
      <4>2. PICK ms \in Seq(TabMessages) :
              Writes("error") = [list |-> chat.list, open |-> chat.open, messages |-> ms,
                                 sending |-> chat.sending]
        BY <4>1, WritesTells
      <4> PICK w : w = Writes("error")
        OBVIOUS
      <4>3. chat' = [w EXCEPT !.sending = FALSE]
        BY <3>1
      <4>4. w = [list |-> chat.list, open |-> chat.open, messages |-> ms, sending |-> chat.sending]
        BY <4>2
      <4> QED
        BY <4>3, <4>4
    <3> QED
      BY <2>0, <3>2, <3>3 DEF StreamKnown
  <2>5. CASE ChatLost
    BY <2>5 DEF ChatLost, EmptyChat, NoStream, StreamKnown
  <2> QED
    BY <2>1, <2>2, <2>3, <2>4, <2>5
<1>2. TablesKnown'
  BY <1>0, <1>1, SameKnown DEF CopyInv
<1>3. CopyKnown'
  BY MetadataCopies, AnswerCopies, ListedCopies, FailsCopies, LostCopies DEF CopyInv
<1> QED
  BY <1>2, <1>3 DEF CopyInv

LEMMA ServerKeepsCopy ==
  ASSUME ChatShape, ScreenInv, CopyInv, NEW t \in DOMAIN turns,
         Bind(t) \/ StoreQuestion(t) \/ StoreAnswer(t)
  PROVE  CopyInv'
<1>1. CASE Bind(t)
  BY <1>1, BindKeepsTables, BindCopies DEF CopyInv
<1>2. ASSUME NEW pc, NEW role, NEW next,
             \/ pc = "bound" /\ role = "question" /\ next = "asked"
             \/ pc = "asked" /\ role = "answer" /\ next = "answered",
             Store(t, pc, role, next)
      PROVE  CopyInv'
  <2>1. TablesKnown'
    BY <1>2, StoreKeepsTables DEF CopyInv
  <2>2. CopyKnown'
    BY <1>2, StoreCopies DEF CopyInv
  <2> QED
    BY <2>1, <2>2 DEF CopyInv
<1>3. CASE StoreQuestion(t)
  <2>1. Store(t, "bound", "question", "asked")
    BY <1>3 DEF StoreQuestion
  <2> QED
    BY <1>2, <2>1
<1>4. CASE StoreAnswer(t)
  <2>1. Store(t, "asked", "answer", "answered")
    BY <1>4 DEF StoreAnswer
  <2> QED
    BY <1>2, <2>1
<1> QED
  BY <1>1, <1>3, <1>4

LEMMA ChatStepKeepsCopy ==
  ASSUME ChatShape, ScreenInv, CopyInv, CallsInv, ChatStep
  PROVE  CopyInv'
<1> USE DEF server
<1>1. CASE NewConversation
  <2>1. Shows(NoConv, <<>>, chat.list) /\ UNCHANGED <<stream, turns, convs>>
    BY <1>1 DEF NewConversation
  <2> QED
    BY <2>1, ShowsKeepsCopy
<1>2. CASE Send
  BY <1>2, SendKeepsTables, SendCopies DEF CopyInv
<1>3. ASSUME NEW kind, NEW c, Click(kind, c) PROVE CopyInv'
  <2>1. UNCHANGED <<turns, convs, chat, stream, hist>>
    BY <1>3 DEF Click
  <2> QED
    BY <2>1, QuietKeepsCopy
<1>4. ASSUME NEW r \in calls, Serve(r) PROVE CopyInv'
  BY <1>4, ServeKeepsTables, ServeCopies DEF CopyInv
<1>5. ASSUME NEW r \in calls, Opened(r) PROVE CopyInv'
  <2>1. Shows(r.conv, r.messages, chat.list) /\ UNCHANGED <<stream, turns, convs>> /\ r.kind = "open"
    BY <1>5 DEF Opened
  <2>2. r.conv \in DOMAIN convs
    BY <2>1 DEF ScreenInv, ScreenShape
  <2> QED
    BY <2>1, <2>2, ShowsKeepsCopy
<1>6. ASSUME NEW r \in calls, Removed(r) PROVE CopyInv'
  <2>1. UNCHANGED <<stream, turns, convs>>
    BY <1>6 DEF Removed
  <2>2. CASE Shows(NoConv, <<>>, chat.list)
    BY <2>1, <2>2, ShowsKeepsCopy
  <2>3. CASE UNCHANGED <<chat, hist>>
    BY <2>1, <2>3, QuietKeepsCopy
  <2> QED
    BY <1>6, <2>2, <2>3 DEF Removed
<1>7. ASSUME NEW r \in calls, ListArrives(r) PROVE CopyInv'
  <2>1. /\ chat' = [chat EXCEPT !.list = ListOf(r.token)]
        /\ UNCHANGED <<stream, turns, convs, hist>>
    BY <1>7 DEF ListArrives
  <2>2. chat'.messages = chat.messages /\ chat'.open = chat.open
    BY <2>1 DEF ChatShape
  <2> QED
    BY <2>1, <2>2, QuietKeepsCopy
<1>8. ASSUME NEW r \in calls, CallFails(r) PROVE CopyInv'
  <2>1. UNCHANGED <<turns, convs, chat, stream, hist>>
    BY <1>8 DEF CallFails
  <2> QED
    BY <2>1, QuietKeepsCopy
<1>9. ASSUME NEW t \in DOMAIN turns, Bind(t) \/ StoreQuestion(t) \/ StoreAnswer(t) PROVE CopyInv'
  BY <1>9, ServerKeepsCopy
<1>10. CASE MetadataArrives \/ AnswerArrives \/ TurnListed \/ StreamFails
  BY <1>10, StreamKeepsCopy
<1> QED
  BY <1>1, <1>2, <1>3, <1>4, <1>5, <1>6, <1>7, <1>8, <1>9, <1>10 DEF ChatStep

LEMMA CopyKept ==
  ASSUME ChatShape, ScreenInv, CopyInv, CallsInv, Next
  PROVE  CopyInv'
<1>1. CASE ChatStep
  BY <1>1, ChatStepKeepsCopy
<1>2. CASE ChatFollows
  <2>1. UNCHANGED <<turns, convs, chat, stream, hist>>
    BY <1>2 DEF ChatFollows, server
  <2> QED
    BY <2>1, QuietKeepsCopy
<1>3. CASE ChatLost
  BY <1>3, StreamKeepsCopy
<1> QED
  BY <1>1, <1>2, <1>3 DEF Next

LEMMA CopyInitially == ASSUME Init PROVE CopyInv
<1>1. turns = <<>> /\ convs = <<>> /\ chat = EmptyChat /\ stream = NoStream
  BY DEF Init, ChatInit
<1>2. DOMAIN <<>> = {}
  OBVIOUS
<1>3. chat.messages = <<>> /\ chat.open = NoConv /\ stream.phase = "none" /\ stream.turn = 0
  BY <1>1 DEF EmptyChat, NoStream
<1>4. LogsKnown /\ ConvsKnown /\ StreamKnown /\ OwnConv
  BY <1>1, <1>2, <1>3 DEF LogsKnown, ConvsKnown, StreamKnown, OwnConv
<1>5. MessagesKnown /\ LastKnown /\ Copied
  BY <1>1, <1>2, <1>3 DEF MessagesKnown, LastKnown, Copied
<1> QED
  BY <1>4, <1>5 DEF CopyInv, TablesKnown, CopyKnown

(* What is on the screen is what is stored.                                 *)
LEMMA CopySays ==
  ASSUME ChatShape, ScreenInv, CopyInv
  PROVE  ShownIsStored
<1> PICK S, c, K : S = chat.messages /\ c = chat.open /\ K = Loaded(c)
  OBVIOUS
<1> SUFFICES ASSUME stream.phase \in {"none", "listing"}, ~hist.mixed, ~hist.behind,
                    c # NoConv, convs[c].exists
             PROVE  Reproduces(S, K)
  BY DEF ShownIsStored
<1> PICK L : L = convs[c].log
  OBVIOUS
<1>1. c \in DOMAIN convs /\ L \in Seq(LogEntries)
  <2>1. c \in DOMAIN convs
    BY DEF CopyInv, TablesKnown, ConvsKnown
  <2> QED
    BY <2>1, LogsAreSequences
<1>2. MessagesKnown /\ Agree(S, L, 0, "answered")
  BY <1>1 DEF CopyInv, CopyKnown, Exact, Copied, IsCopy
<1>3. \A i \in DOMAIN S : S[i].text # "pending"
  BY <1>2 DEF MessagesKnown, IsKnown, Streaming
<1>4. DOMAIN K = DOMAIN L /\ \A k \in DOMAIN L : K[k].turn = L[k].turn /\ K[k].text = L[k].role
  <2>1. K = [i \in DOMAIN L |-> [turn |-> L[i].turn, text |-> L[i].role, live |-> FALSE]]
    BY DEF Loaded
  <2>2. ASSUME NEW i \in DOMAIN L
        PROVE  K[i].turn = L[i].turn /\ K[i].text = L[i].role
    <3>1. K[i] = [turn |-> L[i].turn, text |-> L[i].role, live |-> FALSE]
      BY <2>1
    <3> QED
      BY <3>1
  <2>3. DOMAIN K = DOMAIN L
    BY <2>1
  <2> QED
    BY <2>2, <2>3
<1>5. \A i \in DOMAIN S, k \in DOMAIN L :
        Same(S[i], L[k]) <=> SameMessage(S[i], K[k])
  BY <1>3, <1>4 DEF Same, SameMessage
<1>6. /\ \A i : i \in Standing(S) <=> i \in DOMAIN S /\ ~Fails(S, S[i].turn)
      /\ \A k : k \in Standing(K) <=> k \in DOMAIN L /\ ~Fails(S, L[k].turn)
  <2>1. \A t : Failing(t) <=> Fails(S, t)
    BY DEF Failing, Fails
  <2> QED
    BY <1>4, <2>1 DEF Standing
<1>7. \A i \in DOMAIN S, k \in DOMAIN L : Same(S[i], L[k]) => S[i].turn = L[k].turn
  BY DEF Same
<1>8. ASSUME NEW i \in Standing(S)
      PROVE  \E k \in Standing(K) : SameMessage(S[i], K[k])
  <2>1. PICK k \in DOMAIN L : Same(S[i], L[k])
    BY <1>2, <1>6, NothingUnstored DEF Agree, IsStored
  <2>2. k \in Standing(K)
    BY <1>6, <1>7, <2>1
  <2> QED
    BY <1>5, <1>6, <2>1, <2>2
<1>9. ASSUME NEW k \in Standing(K)
      PROVE  \E i \in Standing(S) : SameMessage(S[i], K[k])
  <2>1. PICK i \in DOMAIN S : Same(S[i], L[k])
    BY <1>2, <1>6 DEF Agree, IsShown
  <2>2. i \in Standing(S)
    BY <1>6, <1>7, <2>1
  <2> QED
    BY <1>5, <1>6, <2>1, <2>2
<1>10. ASSUME NEW i \in Standing(S), NEW j \in Standing(S), NEW k \in Standing(K), NEW l \in Standing(K),
              SameMessage(S[i], K[k]),
              SameMessage(S[j], K[l])
       PROVE  i < j <=> k < l
  <2>1. Same(S[i], L[k]) /\ Same(S[j], L[l])
    BY <1>5, <1>6, <1>10
  <2> QED
    BY <1>2, <1>6, <2>1 DEF Agree, SameOrder
<1> QED
  BY <1>8, <1>9, <1>10 DEF Reproduces

-----------------------------------------------------------------------------
IInv == SessionInv /\ CallsInv /\ ChatShape /\ TurnsInv /\ ScreenInv /\ PageInv /\ CopyInv

LEMMA Initially == ASSUME SessionAssumption, Init PROVE IInv
<1>1. SessionInv
  BY SessionInitially DEF Init
<1>2. chains = {} /\ calls = {} /\ turns = <<>> /\ convs = <<>>
      /\ chat = EmptyChat /\ stream = NoStream
  BY DEF Init, ChatInit, KnowledgeInit
<1>3. CallsInv
  BY <1>2 DEF CallsInv
<1>4. ChatShape
  BY <1>2 DEF ChatShape, EmptyChat, NoConv, NoStream
<1>5. TurnsInv
  BY <1>2 DEF TurnsInv, TurnsStayWithOwner
<1>6. PageInv
  <2>1. docs = <<>> /\ view = EmptyView /\ khist = NoMishap
    BY DEF Init, KnowledgeInit
  <2>2. PageShape
    <3>1. docs \in Seq({}) /\ DOMAIN docs = {}
      BY <2>1
    <3> QED
      BY <2>1, <3>1 DEF PageShape, IsView, DocsShape, EmptyView, NoMishap
  <2>3. view.timer = NoTimer /\ view.last = 0 /\ view.rows = {}
    BY <2>1 DEF EmptyView
  <2> QED
    BY <1>2, <2>2, <2>3
    DEF PageInv, ChainsKnown, TimerKnown, WatchedUntilSettled, RowsKnown
<1>7. ScreenInv
  <2>1. hist = NoAccident
    BY DEF Init, ChatInit
  <2>2. <<>> \in Seq(TabMessages) /\ DOMAIN <<>> = {}
    OBVIOUS
  <2>3. ScreenShape
    BY <1>2, <2>1, <2>2 DEF ScreenShape, TabScreen, EmptyChat, NoAccident
  <2>4. chat.messages = <<>> /\ stream.phase = "none"
    BY <1>2 DEF EmptyChat, NoStream
  <2> QED
    BY <1>2, <2>2, <2>3, <2>4
    DEF ScreenInv, TurnsBound, EntriesBound, AnswersBound, ScreenKnown
<1>8. CopyInv
  BY CopyInitially
<1> QED
  BY <1>1, <1>3, <1>4, <1>5, <1>6, <1>7, <1>8 DEF IInv

LEMMA NextKeeps ==
  ASSUME SessionAssumption, IInv, Next
  PROVE  IInv'
<1>1. Moves /\ CallsGrow /\ ChainsGrow
  BY NextMoves DEF IInv
<1>2. SessionInv' /\ OwnersStay
  BY <1>1, MovesKeepSession DEF IInv
<1>3. CallsInv'
  BY <1>1, <1>2, CallsKept DEF IInv, SessionInv
<1>4. \A r \in calls' : r.conv \in Nat
  <2>1. \A r \in calls : CallShape(r) /\ Sound(r) /\ r.conv \in Nat
    BY DEF IInv, CallsInv, ChatShape
  <2>2. \A r \in calls : Answer(r).conv = r.conv
    BY <2>1, AnsweredIsSound
  <2>3. chat.list \cup {NoConv} \subseteq Nat
    BY DEF IInv, ChatShape, NoConv
  <2> QED
    BY <1>1, <2>1, <2>2, <2>3 DEF CallsGrow, NewCall
<1>5. TabShape' /\ TurnsInv' /\ turns' \in Seq(TurnRecords) /\ convs' \in Seq(ConvRecords)
  <2>1. CASE ChatStep
    BY <1>2, <2>1, ChatStepKeepsTab, ChatStepKeepsTurns DEF IInv, SessionInv
  <2>2. CASE ChatFollows
    <3>1. UNCHANGED <<server, chat, stream>>
      BY <2>2 DEF ChatFollows
    <3> QED
      BY <1>2, <3>1, TablesUntouched DEF IInv, server, ChatShape, TabShape
  <2>3. CASE ChatLost
    <3>1. UNCHANGED server /\ chat' = EmptyChat /\ stream' = NoStream
      BY <2>3 DEF ChatLost
    <3>2. TabShape'
      BY <3>1 DEF TabShape, EmptyChat, NoConv, NoStream
    <3> QED
      BY <1>2, <3>1, <3>2, TablesUntouched DEF IInv, server, ChatShape
  <2> QED
    BY <2>1, <2>2, <2>3 DEF Next
<1>6. ChatShape'
  BY <1>4, <1>5 DEF ChatShape, TabShape
<1>7. PageInv'
  BY PageKept DEF IInv
<1>8. ScreenInv'
  BY <1>1, ScreenKept DEF IInv
<1>9. CopyInv'
  BY CopyKept DEF IInv
<1> QED
  BY <1>2, <1>3, <1>5, <1>6, <1>7, <1>8, <1>9 DEF IInv

LEMMA Inductive == ASSUME SessionAssumption PROVE Spec => []IInv
<1>1. Init => IInv
  BY Initially
<1>2. IInv /\ [Next]_vars => IInv'
  <2>1. ASSUME IInv, UNCHANGED vars PROVE IInv'
    <3>1. Still /\ UNCHANGED <<server, chat, stream, calls, chains>>
      BY <2>1 DEF vars, sessionVars, chatVars, knowledgeVars, Still, server
    <3>2. SessionInv' /\ OwnersStay
      BY <2>1, <3>1, MovesKeepSession DEF IInv, Moves
    <3>3. CallsInv'
      <4>1. CallsGrow /\ ChainsGrow
        BY <3>1 DEF CallsGrow, ChainsGrow
      <4> QED
        BY <2>1, <3>2, <4>1, CallsKept DEF IInv, SessionInv
    <3>4. TurnsInv'
      BY <2>1, <3>1, <3>2, TablesUntouched DEF IInv
    <3>5. ChatShape'
      BY <2>1, <3>1 DEF IInv, ChatShape, server
    <3>6. PageInv'
      <4>1. UNCHANGED <<docs, view, chains, khist>>
        BY <2>1 DEF vars, knowledgeVars
      <4>2. DocsShape' /\ DocsGoOn
        BY <2>1, <4>1, DocsUntouched DEF IInv, PageInv, PageShape
      <4>3. PageShape'
        BY <2>1, <4>1, <4>2 DEF IInv, PageInv, PageShape, IsView
      <4> QED
        BY <2>1, <4>1, <4>2, <4>3, SamePage DEF IInv
    <3>7. ScreenInv'
      <4>1. UNCHANGED hist /\ CallsGrow
        BY <2>1, <3>1 DEF vars, chatVars, CallsGrow
      <4>2. ServerGoesOn
        BY <2>1, <3>1, SameTables DEF IInv
      <4>3. TabScreen' /\ ScreenKnown'
        BY <2>1, <3>1, <4>1, <4>2, QuietKnown DEF IInv
      <4>4. /\ AnswersBound' /\ \A r \in calls' : r.messages \in Seq(TabMessages)
            /\ \A r \in calls' : r.kind = "list" \/ r.conv \in DOMAIN convs'
        BY <2>1, <4>1, <4>2, CallsBring DEF IInv
      <4> QED
        BY <4>2, <4>3, <4>4 DEF ScreenInv, ScreenShape, ServerGoesOn
    <3>8. CopyInv'
      BY <2>1, QuietKeepsCopy DEF IInv, vars, chatVars
    <3> QED
      BY <3>2, <3>3, <3>4, <3>5, <3>6, <3>7, <3>8 DEF IInv
  <2> QED
    BY <2>1, NextKeeps
<1> QED
  BY <1>1, <1>2, PTL DEF Spec

-----------------------------------------------------------------------------
(* The page shows the user whose token it sends, unless two requests of the *)
(* session overlapped.                                                      *)
THEOREM UserOwnsToken == Spec => []UserIsOwner
<1>1. IInv => UserIsOwner
  BY DEF IInv, SessionInv, OneAtATime, UserIsOwner
<1> QED
  BY <1>1, Inductive, SessionAssumption, PTL

(* A signed-in page loses the token it sends only when the server has given *)
(* it up, or to the late 401 of an earlier session.                         *)
THEOREM TokensAreLostLate == Spec => []TokenLostOnlyLate
<1>1. IInv => TokenLostOnlyLate
  BY DEF IInv, SessionInv
<1> QED
  BY <1>1, Inductive, SessionAssumption, PTL

(* Questions and answers are stored in conversations of the user who asked, *)
(* whatever the tab has kept of another user's.                             *)
THEOREM TurnsHaveTheirOwner == Spec => []TurnsStayWithOwner
<1>1. IInv => TurnsStayWithOwner
  BY DEF IInv, TurnsInv
<1> QED
  BY <1>1, Inductive, SessionAssumption, PTL

(* The messages on the screen are of the open conversation, so that the     *)
(* next question goes where the user sees it go: failed turns and the one   *)
(* whose metadata has not come apart, unless the messages were replaced     *)
(* while such a turn was under way.                                         *)
THEOREM MessagesAreOfOpenConversation == Spec => []ShownIsOpen
<1>1. IInv => ShownIsOpen
  BY ScreenSays DEF IInv
<1> QED
  BY <1>1, Inductive, SessionAssumption, PTL

(* What stands on the screen between two turns is what the server has       *)
(* stored in the open conversation, in the same order, failed turns apart,  *)
(* unless it was loaded before an answer was stored or holds messages of    *)
(* two conversations.                                                       *)
THEOREM MessagesAreStored == Spec => []ShownIsStored
<1>1. IInv => ShownIsStored
  BY CopySays DEF IInv
<1> QED
  BY <1>1, Inductive, SessionAssumption, PTL

(* The documents on the page of the knowledge bases are those of the active *)
(* base, however its chains of calls interleave, unless one was asked for   *)
(* the documents of another base or failed to bring those of this one.      *)
THEOREM RowsAreOfActiveBase == Spec => []RowsOfActiveBase
<1>1. IInv => RowsOfActiveBase
  BY DEF IInv, PageInv, RowsKnown, RowsOfActiveBase, Fetching
<1> QED
  BY <1>1, Inductive, SessionAssumption, PTL

(* The document whose upload finished last is watched until it is READY or  *)
(* FAILED, unless a poll failed or the bases could not be loaded after one, *)
(* the base or the page was left, the active base changed while it was      *)
(* uploaded, or a late answer for another document stopped the timer.       *)
THEOREM UploadsAreWatched == Spec => []WatchedUntilSettled
<1>1. IInv => WatchedUntilSettled
  BY DEF IInv, PageInv
<1> QED
  BY <1>1, Inductive, SessionAssumption, PTL

(* The timer polls the base its document was uploaded to, unless the active *)
(* base changed during the upload.                                          *)
THEOREM TimersFindTheirDocument == Spec => []TimerFindsDocument
<1>1. IInv => TimerFindsDocument
  BY DEF IInv, PageInv, TimerKnown, Uploaded, TimerFindsDocument
<1> QED
  BY <1>1, Inductive, SessionAssumption, PTL
=============================================================================
