---------------------------- MODULE KnowledgePage ----------------------------
(***************************************************************************)
(* The page on which administrators manage knowledge bases and documents.  *)
(* Each button starts a chain of calls: the change, the documents of the   *)
(* base that is active by then, the bases, and for an upload a timer that  *)
(* asks for the documents until the new one is READY or FAILED.  Chains    *)
(* and timers run beside each other and beside further clicks, and go on   *)
(* when another page is shown.                                             *)
(*                                                                         *)
(* The variables of the page live until it is shown again.  What a base or *)
(* a document holds is left out, and so is what the worker does with one   *)
(* until it is settled.  A change is made by the server in one step and    *)
(* answered in another; what is read is read when the answer arrives.      *)
(***************************************************************************)
EXTENDS Session

CONSTANTS
  FirstBases,  \* the number of bases there are at first
  MaxBases,    \* bound: bases ever made
  MaxDocs,     \* bound: documents ever uploaded
  MaxPolls     \* bound: polls under way at once

ASSUME KnowledgeAssumption ==
  /\ MaxBases \in Nat /\ MaxDocs \in Nat /\ MaxPolls \in Nat
  /\ FirstBases \in 0..MaxBases

NoBase == 0

VARIABLES
  bases,   \* server: the knowledge bases that exist
  made,    \* server: the last primary key of a base
  docs,    \* server: the base and the state of every document
  view,    \* the variables of the page, and "of", "last" (see below)
  chains,  \* the calls of the page under way, with what follows them
  khist    \* history: strayed, unwatched, drifted (see the properties)

knowledgeVars == <<bases, made, docs, view, chains, khist>>
tables == <<bases, made, docs>>

Bases == 1..MaxBases
Docs == 1..MaxDocs
Rows == [doc : Docs, settled : BOOLEAN]
NoTimer == [base |-> NoBase, doc |-> 0]

(* The page when it is first shown.  "of" is the base whose documents were  *)
(* shown last, "last" the document whose upload was finished last.          *)
EmptyView == [bases |-> {}, active |-> NoBase, rows |-> {}, of |-> NoBase,
              timer |-> NoTimer, deleting |-> NoBase, last |-> 0]
NoMishap == [strayed |-> FALSE, unwatched |-> FALSE, drifted |-> FALSE]

KnowledgeTypeOK ==
  /\ made \in 0..MaxBases /\ bases \subseteq 1..made
  /\ docs \in Seq([base : Bases, state : {"queued", "settled", "deleted"}]) /\ Len(docs) <= MaxDocs
  /\ view.bases \subseteq Bases /\ view.rows \subseteq Rows
  /\ {view.active, view.of, view.deleting} \subseteq Bases \cup {NoBase}
  /\ view.timer \in [base : Bases \cup {NoBase}, doc : Docs \cup {0}]
  /\ view.last \in Docs \cup {0}
  /\ DOMAIN khist = DOMAIN NoMishap

KnowledgeInit ==
  /\ bases = 1..FirstBases /\ made = FirstBases /\ docs = <<>>
  /\ view = EmptyView /\ chains = {} /\ khist = NoMishap

-----------------------------------------------------------------------------
(* The server: require_role("admin"), and the work of each request.  "arg"  *)
(* is the document of a request, or what its chain needs later on.          *)

Request(kind, base, arg, then) ==
  [kind |-> kind, base |-> base, arg |-> arg, then |-> then,
   token |-> stored, status |-> "sent"]

Reads(r) == r.kind \in {"bases", "documents", "poll"}

Exists(d) == d \in DOMAIN docs /\ docs[d].state # "deleted"

RowsOf(b) ==
  {[doc |-> d, settled |-> docs[d].state = "settled"] :
     d \in {e \in DOMAIN docs : docs[e].base = b /\ Exists(e)}}

Found(r) ==
  CASE r.kind \in {"bases", "create"} -> TRUE
    [] r.kind \in {"documents", "poll"} -> r.base # NoBase
    [] r.kind = "deleteFile" -> Exists(r.arg)
    [] OTHER -> r.base \in bases

(* The answer to a creation or an upload holds the new primary key.         *)
Reply(r) ==
  IF r.token \notin alive THEN [r EXCEPT !.status = "unauthorized"]
  ELSE IF owner[r.token] \notin Admins \/ ~Found(r) THEN [r EXCEPT !.status = "refused"]
  ELSE [r EXCEPT !.status = "ok", !.arg = CASE r.kind = "create" -> made + 1
                                            [] r.kind = "upload" -> Len(docs) + 1
                                            [] OTHER -> @]

Changes(r) ==
  /\ made' = IF r.kind = "create" THEN made + 1 ELSE made
  /\ bases' = CASE r.kind = "create" -> bases \cup {made + 1}
                [] r.kind = "deleteBase" -> bases \ {r.base}
                [] OTHER -> bases
  /\ docs' = IF r.kind = "upload" THEN Append(docs, [base |-> r.base, state |-> "queued"])
             ELSE [d \in DOMAIN docs |->
                     IF \/ r.kind = "deleteFile" /\ d = r.arg
                        \/ r.kind = "deleteBase" /\ docs[d].base = r.base
                     THEN [docs[d] EXCEPT !.state = "deleted"] ELSE docs[d]]

Handle(r) ==
  /\ ~Reads(r) /\ r.status = "sent"
  /\ r.kind = "create" => made < MaxBases
  /\ r.kind = "upload" => Len(docs) < MaxDocs
  /\ chains' = (chains \ {r}) \cup {Reply(r)}
  /\ IF Reply(r).status = "ok" THEN Changes(r) ELSE UNCHANGED tables
  /\ UNCHANGED <<sessionVars, view, khist>>

(* The worker makes a document READY or FAILED.                             *)
Settle(d) ==
  /\ docs[d].state = "queued"
  /\ docs' = [docs EXCEPT ![d].state = "settled"]
  /\ UNCHANGED <<sessionVars, bases, made, view, chains, khist>>

-----------------------------------------------------------------------------
(* History.  Strayed: documents were asked for a base that is not the       *)
(* active one by now, or could not be loaded; until those of the active one *)
(* arrive.  Drifted: the active base changed while an upload was under way. *)
(* Unwatched: the timer was ended before the last document was settled.     *)

Fetching(r) == r.kind \in {"documents", "poll"}
Uploading(r) == r.kind = "upload" \/ r.then \in {"bases>poll", "poll"}

Mishaps(strayed, unwatched) ==
  [strayed |-> strayed \/ \E r \in chains' : Fetching(r) /\ r.base # view'.active,
   unwatched |-> unwatched,
   drifted |-> khist.drifted
               \/ (view'.active # view.active /\ \E r \in chains : Uploading(r))]

-----------------------------------------------------------------------------
(* What the administrator does.                                             *)

Starts(kind, base, arg) ==
  /\ ActsOn("knowledge") /\ UNCHANGED tables
  /\ chains' = chains \cup {Request(kind, base, arg, "end")}

(* selectBase() on a base of the list.                                      *)
ClickBase(b) ==
  /\ b \in view.bases
  /\ Starts("documents", b, 0)
  /\ view' = [view EXCEPT !.active = b]
  /\ khist' = Mishaps(khist.strayed, khist.unwatched)

(* submitBase, submitRename, submitPermission, submitUpload, deleteFile.    *)
Create == Starts("create", NoBase, 0) /\ UNCHANGED <<view, khist>>
Rename(b) == b \in view.bases /\ Starts("edit", b, 0) /\ UNCHANGED <<view, khist>>
Permit == view.active # NoBase /\ Starts("edit", view.active, 0) /\ UNCHANGED <<view, khist>>
Upload == view.active # NoBase /\ Starts("upload", view.active, 0) /\ UNCHANGED <<view, khist>>
DeleteFile(d) ==
  /\ \E row \in view.rows : row.doc = d
  /\ Starts("deleteFile", NoBase, d)
  /\ UNCHANGED <<view, khist>>

(* deleteBase(), confirmed: one at a time.                                  *)
DeleteBase(b) ==
  /\ b \in view.bases /\ view.deleting = NoBase
  /\ Starts("deleteBase", b, 0)
  /\ view' = [view EXCEPT !.deleting = b]
  /\ UNCHANGED khist

-----------------------------------------------------------------------------
(* What follows a call.  A state of the page and the calls it makes:        *)
Then(v, next) == [view |-> v, calls |-> next]

(* startDocumentPolling() for the base that is active by now.               *)
(* Mutant of Watch: the first base of the list is asked.                    *)
WatchFirst(v, d) == [v EXCEPT !.timer = [base |-> Min(v.bases \cup {MaxBases}), doc |-> d], !.last = d]
Watch(v, d) == [v EXCEPT !.timer = [base |-> v.active, doc |-> d], !.last = d]

After(v, then, arg) ==
  CASE then = "end" -> Then(v, {})
    [] then = "bases" -> Then(v, {Request("bases", NoBase, arg, "end")})
    [] then = "bases>poll" -> Then(v, {Request("bases", NoBase, arg, "poll")})
    [] then = "select" -> Then([v EXCEPT !.active = arg], {Request("documents", arg, arg, "end")})
    [] then = "poll" -> Then(Watch(v, arg), {})
    [] then = "timer" -> Then(v, {})
    [] then = "deleted" -> Then([v EXCEPT !.deleting = NoBase], {})

(* loadBases() selects the first base when none is active.                  *)
BasesLoaded(r) ==
  LET v == [view EXCEPT !.bases = bases] IN
  IF v.active = NoBase /\ bases # {}
  THEN Then([v EXCEPT !.active = Min(bases)],
            {Request("documents", Min(bases), r.arg, r.then)})
  ELSE After(v, r.then, r.arg)

(* The base that is being deleted is closed, whatever is active by now.     *)
(* Mutant of Closed: the documents stay.                                    *)
ClosedOnly(b) == IF view.active = b THEN [view EXCEPT !.active = NoBase] ELSE view
Closed(b) == IF view.active = b THEN [view EXCEPT !.active = NoBase, !.rows = {}] ELSE view

ShowRows(r) == [view EXCEPT !.rows = RowsOf(r.base), !.of = r.base]
(* Mutant of IsSettled: any document of the base.                           *)
AnySettled(r) == \E row \in RowsOf(r.base) : row.settled
IsSettled(r) == [doc |-> r.arg, settled |-> TRUE] \in RowsOf(r.base)

(* The timer's callback stops the timer that runs by now, and awaits the    *)
(* bases within its own try.                                                *)
Polled(r) ==
  IF IsSettled(r)
  THEN Then([ShowRows(r) EXCEPT !.timer = NoTimer], {Request("bases", NoBase, 0, "timer")})
  ELSE Then(ShowRows(r), {})

Outcome(r) ==
  CASE r.kind = "documents" -> After(ShowRows(r), r.then, r.arg)
    [] r.kind = "poll" -> Polled(r)
    [] r.kind = "bases" -> BasesLoaded(r)
    [] r.kind = "create" -> Then(view, {Request("bases", NoBase, r.arg, "select")})
    [] r.kind = "edit" -> Then(view, {Request("bases", NoBase, 0, "end")})
    [] r.kind = "upload" -> Then(view, {Request("documents", view.active, r.arg, "bases>poll")})
    [] r.kind = "deleteFile" ->
         IF view.active # NoBase THEN Then(view, {Request("documents", view.active, 0, "bases")})
         ELSE Then(view, {Request("bases", NoBase, 0, "end")})
    [] r.kind = "deleteBase" -> Then(Closed(r.base), {Request("bases", NoBase, 0, "deleted")})

Status(r) == IF Reads(r) THEN Reply(r).status ELSE r.status

Arrives(r) ==
  LET o == Outcome(r) IN
  /\ Status(r) = "ok"
  /\ view' = o.view
  /\ chains' = (chains \ {r}) \cup o.calls
  /\ khist' = Mishaps(IF Fetching(r) /\ r.base = view.active THEN FALSE ELSE khist.strayed,
                      IF o.view.last # view.last THEN FALSE
                      ELSE khist.unwatched \/ (r.kind = "poll" /\ IsSettled(r) /\ r.arg # view.last))
  /\ UNCHANGED <<sessionVars, tables>>

(* The calls of a timer's callback: the poll, and the bases after it.       *)
OfTimer(r) == r.kind = "poll" \/ r.then = "timer"

(* A chain ends at the call that fails; a deletion is over then, and so is  *)
(* whatever timer runs by now when it was a callback's.                     *)
ChainFails(r) ==
  LET status == IF Status(r) \in {"sent", "ok"} THEN "lost" ELSE Status(r) IN
  /\ Failed(status, r.token, auth)
  /\ chains' = chains \ {r}
  /\ view' = [view EXCEPT
       !.deleting = IF r.kind = "deleteBase" \/ r.then = "deleted" THEN NoBase ELSE @,
       !.timer = IF OfTimer(r) \/ Mounts("chat") THEN NoTimer ELSE @]
  /\ khist' = Mishaps(khist.strayed \/ r.kind = "documents",
                      khist.unwatched \/ OfTimer(r) \/ Mounts("chat"))
  /\ UNCHANGED tables

(* The timer's callback: another base has been opened, or the documents are *)
(* asked for.                                                               *)
Tick ==
  /\ view.timer # NoTimer
  /\ IF view.active # view.timer.base
     THEN /\ view' = [view EXCEPT !.timer = NoTimer]
          /\ khist' = [khist EXCEPT !.unwatched = TRUE]
          /\ UNCHANGED chains
     ELSE /\ Cardinality({r \in chains : r.kind = "poll"}) < MaxPolls
          /\ chains' = chains \cup {Request("poll", view.timer.base, view.timer.doc, "end")}
          /\ UNCHANGED <<view, khist>>
  /\ UNCHANGED <<sessionVars, tables>>

-----------------------------------------------------------------------------
(* What a step of the session does to the page: it is shown, and asks for   *)
(* the bases, or it is left, and the timer stopped.  The calls of the page  *)
(* before are forgotten when it is shown again, and at a new load.          *)
KnowledgeFollows ==
  /\ IF Mounts("knowledge")
     THEN /\ view' = EmptyView /\ khist' = NoMishap
          /\ chains' = {Request("bases", NoBase, 0, "end")'}
     ELSE /\ view' = IF page = "knowledge" /\ page' # page THEN [view EXCEPT !.timer = NoTimer] ELSE view
          /\ khist' = [khist EXCEPT !.unwatched = @ \/ (page = "knowledge" /\ page' # page)]
          /\ UNCHANGED chains
  /\ UNCHANGED tables

KnowledgeLost ==
  /\ view' = EmptyView /\ chains' = {} /\ khist' = NoMishap
  /\ UNCHANGED tables

KnowledgeStep ==
  \/ \E b \in view.bases : ClickBase(b) \/ Rename(b) \/ DeleteBase(b)
  \/ Create \/ Permit \/ Upload \/ Tick
  \/ \E row \in view.rows : DeleteFile(row.doc)
  \/ \E r \in chains : Handle(r) \/ Arrives(r) \/ ChainFails(r)
  \/ \E d \in DOMAIN docs : Settle(d)

-----------------------------------------------------------------------------
(* Properties *)

(* Once they are loaded, the documents on the page are those of the active  *)
(* base.  Exceptions: they were asked for another base, which was active    *)
(* then, and come last; or those of the active one could not be loaded.     *)
RowsOfActiveBase ==
  (\A r \in chains : ~Fetching(r)) /\ view.rows # {} /\ ~khist.strayed => view.of = view.active

(* The document whose upload finished last is watched until it is settled,  *)
(* as long as its base is the active one (the timer of an earlier upload is *)
(* taken over by it).  Exceptions: a poll failed, or the bases could not be *)
(* loaded after one, be it the poll of another document; the base or the    *)
(* page was left meanwhile, or the active base changed while it was         *)
(* uploaded; or a late answer to the poll of another document stopped the   *)
(* timer.                                                                   *)
WatchedUntilSettled ==
  view.last # 0 /\ docs[view.last].state = "queued" /\ ~khist.unwatched /\ ~khist.drifted
    => view.timer = [base |-> docs[view.last].base, doc |-> view.last]

(* A timer asks for the documents of the base its document is in, so that   *)
(* it can find it settled, unless another base was opened while the document *)
(* was uploaded: then it looks for it where it is not until that base is    *)
(* left.                                                                    *)
TimerFindsDocument ==
  view.timer # NoTimer /\ ~khist.drifted => docs[view.timer.doc].base = view.timer.base
=============================================================================
