------------------------------ MODULE ChatStore ------------------------------
(***************************************************************************)
(* The chat of a browser tab and the conversations of the server it shows. *)
(* A question is pushed to the messages on the screen with a placeholder   *)
(* for its answer, and streamed: the server creates or looks up the        *)
(* conversation, stores the question, stores the answer, and only then     *)
(* sends the metadata, which tells the tab the conversation, and the text. *)
(* Meanwhile the user opens, begins and deletes conversations, goes to     *)
(* other pages and logs out, and another user logs in.                     *)
(*                                                                         *)
(* A turn is the number of its question.  A message on the screen is       *)
(* "live" when it is the object the stream of its turn writes to: those    *)
(* loaded from the server are other objects.  A conversation is read or    *)
(* deleted by the server in one step and arrives in another; the list is   *)
(* read when it arrives.                                                   *)
(***************************************************************************)
EXTENDS Session

CONSTANTS
  MaxTurns   \* bound: questions ever asked

ASSUME ChatAssumption == MaxTurns \in Nat

NoConv == 0

VARIABLES
  convs,   \* server: owner, existence and messages of each conversation
  turns,   \* server: the request of each turn and how far it came
  chat,    \* the store of the chat
  stream,  \* the turn that is streamed to the tab, and how far
  calls,   \* the other requests of the chat under way
  hist     \* history: mixed, behind (see the properties)

chatVars == <<convs, turns, chat, stream, calls, hist>>
server == <<convs, turns>>

Convs == 1..MaxTurns
Turns == 1..MaxTurns
Entries == [turn : Turns, role : {"question", "answer"}]
Messages == [turn : Turns, text : {"question", "pending", "answer", "error"}, live : BOOLEAN]
NoStream == [turn |-> 0, phase |-> "none"]
EmptyChat == [list |-> {}, open |-> NoConv, messages |-> <<>>, sending |-> FALSE]
NoAccident == [mixed |-> FALSE, behind |-> FALSE]

ChatTypeOK ==
  /\ convs \in Seq([owner : Users, exists : BOOLEAN, log : Seq(Entries)])
  /\ turns \in Seq([token : Tokens \cup {NoToken}, asked : Convs \cup {NoConv},
                    conv : Convs \cup {NoConv},
                    pc : {"sent", "bound", "asked", "answered"}])
  /\ Len(turns) <= MaxTurns /\ Len(convs) <= Len(turns)
  /\ chat.list \subseteq DOMAIN convs /\ chat.open \in DOMAIN convs \cup {NoConv}
  /\ chat.messages \in Seq(Messages)
  /\ chat.sending = (stream # NoStream)
  /\ stream.turn \in DOMAIN turns \cup {0}
  /\ stream.phase \in {"none", "waiting", "open", "listing"}
  /\ DOMAIN hist = DOMAIN NoAccident

ChatInit ==
  /\ convs = <<>> /\ turns = <<>>
  /\ chat = EmptyChat /\ stream = NoStream /\ calls = {}
  /\ hist = NoAccident

-----------------------------------------------------------------------------
(* Requests of the chat: a status is set when the server has answered.      *)

Call(kind, conv) ==
  [kind |-> kind, conv |-> conv, token |-> stored, status |-> "sent", messages |-> <<>>]

ListCall == Call("list", NoConv)

(* What showing the chat page asks for.                                     *)
MountCalls == IF Mounts("chat") THEN {ListCall'} ELSE {}

(* Mutant of MayUse: any conversation is found.                             *)
MayUseAny(t, c) == convs[c].exists
MayUse(t, c) == convs[c].exists /\ convs[c].owner = owner[t]

(* The messages of a conversation, as the tab shows them.                   *)
Loaded(c) ==
  [i \in DOMAIN convs[c].log |->
     [turn |-> convs[c].log[i].turn, text |-> convs[c].log[i].role, live |-> FALSE]]

ListOf(t) == {c \in DOMAIN convs : MayUse(t, c)}

Answer(r) ==
  IF r.token \notin alive THEN [r EXCEPT !.status = "unauthorized"]
  ELSE IF ~MayUse(r.token, r.conv) THEN [r EXCEPT !.status = "refused"]
  ELSE [r EXCEPT !.status = "ok", !.messages = IF r.kind = "open" THEN Loaded(r.conv) ELSE <<>>]

Serve(r) ==
  /\ r.kind # "list" /\ r.status = "sent"
  /\ calls' = (calls \ {r}) \cup {Answer(r)}
  /\ convs' = IF r.kind = "delete" /\ Answer(r).status = "ok"
              THEN [convs EXCEPT ![r.conv].exists = FALSE, ![r.conv].log = <<>>]
              ELSE convs
  /\ UNCHANGED <<sessionVars, turns, chat, stream, hist>>

-----------------------------------------------------------------------------
(* The messages on the screen are replaced: what the stream still writes    *)
(* goes to objects nobody sees, and the metadata it still brings names      *)
(* another conversation than the messages'.                                 *)
Shows(conv, messages, list) ==
  /\ chat' = [chat EXCEPT !.open = conv, !.messages = messages, !.list = list]
  /\ hist' = [hist EXCEPT !.mixed = stream.phase = "waiting",
                          !.behind = conv # NoConv /\ (stream.phase \in {"waiting", "open"}
                                                       \/ messages # Loaded(conv))]

(* Mutant of NewConversation: the messages stay.                            *)
NewConversationOnly ==
  /\ ActsOn("chat")
  /\ chat' = [chat EXCEPT !.open = NoConv]
  /\ UNCHANGED <<server, stream, calls, hist>>
NewConversation ==
  /\ ActsOn("chat")
  /\ Shows(NoConv, <<>>, chat.list)
  /\ UNCHANGED <<server, stream, calls>>

Click(kind, c) ==
  /\ ActsOn("chat")
  /\ c \in chat.list
  /\ calls' = calls \cup {Call(kind, c)}
  /\ UNCHANGED <<server, chat, stream, hist>>

(* openConversation(): the open conversation is set with its messages, when *)
(* they arrive.                                                             *)
Opened(r) ==
  /\ r.kind = "open" /\ r.status = "ok"
  /\ Shows(r.conv, r.messages, chat.list)
  /\ calls' = calls \ {r}
  /\ UNCHANGED <<sessionVars, server, stream>>

(* removeConversation(), after its confirmation; the list is loaded again.  *)
Removed(r) ==
  /\ r.kind = "delete" /\ r.status = "ok"
  /\ IF chat.open = r.conv THEN Shows(NoConv, <<>>, chat.list) ELSE UNCHANGED <<chat, hist>>
  /\ calls' = (calls \ {r}) \cup {ListCall}
  /\ UNCHANGED <<sessionVars, server, stream>>

ListArrives(r) ==
  /\ r.kind = "list" /\ r.token \in alive
  /\ chat' = [chat EXCEPT !.list = ListOf(r.token)]
  /\ calls' = calls \ {r}
  /\ UNCHANGED <<sessionVars, server, stream, hist>>

(* A call fails: refused, unauthorized, or its answer does not come in time.*)
(* The views of the chat show no error; the interceptor may act.            *)
CallFails(r) ==
  LET status == IF r.kind = "list" /\ r.token \notin alive THEN "unauthorized"
                ELSE IF r.status \in {"sent", "ok"} THEN "lost" ELSE r.status IN
  /\ Failed(status, r.token, auth)
  /\ calls' = (calls \ {r}) \cup MountCalls
  /\ UNCHANGED <<server, chat, stream, hist>>

-----------------------------------------------------------------------------
(* A turn.  The question goes to the conversation that is open now.         *)

Writes(text) ==
  [chat EXCEPT !.messages =
     [i \in DOMAIN @ |-> IF @[i].live /\ @[i].turn = stream.turn
                         THEN [@[i] EXCEPT !.text = text] ELSE @[i]]]

Send ==
  LET t == Len(turns) + 1 IN
  /\ ActsOn("chat")
  /\ ~chat.sending /\ t <= MaxTurns
  /\ turns' = Append(turns, [token |-> stored, asked |-> chat.open, conv |-> NoConv, pc |-> "sent"])
  /\ chat' = [chat EXCEPT !.sending = TRUE,
                !.messages = @ \o << [turn |-> t, text |-> "question", live |-> FALSE],
                                     [turn |-> t, text |-> "pending", live |-> TRUE] >>]
  /\ stream' = [turn |-> t, phase |-> "waiting"]
  /\ UNCHANGED <<convs, calls, hist>>

Asker(t) == owner[turns[t].token]
TurnAt(t, pc) == turns[t].pc = pc
Goes(t, pc) == turns' = [turns EXCEPT ![t].pc = pc]

(* stream_chat.  A turn that fails, is refused or cancelled anywhere takes  *)
(* no further step.  Its conversation is created, or looked up.             *)
Bind(t) ==
  LET c == IF turns[t].asked = NoConv THEN Len(convs) + 1 ELSE turns[t].asked IN
  /\ TurnAt(t, "sent") /\ turns[t].token \in alive
  /\ IF turns[t].asked = NoConv
     THEN convs' = Append(convs, [owner |-> Asker(t), exists |-> TRUE, log |-> <<>>])
     ELSE MayUse(turns[t].token, c) /\ UNCHANGED convs
  /\ turns' = [turns EXCEPT ![t].pc = "bound", ![t].conv = c]
  /\ UNCHANGED <<sessionVars, chat, stream, calls, hist>>

(* The screen shows an error for the turn.                                  *)
Failing(t) == \E i \in DOMAIN chat.messages :
                chat.messages[i].turn = t /\ chat.messages[i].text = "error"

(* add_message(), for the question and then for the answer.                 *)
Store(t, pc, role, next) ==
  LET c == turns[t].conv IN
  /\ TurnAt(t, pc)
  /\ MayUse(turns[t].token, c)
  /\ convs' = [convs EXCEPT ![c].log = Append(@, [turn |-> t, role |-> role])]
  /\ Goes(t, next)
  /\ hist' = [hist EXCEPT !.behind = @ \/ (t # stream.turn /\ chat.open = c /\ ~Failing(t))]
  /\ UNCHANGED <<sessionVars, chat, stream, calls>>

StoreQuestion(t) == Store(t, "bound", "question", "asked")
StoreAnswer(t) == Store(t, "asked", "answer", "answered")

(* The event "metadata": whatever is open by now, this conversation is.     *)
MetadataArrives ==
  /\ stream.phase = "waiting" /\ TurnAt(stream.turn, "answered")
  /\ chat' = [chat EXCEPT !.open = turns[stream.turn].conv]
  /\ stream' = [stream EXCEPT !.phase = "open"]
  /\ UNCHANGED <<sessionVars, server, calls, hist>>

(* The events "chunk" and "done", and the list that is loaded after them.   *)
(* Mutant of AnswerArrives: the text of the chunks is not written.          *)
AnswerIgnored ==
  /\ stream.phase = "open"
  /\ stream' = [stream EXCEPT !.phase = "listing"]
  /\ UNCHANGED <<sessionVars, server, chat, calls, hist>>
AnswerArrives ==
  /\ stream.phase = "open"
  /\ chat' = Writes("answer")
  /\ stream' = [stream EXCEPT !.phase = "listing"]
  /\ UNCHANGED <<sessionVars, server, calls, hist>>

Finished == stream' = NoStream

(* loadConversations() of the stream: served when it arrives.  It has the   *)
(* token of that moment.                                                    *)
TurnListed ==
  /\ stream.phase = "listing" /\ stored \in alive
  /\ chat' = [chat EXCEPT !.sending = FALSE, !.list = ListOf(stored)]
  /\ Finished
  /\ UNCHANGED <<sessionVars, server, calls, hist>>

(* The stream breaks, or the list that is loaded after it fails: in both    *)
(* cases the error is what the message shows.                               *)
StreamFails ==
  /\ stream.phase \in {"waiting", "open", "listing"}
  /\ chat' = [Writes("error") EXCEPT !.sending = FALSE]
  /\ Finished
  /\ \/ UNCHANGED <<sessionVars, calls>>
     \/ /\ stream.phase = "listing" /\ stored \notin alive
        /\ Failed("unauthorized", stored, auth)
        /\ calls' = calls \cup MountCalls
  /\ UNCHANGED <<server, hist>>

-----------------------------------------------------------------------------
(* What a step of the session does to the chat.  Showing the chat page      *)
(* loads its list; the store outlives the page and the user.                *)
ChatFollows ==
  /\ calls' = calls \cup MountCalls
  /\ UNCHANGED <<server, chat, stream, hist>>

(* Loading the page again loses the store, the stream and the calls.        *)
ChatLost ==
  /\ chat' = EmptyChat /\ stream' = NoStream /\ calls' = {}
  /\ hist' = NoAccident
  /\ UNCHANGED server

ChatStep ==
  \/ NewConversation \/ Send
  \/ \E kind \in {"open", "delete"}, c \in chat.list : Click(kind, c)
  \/ \E r \in calls : Serve(r) \/ Opened(r) \/ Removed(r) \/ ListArrives(r) \/ CallFails(r)
  \/ \E t \in DOMAIN turns : Bind(t) \/ StoreQuestion(t) \/ StoreAnswer(t)
  \/ MetadataArrives \/ AnswerArrives \/ TurnListed \/ StreamFails

-----------------------------------------------------------------------------
(* Properties *)

OfTurn(m) == turns[m.turn]
(* The messages on the screen are of the conversation that is open, so that *)
(* the next question goes where the user sees it go: a turn that failed     *)
(* apart, and the one whose metadata has not come.  Exception: the messages *)
(* were replaced while such a turn was under way; its metadata then opened  *)
(* its conversation beside them (mixed).                                    *)
ShownIsOpen ==
  ~hist.mixed =>
    \A i \in DOMAIN chat.messages :
      LET m == chat.messages[i] IN
      \/ OfTurn(m).conv = chat.open
      \/ Failing(m.turn)
      \/ stream = [turn |-> m.turn, phase |-> "waiting"] /\ OfTurn(m).asked = chat.open

(* Once an answer is written, the messages on the screen are the ones stored*)
(* in the open conversation, in their order, turns that failed apart.       *)
(* Exceptions: they were loaded before the last of those was stored, or     *)
(* while the stream had not written it (behind), and mixed.                 *)
Standing(messages) == {i \in DOMAIN messages : ~Failing(messages[i].turn)}
SameMessage(m, k) == m.turn = k.turn /\ m.text = k.text
Reproduces(shown, kept) ==
  /\ \A i \in Standing(shown) : \E k \in Standing(kept) : SameMessage(shown[i], kept[k])
  /\ \A k \in Standing(kept) : \E i \in Standing(shown) : SameMessage(shown[i], kept[k])
  /\ \A i, j \in Standing(shown), k, l \in Standing(kept) :
       SameMessage(shown[i], kept[k]) /\ SameMessage(shown[j], kept[l]) => (i < j <=> k < l)
ShownIsStored ==
  (/\ stream.phase \in {"none", "listing"} /\ ~hist.mixed /\ ~hist.behind
   /\ chat.open # NoConv /\ convs[chat.open].exists)
  => Reproduces(chat.messages, Loaded(chat.open))

(* Whatever the tab of one user has left to the next, no question or answer *)
(* of one of them is stored in a conversation of the other.                 *)
TurnsStayWithOwner ==
  \A c \in DOMAIN convs : \A i \in DOMAIN convs[c].log :
    Asker(convs[c].log[i].turn) = convs[c].owner
=============================================================================
