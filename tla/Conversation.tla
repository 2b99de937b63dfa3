----------------------------- MODULE Conversation -----------------------------
(***************************************************************************)
(* The conversations of one user: chat turns that store a question and an  *)
(* answer in PostgreSQL and append each of them to a list in Redis, read   *)
(* the recent messages back and make a memory of them, and deletions.      *)
(* Turns run at once, also in the same conversation (two tabs), and end    *)
(* anywhere: a client that leaves cancels the stream at the await it is    *)
(* in.  An error of Redis is swallowed wherever it comes.                  *)
(*                                                                         *)
(* A message is its primary key.  An action is a statement of PostgreSQL   *)
(* or a command of Redis.                                                  *)
(***************************************************************************)
EXTENDS Naturals, SequencesExt, FiniteSetsExt

CONSTANTS
  Convs,        \* conversations
  Turns,        \* chat requests that may be in progress together
  None,         \* no conversation
  Limit,        \* messages kept in the list and given as context
  MaxMessages   \* bound: messages ever inserted

ASSUME ConversationAssumption ==
  /\ Limit \in Nat \ {0} /\ MaxMessages \in Nat
  /\ None \notin Convs
  /\ IsFiniteSet(Turns)

VARIABLES
  convs,     \* conversations: the row is absent, live or deleted
  sequence,  \* the last primary key handed out for a message
  messages,  \* the committed rows of messages
  cache,     \* per conversation, the list in Redis
  expires,   \* the conversations whose list has a time to live
  turns,     \* chat requests
  deletion,  \* a request to delete a conversation
  hist       \* history: what was ever committed, and accidents

vars == <<convs, sequence, messages, cache, expires, turns, deletion, hist>>

Ids == 1..MaxMessages
Rows == [id : Ids, conv : Convs]
TurnPcs == {"idle", "insert", "commit", "refresh", "rpush", "ltrim", "expire",
            "get", "lrange", "select", "memory"}

IdleTurn == [pc |-> "idle", conv |-> None, role |-> "user", own |-> <<>>, recent |-> <<>>]

At(t, pc) == turns[t].pc = pc

TypeOK ==
  /\ convs \in [Convs -> {"absent", "live", "deleted"}]
  /\ sequence \in 0..MaxMessages
  /\ messages \subseteq Rows
  /\ cache \in [Convs -> Seq(Ids)]
  /\ expires \subseteq Convs
  /\ turns \in [Turns -> [pc : TurnPcs, conv : Convs \cup {None}, role : {"user", "assistant"},
                          own : Seq(Ids), recent : Seq(Ids)]]
  /\ \A t \in Turns : Len(turns[t].own) <= 2 /\ Len(turns[t].recent) <= Limit
  /\ deletion \in [pc : {"idle", "found", "uncache"}, conv : Convs \cup {None}]
  /\ hist \in [gaps : SUBSET Convs, mixed : SUBSET Convs,
               cut : SUBSET Convs, orphans : SUBSET Convs]

Init ==
  /\ convs = [c \in Convs |-> "absent"]
  /\ sequence = 0 /\ messages = {}
  /\ cache = [c \in Convs |-> <<>>] /\ expires = {}
  /\ turns = [t \in Turns |-> IdleTurn]
  /\ deletion = [pc |-> "idle", conv |-> None]
  /\ hist = [gaps |-> {}, mixed |-> {}, cut |-> {}, orphans |-> {}]

Live(t) == convs[turns[t].conv] = "live"
Message(t) == Last(turns[t].own)
Goes(t, pc) == turns' = [turns EXCEPT ![t].pc = pc]
Ends(t) == turns' = [turns EXCEPT ![t] = IdleTurn]

(* The newest Limit of some messages, oldest first.                         *)
Newest(s) == SubSeq(s, IF Len(s) > Limit THEN Len(s) - Limit + 1 ELSE 1, Len(s))

(* The rows of a conversation by primary key.                               *)
Ascending(S) ==
  [i \in 1..Cardinality(S) |-> CHOOSE x \in S : Cardinality({y \in S : y <= x}) = i]
IdsOf(c) == {m.id : m \in {n \in messages : n.conv = c}}
Stored(c) == Ascending(IdsOf(c))

-----------------------------------------------------------------------------
(* A turn: its conversation is created, or looked up.                       *)

Overlapping(t, c) ==
  IF \E u \in Turns \ {t} : turns[u].conv = c THEN hist.mixed \cup {c} ELSE hist.mixed

Begin(t, c) ==
  /\ At(t, "idle")
  /\ convs[c] \in {"absent", "live"}
  /\ convs' = [convs EXCEPT ![c] = "live"]
  /\ turns' = [turns EXCEPT ![t] = [IdleTurn EXCEPT !.pc = "insert", !.conv = c]]
  /\ hist' = [hist EXCEPT !.mixed = Overlapping(t, c)]
  /\ UNCHANGED <<sequence, messages, cache, expires, deletion>>

(* add_message() up to flush(): the conversation is there, the key is       *)
(* handed out, and the foreign key locks the conversation.  For an answer   *)
(* the orchestrator has run before.                                         *)
Insert(t) ==
  /\ At(t, "insert") /\ Live(t) /\ sequence < MaxMessages
  /\ sequence' = sequence + 1
  /\ turns' = [turns EXCEPT ![t].pc = "commit", ![t].own = Append(@, sequence + 1)]
  /\ UNCHANGED <<convs, messages, cache, expires, deletion, hist>>

Commit(t) ==
  LET row == [id |-> Message(t), conv |-> turns[t].conv] IN
  /\ At(t, "commit")
  /\ messages' = messages \cup {row}
  /\ Goes(t, "refresh")
  /\ UNCHANGED <<convs, sequence, cache, expires, deletion, hist>>

(* A SELECT finds the conversation, or the row just committed.              *)
Finds(t, pc, next) == At(t, pc) /\ Live(t) /\ Goes(t, next)

Refresh(t) ==
  /\ Finds(t, "refresh", "rpush")
  /\ UNCHANGED <<convs, sequence, messages, cache, expires, deletion, hist>>

-----------------------------------------------------------------------------
(* RedisRecentMessageCache.append: three commands                           *)

AppendPcs == {"rpush", "ltrim", "expire"}

(* Where a turn goes when add_message returns.                              *)
AfterAppend(t) ==
  turns' = IF turns[t].role = "user"
           THEN [turns EXCEPT ![t].pc = "insert", ![t].role = "assistant"]
           ELSE [turns EXCEPT ![t].pc = "get"]

Orphaned(c) == IF convs[c] = "deleted" THEN hist.orphans \cup {c} ELSE hist.orphans

(* Mutant of Push: the message is put before the others.                    *)
PushFront(c, m) == cache' = [cache EXCEPT ![c] = <<m>> \o @]
Push(c, m) == cache' = [cache EXCEPT ![c] = Append(@, m)]

Rpush(t) ==
  /\ At(t, "rpush")
  /\ Push(turns[t].conv, Message(t))
  /\ hist' = [hist EXCEPT !.orphans = Orphaned(turns[t].conv)]
  /\ Goes(t, "ltrim")
  /\ UNCHANGED <<convs, sequence, messages, expires, deletion>>

Trimmed(s) == Newest(s)

Ltrim(t) ==
  /\ At(t, "ltrim")
  /\ cache' = [cache EXCEPT ![turns[t].conv] = Trimmed(@)]
  /\ Goes(t, "expire")
  /\ UNCHANGED <<convs, sequence, messages, expires, deletion, hist>>

(* Mutant of Expire: the command is forgotten.                              *)
ExpireNothing(t) ==
  /\ At(t, "expire")
  /\ AfterAppend(t)
  /\ UNCHANGED <<convs, sequence, messages, cache, expires, deletion, hist>>

(* EXPIRE of a key that is gone does nothing.                               *)
Expire(t) ==
  /\ At(t, "expire")
  /\ expires' = expires \cup {c \in {turns[t].conv} : cache[c] # <<>>}
  /\ AfterAppend(t)
  /\ UNCHANGED <<convs, sequence, messages, cache, deletion, hist>>

(* A command raises, carried out or not; the rest of append is skipped.     *)
AppendFails(t) ==
  LET c == turns[t].conv IN
  /\ turns[t].pc \in AppendPcs
  /\ \/ At(t, "rpush") /\ Push(c, Message(t))
     \/ UNCHANGED cache
  /\ hist' = [hist EXCEPT !.gaps = IF At(t, "rpush") THEN @ \cup {c} ELSE @,
                          !.cut = @ \cup {c}, !.orphans = Orphaned(c)]
  /\ AfterAppend(t)
  /\ UNCHANGED <<convs, sequence, messages, expires, deletion>>

-----------------------------------------------------------------------------
(* recent_context: get(), then the list, if there is one, or the table.     *)
Get(t) ==
  /\ Finds(t, "get", "lrange")
  /\ UNCHANGED <<convs, sequence, messages, cache, expires, deletion, hist>>

Lrange(t) ==
  LET cached == cache[turns[t].conv] IN
  /\ At(t, "lrange")
  /\ turns' = IF cached # <<>>
              THEN [turns EXCEPT ![t].pc = "memory", ![t].recent = Newest(cached)]
              ELSE [turns EXCEPT ![t].pc = "select"]
  /\ UNCHANGED <<convs, sequence, messages, cache, expires, deletion, hist>>

LrangeFails(t) ==
  /\ At(t, "lrange")
  /\ Goes(t, "select")
  /\ UNCHANGED <<convs, sequence, messages, cache, expires, deletion, hist>>

Select(t) ==
  /\ At(t, "select")
  /\ turns' = [turns EXCEPT ![t].pc = "memory", ![t].recent = Newest(Stored(turns[t].conv))]
  /\ UNCHANGED <<convs, sequence, messages, cache, expires, deletion, hist>>

(* maybe_store_after_turn makes a memory of the recent messages, and the    *)
(* turn is over.                                                            *)
Remember(t) ==
  /\ At(t, "memory")
  /\ Ends(t)
  /\ UNCHANGED <<convs, sequence, messages, cache, expires, deletion, hist>>

(* The request is cancelled, its process dies, or something raises that no  *)
(* handler catches: a store, the model, PermissionError of get() or the     *)
(* foreign key when the conversation is gone.                               *)
TurnEnds(t) ==
  LET c == turns[t].conv IN
  /\ ~At(t, "idle")
  /\ hist' = [hist EXCEPT !.gaps = IF turns[t].pc \in {"refresh", "rpush"} THEN @ \cup {c} ELSE @,
                          !.cut = IF turns[t].pc \in AppendPcs THEN @ \cup {c} ELSE @]
  /\ Ends(t)
  /\ UNCHANGED <<convs, sequence, messages, cache, expires, deletion>>

-----------------------------------------------------------------------------
(* ConversationService.delete                                               *)

Deletes(pc, c) == deletion' = [pc |-> pc, conv |-> c]

BeginDeletion(c) ==
  /\ deletion.pc = "idle"
  /\ convs[c] = "live"
  /\ Deletes("found", c)
  /\ UNCHANGED <<convs, sequence, messages, cache, expires, turns, hist>>

(* DELETE waits for the inserts that hold the conversation; it cascades.    *)
DeleteRows ==
  LET c == deletion.conv IN
  /\ deletion.pc = "found"
  /\ \A t \in Turns : ~(At(t, "commit") /\ turns[t].conv = c)
  /\ convs' = [convs EXCEPT ![c] = "deleted"]
  /\ messages' = {m \in messages : m.conv # c}
  /\ Deletes("uncache", c)
  /\ UNCHANGED <<sequence, cache, expires, turns, hist>>

Uncached == deletion.pc = "uncache"

(* Mutant of Drop: another key is deleted.                                  *)
DropAnother(c) == UNCHANGED <<cache, expires>>
Drop(c) == cache' = [cache EXCEPT ![c] = <<>>] /\ expires' = expires \ {c}

DeleteList ==
  /\ Uncached
  /\ Drop(deletion.conv)
  /\ Deletes("idle", None)
  /\ UNCHANGED <<convs, sequence, messages, turns, hist>>

(* The deletion stops: Redis fails after the commit, or the request dies.   *)
DeletionEnds ==
  /\ deletion.pc # "idle"
  /\ hist' = [hist EXCEPT !.orphans = IF Uncached THEN @ \cup {deletion.conv} ELSE @]
  /\ Deletes("idle", None)
  /\ UNCHANGED <<convs, sequence, messages, cache, expires, turns>>

(* A day without a message, or Redis gives the key up.                      *)
KeyExpires(c) ==
  /\ c \in expires
  /\ Drop(c)
  /\ hist' = [hist EXCEPT !.gaps = @ \cup {c}]
  /\ UNCHANGED <<convs, sequence, messages, turns, deletion>>

-----------------------------------------------------------------------------
AddMessage(t) ==
  \/ Insert(t) \/ Commit(t) \/ Refresh(t)
  \/ Rpush(t) \/ Ltrim(t) \/ Expire(t) \/ AppendFails(t)

Turn(t) ==
  \/ \E c \in Convs : Begin(t, c)
  \/ AddMessage(t) \/ Get(t)
  \/ Lrange(t) \/ LrangeFails(t) \/ Select(t) \/ Remember(t) \/ TurnEnds(t)

Next ==
  \/ \E t \in Turns : Turn(t)
  \/ \E c \in Convs : BeginDeletion(c) \/ KeyExpires(c)
  \/ DeleteRows \/ DeleteList \/ DeletionEnds

Spec == Init /\ [][Next]_vars

-----------------------------------------------------------------------------
(* Properties *)

(* The context a turn is given is the last Limit messages of its            *)
(* conversation, in their order, unless an append to the list failed or was *)
(* cut off, the list expired, or two turns of the conversation overlapped.  *)
RecentIsComplete ==
  [][\A t \in Turns :
       LET c == turns[t].conv IN
       /\ Lrange(t) \/ Select(t)
       /\ turns'[t].pc = "memory" /\ Live(t) /\ c \notin hist.gaps \cup hist.mixed
       => turns'[t].recent = Newest(Stored(c))]_vars

(* A turn finds its own answer in the context, also beside other turns of   *)
(* its conversation, unless those wrote so much that nothing of it is left, *)
(* or messages are missing from the list.                                   *)
OwnAnswerIsRecent ==
  \A t \in Turns :
    At(t, "memory") /\ Live(t) /\ turns[t].conv \notin hist.gaps =>
      LET recent == ToSet(turns[t].recent) IN
      \/ Message(t) \in recent
      \/ Len(turns[t].recent) = Limit /\ recent \cap ToSet(turns[t].own) = {}

(* A list without a time to live is one that is being appended to, or one   *)
(* of a conversation an append of which was cut off after its RPUSH.        *)
KeysExpire ==
  \A c \in Convs : cache[c] # <<>> /\ c \notin expires =>
    c \in hist.cut \/ \E t \in Turns : turns[t].conv = c /\ turns[t].pc \in {"ltrim", "expire"}

(* A list is longer than what is kept only by the messages of turns that    *)
(* are about to trim it, or since an append was cut off before its LTRIM.   *)
Trimming(c) == {t \in Turns : At(t, "ltrim") /\ turns[t].conv = c}
ListsAreTrimmed ==
  \A c \in Convs \ hist.cut : Len(cache[c]) <= Limit + Cardinality(Trimming(c))

(* The list of a deleted conversation is there only while its deletion is   *)
(* going on, or because that was cut off or an append came after it.        *)
OrphansOnlyFromOverlap ==
  \A c \in Convs : convs[c] = "deleted" /\ cache[c] # <<>> =>
    deletion = [pc |-> "uncache", conv |-> c] \/ c \in hist.orphans
=============================================================================
