-------------------------- MODULE ConversationProofs --------------------------
(***************************************************************************)
(* Proofs about Conversation: what may be left in Redis, and what a turn   *)
(* gets to read back of it, for any number of conversations, turns at once *)
(* and messages, and every limit.                                          *)
(***************************************************************************)
EXTENDS Conversation, FiniteSetTheorems, SequenceTheorems, TLAPS

(* What is known of a turn: the context it was given does not matter here.  *)
Working == TurnPcs \ {"idle"}
HasMessage == {"commit", "refresh", "rpush"}
Fields(pc, conv, role, own, recent) ==
  [pc |-> pc, conv |-> conv, role |-> role, own |-> own, recent |-> recent]

TurnShape(r) ==
  /\ r = Fields(r.pc, r.conv, r.role, r.own, r.recent)
  /\ r.pc \in TurnPcs /\ r.own \in Seq(Ids)
  /\ r.pc \in Working => r.conv \in Convs
  /\ r.pc \in HasMessage => r.own # <<>>

TurnsShaped ==
  /\ turns = [t \in Turns |-> turns[t]]
  /\ \A t \in Turns : TurnShape(turns[t])

ConvStates == {"absent", "live", "deleted"}
HistRecords == [gaps : SUBSET Convs, mixed : SUBSET Convs, cut : SUBSET Convs, orphans : SUBSET Convs]
Deletions == [pc : {"idle", "found", "uncache"}, conv : Convs \cup {None}]

StoresShaped ==
  /\ convs \in [Convs -> ConvStates]
  /\ sequence \in 0..MaxMessages
  /\ cache \in [Convs -> Seq(Ids)]
  /\ deletion \in Deletions /\ (deletion.pc # "idle" => deletion.conv \in Convs)
  /\ hist \in HistRecords

IInv == TurnsShaped /\ StoresShaped /\ KeysExpire /\ ListsAreTrimmed /\ OrphansOnlyFromOverlap

-----------------------------------------------------------------------------
(* The newest messages of a list                                            *)

LEMMA NewestShape ==
  ASSUME ConversationAssumption, NEW s \in Seq(Ids)
  PROVE  /\ Newest(s) \in Seq(Ids) /\ Len(Newest(s)) <= Limit
         /\ Newest(s) # <<>> => s # <<>>
<1> DEFINE m == IF Len(s) > Limit THEN Len(s) - Limit + 1 ELSE 1
<1>1. Len(s) \in Nat /\ Limit \in Nat
  BY DEF ConversationAssumption
<1>2. m \in 1..(Len(s) + 1) /\ Len(s) \in 0..Len(s)
  BY <1>1
<1>3. Newest(s) = SubSeq(s, m, Len(s))
  BY DEF Newest
<1>4. Newest(s) \in Seq(Ids) /\ Len(Newest(s)) = IF m <= Len(s) THEN Len(s) - m + 1 ELSE 0
  <2> HIDE DEF m
  <2>1. m \in Int /\ Len(s) \in Int /\ \A i \in m..Len(s) : i \in 1..Len(s)
    BY <1>1, <1>2
  <2>2. SubSeq(s, m, Len(s)) \in Seq(Ids)
    BY <1>1, <1>2
  <2>3. Len(SubSeq(s, m, Len(s))) = IF m <= Len(s) THEN Len(s) - m + 1 ELSE 0
    BY <1>1, <1>2
  <2> QED
    BY <1>3, <2>2, <2>3
<1>5. Len(Newest(s)) <= Limit
  BY <1>1, <1>4
<1>6. ASSUME s = <<>> PROVE Newest(s) = <<>>
  <2>1. Len(s) = 0
    BY <1>6
  <2>2. Len(Newest(s)) = 0
    BY <1>1, <1>4, <2>1
  <2> QED
    BY <1>4, <2>2
<1> QED
  BY <1>4, <1>5, <1>6

-----------------------------------------------------------------------------
(* Steps of a turn                                                          *)

LEMMA TurnMoves ==
  ASSUME TurnsShaped, NEW t \in Turns, NEW r, TurnShape(r), turns' = [turns EXCEPT ![t] = r]
  PROVE  /\ TurnsShaped' /\ turns'[t] = r
         /\ \A u \in Turns \ {t} : turns'[u] = turns[u]
<1>1. turns' = [u \in Turns |-> IF u = t THEN r ELSE turns[u]]
  BY DEF TurnsShaped
<1>2. \A u \in Turns : turns'[u] = IF u = t THEN r ELSE turns[u]
  BY <1>1
<1>3. \A u \in Turns : TurnShape(turns'[u])
  BY <1>2 DEF TurnsShaped
<1>4. turns' = [u \in Turns |-> turns'[u]]
  BY <1>1
<1> QED
  BY <1>2, <1>3, <1>4 DEF TurnsShaped, TurnShape

(* Most steps leave the lists alone, and every turn that is appending to    *)
(* one where it is, or end it and note that.                                *)
Appending == {"ltrim", "expire"}
Quiet ==
  /\ UNCHANGED <<cache, expires>>
  /\ hist.cut \subseteq hist'.cut
  /\ \A t \in Turns : turns[t].pc \in Appending =>
       \/ turns'[t].pc = turns[t].pc /\ turns'[t].conv = turns[t].conv
       \/ turns[t].conv \in hist'.cut

LEMMA TrimmingIsFinite ==
  ASSUME ConversationAssumption, NEW c
  PROVE  IsFiniteSet(Trimming(c)) /\ Cardinality(Trimming(c)) \in Nat
<1>1. Trimming(c) \in SUBSET Turns
  BY DEF Trimming
<1> QED
  BY <1>1, FS_Subset, FS_CardinalityType DEF ConversationAssumption

(* A list that is no longer than before, while no turn stopped trimming it. *)
LEMMA StaysTrimmed ==
  ASSUME ConversationAssumption, StoresShaped, StoresShaped',
         NEW c \in Convs,
         Len(cache[c]) <= Limit + Cardinality(Trimming(c)),
         NEW trimming, IsFiniteSet(trimming), Trimming(c) \subseteq trimming,
         Len(cache'[c]) <= Len(cache[c])
  PROVE  Len(cache'[c]) <= Limit + Cardinality(trimming)
<1>1. Cardinality(Trimming(c)) <= Cardinality(trimming) /\ Cardinality(trimming) \in Nat
  BY FS_Subset, FS_CardinalityType
<1>2. Cardinality(Trimming(c)) \in Nat
  BY TrimmingIsFinite
<1>3. Limit \in Nat /\ Len(cache[c]) \in Nat /\ Len(cache'[c]) \in Nat
  BY DEF ConversationAssumption, StoresShaped
<1> QED
  BY <1>1, <1>2, <1>3

LEMMA QuietKeeps ==
  ASSUME ConversationAssumption, IInv, StoresShaped', Quiet
  PROVE  KeysExpire' /\ ListsAreTrimmed'
<1>1. KeysExpire'
  BY DEF IInv, KeysExpire, Quiet, Appending
<1>2. ASSUME NEW c \in Convs \ hist'.cut
      PROVE  Len(cache'[c]) <= Limit + Cardinality(Trimming(c)')
  <2>1. c \in Convs \ hist.cut
    BY DEF Quiet
  <2>2. PICK trimming : trimming = Trimming(c)'
    OBVIOUS
  <2>3. trimming \in SUBSET Turns /\ Trimming(c) \subseteq trimming
    BY <1>2, <2>2 DEF Trimming, At, Quiet, Appending
  <2>4. IsFiniteSet(trimming)
    BY <2>3, FS_Subset DEF ConversationAssumption
  <2>5. Len(cache[c]) <= Limit + Cardinality(Trimming(c)) /\ Len(cache'[c]) <= Len(cache[c])
    BY <2>1 DEF IInv, ListsAreTrimmed, StoresShaped, Quiet
  <2>6. Len(cache'[c]) <= Limit + Cardinality(trimming)
    BY <2>1, <2>3, <2>4, <2>5, StaysTrimmed DEF IInv
  <2> QED
    BY <2>2, <2>6
<1>3. ListsAreTrimmed'
  BY <1>2 DEF ListsAreTrimmed
<1> QED
  BY <1>1, <1>3

(* And they neither revive a list nor delete a conversation.                *)
Lasting ==
  /\ UNCHANGED <<cache, deletion>>
  /\ hist.orphans \subseteq hist'.orphans
  /\ \A c \in Convs : convs'[c] = "deleted" => convs[c] = "deleted"

LEMMA LastingKeeps == ASSUME OrphansOnlyFromOverlap, Lasting PROVE OrphansOnlyFromOverlap'
BY DEF OrphansOnlyFromOverlap, Lasting

(* A turn goes to another statement, with the messages it has.              *)
LEMMA GoesMoves ==
  ASSUME TurnsShaped, NEW t \in Turns, NEW pc \in Working, turns[t].pc \in Working,
         pc \in HasMessage => turns[t].pc \in HasMessage,
         Goes(t, pc)
  PROVE  /\ TurnsShaped' /\ turns'[t].pc = pc /\ turns'[t].conv = turns[t].conv
         /\ \A u \in Turns \ {t} : turns'[u] = turns[u]
<1> DEFINE r == [turns[t] EXCEPT !.pc = pc]
<1>1. turns' = [turns EXCEPT ![t] = r]
  BY DEF Goes
<1>2. r = Fields(pc, turns[t].conv, turns[t].role, turns[t].own, turns[t].recent)
  BY DEF TurnsShaped, TurnShape, Fields
<1> HIDE DEF r
<1>3. TurnShape(r) /\ r.pc = pc /\ r.conv = turns[t].conv
  BY <1>2 DEF TurnShape, TurnsShaped, Working, Fields
<1> QED
  BY <1>1, <1>3, TurnMoves

(* Two fields of a turn are changed at once.                                *)
WithOwn(q, pc, v)    == [q EXCEPT !.pc = pc, !.own = v]
WithRecent(q, pc, v) == [q EXCEPT !.pc = pc, !.recent = v]
WithConv(q, pc, v)   == [q EXCEPT !.pc = pc, !.conv = v]
WithRole(q, pc, v)   == [q EXCEPT !.pc = pc, !.role = v]

LEMMA EditsTwo ==
  ASSUME NEW q, NEW pc, NEW v, q = Fields(q.pc, q.conv, q.role, q.own, q.recent)
  PROVE  /\ WithOwn(q, pc, v) = Fields(pc, q.conv, q.role, v, q.recent)
         /\ WithRecent(q, pc, v) = Fields(pc, q.conv, q.role, q.own, v)
         /\ WithConv(q, pc, v) = Fields(pc, v, q.role, q.own, q.recent)
         /\ WithRole(q, pc, v) = Fields(pc, q.conv, v, q.own, q.recent)
<1>1. PICK r : r = [q EXCEPT !.pc = pc]
  OBVIOUS
<1>2. r = Fields(pc, q.conv, q.role, q.own, q.recent)
  BY <1>1 DEF Fields
<1>3. [r EXCEPT !.own = v] = Fields(pc, q.conv, q.role, v, q.recent)
  BY <1>2 DEF Fields
<1>4. [r EXCEPT !.recent = v] = Fields(pc, q.conv, q.role, q.own, v)
  BY <1>2 DEF Fields
<1>5. [r EXCEPT !.conv = v] = Fields(pc, v, q.role, q.own, q.recent)
  BY <1>2 DEF Fields
<1>6. [r EXCEPT !.role = v] = Fields(pc, q.conv, v, q.own, q.recent)
  BY <1>2 DEF Fields
<1> QED
  BY <1>1, <1>3, <1>4, <1>5, <1>6 DEF WithOwn, WithRecent, WithConv, WithRole

LEMMA IdleShape == TurnShape(IdleTurn)
BY DEF TurnShape, IdleTurn, Working, HasMessage, TurnPcs, Fields

(* A message is one of the keys that were handed out.                       *)
LEMMA MessageIsId ==
  ASSUME TurnsShaped, NEW t \in Turns, turns[t].pc \in HasMessage
  PROVE  Message(t) \in Ids
<1>1. turns[t].own \in Seq(Ids) /\ turns[t].own # <<>>
  BY DEF TurnsShaped, TurnShape
<1>2. Len(turns[t].own) \in 1..Len(turns[t].own)
  BY <1>1
<1> QED
  BY <1>1, <1>2 DEF Message, Last

-----------------------------------------------------------------------------
(* Steps outside append()                                                   *)

Kept == TurnsShaped' /\ StoresShaped' /\ Quiet /\ OrphansOnlyFromOverlap'

LEMMA BeginKeeps ==
  ASSUME IInv, NEW t \in Turns, NEW c \in Convs, Begin(t, c) PROVE Kept
<1> DEFINE r == [IdleTurn EXCEPT !.pc = "insert", !.conv = c]
<1>1. turns' = [turns EXCEPT ![t] = r] /\ turns[t].pc = "idle"
  BY DEF Begin, At
<1>2. TurnShape(r)
  <2>1. /\ IdleTurn = [pc |-> IdleTurn.pc, conv |-> IdleTurn.conv, role |-> IdleTurn.role,
                       own |-> IdleTurn.own, recent |-> IdleTurn.recent]
        /\ IdleTurn.own = <<>>
    BY DEF IdleTurn
  <2>2. r = Fields("insert", c, IdleTurn.role, IdleTurn.own, IdleTurn.recent)
    <3>1. r = WithConv(IdleTurn, "insert", c)
      BY DEF WithConv
    <3> HIDE DEF r
    <3> QED
      BY <2>1, <3>1, EditsTwo DEF Fields
  <2> HIDE DEF r
  <2> QED
    BY <2>1, <2>2 DEF TurnShape, Working, HasMessage, TurnPcs, Fields
<1> HIDE DEF r
<1>3. TurnsShaped' /\ \A u \in Turns \ {t} : turns'[u] = turns[u]
  BY <1>1, <1>2, TurnMoves DEF IInv
<1>4. Overlapping(t, c) \in SUBSET Convs
  BY DEF Overlapping, IInv, StoresShaped, HistRecords
<1>5. hist' \in HistRecords /\ hist'.cut = hist.cut /\ hist'.orphans = hist.orphans
  BY <1>4 DEF Begin, IInv, StoresShaped, HistRecords
<1>6. convs' \in [Convs -> ConvStates] /\ \A d \in Convs : convs'[d] = "deleted" => convs[d] = "deleted"
  BY DEF Begin, IInv, StoresShaped, ConvStates
<1>7. UNCHANGED <<sequence, cache, expires, deletion>>
  BY DEF Begin
<1>8. StoresShaped'
  BY <1>5, <1>6, <1>7 DEF IInv, StoresShaped
<1>9. Quiet /\ Lasting
  BY <1>1, <1>3, <1>5, <1>6, <1>7 DEF Quiet, Lasting, Appending
<1> QED
  BY <1>3, <1>8, <1>9, LastingKeeps DEF Kept, IInv

(* A step of one turn that is not appending and touches no store but the    *)
(* rows of messages.                                                        *)
LEMMA QuietTurnKeeps ==
  ASSUME IInv, NEW t \in Turns, turns[t].pc \notin Appending,
         TurnsShaped', \A u \in Turns \ {t} : turns'[u] = turns[u],
         sequence' \in 0..MaxMessages, UNCHANGED <<convs, cache, expires, deletion, hist>>
  PROVE  Kept
BY DEF IInv, Kept, StoresShaped, Quiet, OrphansOnlyFromOverlap, Appending

LEMMA InsertKeeps == ASSUME ConversationAssumption, IInv, NEW t \in Turns, Insert(t) PROVE Kept
<1> DEFINE r == [turns[t] EXCEPT !.pc = "commit", !.own = Append(@, sequence + 1)]
<1>1. turns' = [turns EXCEPT ![t] = r] /\ turns[t].pc = "insert"
  BY DEF Insert, At
<1>2. TurnShape(turns[t])
  BY DEF IInv, TurnsShaped
<1>3. r = Fields("commit", turns[t].conv, turns[t].role, Append(turns[t].own, sequence + 1),
                 turns[t].recent)
  <2>1. r = WithOwn(turns[t], "commit", Append(turns[t].own, sequence + 1))
    BY DEF WithOwn
  <2> HIDE DEF r
  <2> QED
    BY <1>2, <2>1, EditsTwo DEF TurnShape
<1>4. sequence + 1 \in Ids /\ sequence' \in 0..MaxMessages
  BY DEF Insert, Ids, IInv, StoresShaped, ConversationAssumption
<1>5. Append(turns[t].own, sequence + 1) \in Seq(Ids) /\ Append(turns[t].own, sequence + 1) # <<>>
  <2>1. turns[t].own \in Seq(Ids)
    BY <1>2 DEF TurnShape
  <2>2. PICK own \in Seq(Ids) : own = turns[t].own
    BY <2>1
  <2>3. Append(own, sequence + 1) \in Seq(Ids) /\ Append(own, sequence + 1) # <<>>
    BY <1>4
  <2> QED
    BY <2>2, <2>3
<1> HIDE DEF r
<1>6. TurnShape(r)
  BY <1>1, <1>2, <1>3, <1>5 DEF TurnShape, TurnPcs, Working, HasMessage, Fields
<1>7. TurnsShaped' /\ \A u \in Turns \ {t} : turns'[u] = turns[u]
  BY <1>1, <1>6, TurnMoves DEF IInv
<1> QED
  BY <1>1, <1>4, <1>7, QuietTurnKeeps DEF Insert, Appending

LEMMA StatementKeeps ==
  ASSUME IInv, NEW t \in Turns, Commit(t) \/ Refresh(t) \/ Get(t) \/ LrangeFails(t) PROVE Kept
<1>1. /\ turns[t].pc \in {"commit", "refresh", "get", "lrange"}
      /\ \E pc \in {"refresh", "rpush", "lrange", "select"} :
           Goes(t, pc) /\ (pc \in {"refresh", "rpush"} => turns[t].pc \in {"commit", "refresh"})
      /\ UNCHANGED <<convs, sequence, cache, expires, deletion, hist>>
  BY DEF Commit, Refresh, Get, LrangeFails, Finds, At
<1>2. TurnsShaped' /\ \A u \in Turns \ {t} : turns'[u] = turns[u]
  BY <1>1, GoesMoves DEF IInv, Working, TurnPcs, HasMessage
<1>3. sequence' \in 0..MaxMessages
  BY <1>1 DEF IInv, StoresShaped
<1> QED
  BY <1>1, <1>2, <1>3, QuietTurnKeeps DEF Appending

(* The recent messages are read from the list or from the table.            *)
LEMMA ReadKeeps == ASSUME IInv, NEW t \in Turns, Lrange(t) \/ Select(t) PROVE Kept
<1>1. /\ turns[t].pc \in {"lrange", "select"}
      /\ UNCHANGED <<convs, sequence, cache, expires, deletion, hist>>
  BY DEF Lrange, Select, At
<1>2. CASE turns' = [turns EXCEPT ![t].pc = "select"]
  <2>1. TurnsShaped' /\ \A u \in Turns \ {t} : turns'[u] = turns[u]
    BY <1>1, <1>2, GoesMoves DEF Goes, IInv, Working, TurnPcs, HasMessage
  <2> QED
    BY <1>1, <2>1, QuietTurnKeeps DEF Appending, IInv, StoresShaped
<1>3. ASSUME NEW recent, turns' = [turns EXCEPT ![t].pc = "memory", ![t].recent = recent]
      PROVE  Kept
  <2> DEFINE r == [turns[t] EXCEPT !.pc = "memory", !.recent = recent]
  <2>1. turns' = [turns EXCEPT ![t] = r]
    BY <1>3
  <2>2. TurnShape(turns[t])
    BY DEF IInv, TurnsShaped
  <2>3. r = Fields("memory", turns[t].conv, turns[t].role, turns[t].own, recent)
    <3>1. r = WithRecent(turns[t], "memory", recent)
      BY DEF WithRecent
    <3> HIDE DEF r
    <3> QED
      BY <2>2, <3>1, EditsTwo DEF TurnShape
  <2> HIDE DEF r
  <2>4. TurnShape(r)
    BY <1>1, <2>2, <2>3 DEF TurnShape, TurnPcs, Working, HasMessage, Fields
  <2>5. TurnsShaped' /\ \A u \in Turns \ {t} : turns'[u] = turns[u]
    BY <2>1, <2>4, TurnMoves DEF IInv
  <2> QED
    BY <1>1, <2>5, QuietTurnKeeps DEF Appending, IInv, StoresShaped
<1> QED
  BY <1>2, <1>3 DEF Lrange, Select

LEMMA EndMoves ==
  ASSUME TurnsShaped, NEW t \in Turns, Ends(t)
  PROVE  TurnsShaped' /\ \A u \in Turns \ {t} : turns'[u] = turns[u]
BY IdleShape, TurnMoves DEF Ends

LEMMA RememberKeeps == ASSUME IInv, NEW t \in Turns, Remember(t) PROVE Kept
<1>1. TurnsShaped' /\ \A u \in Turns \ {t} : turns'[u] = turns[u]
  BY EndMoves DEF Remember, IInv
<1> QED
  BY <1>1, QuietTurnKeeps DEF Remember, At, Appending, IInv, StoresShaped

(* A turn that ends within append() is noted.                               *)
LEMMA TurnEndsKeeps == ASSUME IInv, NEW t \in Turns, TurnEnds(t) PROVE Kept
<1> DEFINE c == turns[t].conv
<1>1. TurnsShaped' /\ \A u \in Turns \ {t} : turns'[u] = turns[u]
  BY EndMoves DEF TurnEnds, IInv
<1>2. c \in Convs
  BY DEF TurnEnds, At, IInv, TurnsShaped, TurnShape, Working
<1>3. hist' = [hist EXCEPT !.gaps = IF turns[t].pc \in {"refresh", "rpush"} THEN @ \cup {c} ELSE @,
                           !.cut = IF turns[t].pc \in AppendPcs THEN @ \cup {c} ELSE @]
  BY DEF TurnEnds
<1> HIDE DEF c
<1>4. /\ hist' \in HistRecords /\ hist.cut \subseteq hist'.cut /\ hist'.orphans = hist.orphans
      /\ turns[t].pc \in AppendPcs => c \in hist'.cut
  BY <1>2, <1>3 DEF IInv, StoresShaped, HistRecords
<1>5. UNCHANGED <<convs, sequence, cache, expires, deletion>>
  BY DEF TurnEnds
<1>6. StoresShaped'
  BY <1>4, <1>5 DEF IInv, StoresShaped
<1>7. Quiet /\ Lasting
  BY <1>1, <1>4, <1>5 DEF Quiet, Lasting, Appending, AppendPcs, c
<1> QED
  BY <1>1, <1>6, <1>7, LastingKeeps DEF Kept, IInv

-----------------------------------------------------------------------------
(* append()                                                                 *)

(* A message is added to the list, of a deleted conversation only if that   *)
(* is noted.                                                                *)
LEMMA PushKeeps ==
  ASSUME StoresShaped, OrphansOnlyFromOverlap, NEW c \in Convs, NEW m \in Ids,
         cache' = cache \/ Push(c, m), hist' \in HistRecords, hist'.orphans = Orphaned(c),
         UNCHANGED <<convs, sequence, deletion>>
  PROVE  /\ StoresShaped' /\ OrphansOnlyFromOverlap'
         /\ \A d \in Convs \ {c} : cache'[d] = cache[d]
         /\ Len(cache'[c]) <= Len(cache[c]) + 1
<1>1. cache[c] \in Seq(Ids)
  BY DEF StoresShaped
<1>2. PICK s \in Seq(Ids) : s = cache[c]
  BY <1>1
<1>3. Append(s, m) \in Seq(Ids) /\ Len(Append(s, m)) = Len(s) + 1 /\ Len(s) \in Nat
  OBVIOUS
<1>4. cache' = cache \/ cache' = [cache EXCEPT ![c] = Append(s, m)]
  BY <1>2 DEF Push
<1>5. /\ cache' \in [Convs -> Seq(Ids)]
      /\ \A d \in Convs \ {c} : cache'[d] = cache[d]
      /\ Len(cache'[c]) <= Len(cache[c]) + 1
  <2>1. CASE cache' = cache
    BY <1>2, <1>3, <2>1 DEF StoresShaped
  <2>2. PICK l \in Seq(Ids) : l = Append(s, m)
    BY <1>3
  <2>3. CASE cache' = [cache EXCEPT ![c] = l]
    <3>1. cache' \in [Convs -> Seq(Ids)] /\ cache'[c] = l /\ \A d \in Convs \ {c} : cache'[d] = cache[d]
      BY <2>3 DEF StoresShaped
    <3> QED
      BY <1>2, <1>3, <2>2, <3>1
  <2> QED
    BY <1>4, <2>1, <2>2, <2>3
<1>6. StoresShaped'
  BY <1>5 DEF StoresShaped
<1>7. OrphansOnlyFromOverlap'
  BY <1>5 DEF OrphansOnlyFromOverlap, Orphaned
<1> QED
  BY <1>5, <1>6, <1>7

LEMMA RpushKeeps == ASSUME ConversationAssumption, IInv, NEW t \in Turns, Rpush(t) PROVE IInv'
<1> DEFINE c == turns[t].conv
<1>1. turns[t].pc = "rpush" /\ Goes(t, "ltrim")
  BY DEF Rpush, At
<1>2. c \in Convs /\ Message(t) \in Ids
  BY <1>1, MessageIsId DEF IInv, TurnsShaped, TurnShape, Working, TurnPcs, HasMessage
<1>3. /\ TurnsShaped' /\ turns'[t].pc = "ltrim" /\ turns'[t].conv = c
      /\ \A u \in Turns \ {t} : turns'[u] = turns[u]
  BY <1>1, GoesMoves DEF IInv, Working, TurnPcs, HasMessage
<1>4. Push(c, Message(t)) /\ hist' = [hist EXCEPT !.orphans = Orphaned(c)]
      /\ UNCHANGED <<convs, sequence, messages, expires, deletion>>
  BY DEF Rpush
<1>5. Orphaned(c) \in SUBSET Convs
  BY <1>2 DEF Orphaned, IInv, StoresShaped, HistRecords
<1> HIDE DEF c
<1>6. hist' \in HistRecords /\ hist'.orphans = Orphaned(c) /\ hist'.cut = hist.cut
  BY <1>4, <1>5 DEF IInv, StoresShaped, HistRecords
<1>7. /\ StoresShaped' /\ OrphansOnlyFromOverlap'
      /\ \A d \in Convs \ {c} : cache'[d] = cache[d]
      /\ Len(cache'[c]) <= Len(cache[c]) + 1
  BY <1>2, <1>4, <1>6, PushKeeps DEF IInv
<1>8. KeysExpire'
  BY <1>1, <1>3, <1>4, <1>6, <1>7 DEF IInv, KeysExpire
<1>9. ASSUME NEW d \in Convs \ hist'.cut
      PROVE  Len(cache'[d]) <= Limit + Cardinality(Trimming(d)')
  <2>1. PICK trimming : trimming = Trimming(d)'
    OBVIOUS
  <2>2. d \in Convs \ hist.cut /\ Len(cache[d]) <= Limit + Cardinality(Trimming(d))
    BY <1>6 DEF IInv, ListsAreTrimmed
  <2>3. CASE d = c
    <3>1. trimming = Trimming(d) \cup {t} /\ t \notin Trimming(d)
      BY <1>1, <1>3, <2>1, <2>3 DEF Trimming, At
    <3>2. Cardinality(trimming) = Cardinality(Trimming(d)) + 1 /\ Cardinality(Trimming(d)) \in Nat
      BY <3>1, TrimmingIsFinite, FS_AddElement
    <3>3. Len(cache'[d]) \in Nat /\ Len(cache[d]) \in Nat /\ Limit \in Nat
      BY <1>7, <2>2 DEF StoresShaped, ConversationAssumption, IInv
    <3> QED
      BY <1>7, <2>1, <2>2, <2>3, <3>2, <3>3
  <2>4. CASE d # c
    <3>1. trimming \in SUBSET Turns /\ Trimming(d) \subseteq trimming
      BY <1>1, <1>3, <2>1 DEF Trimming, At
    <3>2. IsFiniteSet(trimming)
      BY <3>1, FS_Subset DEF ConversationAssumption
    <3>3. Len(cache'[d]) <= Len(cache[d])
      BY <1>7, <2>2, <2>4 DEF StoresShaped, IInv
    <3>4. Len(cache'[d]) <= Limit + Cardinality(trimming)
      BY <1>7, <2>2, <3>1, <3>2, <3>3, StaysTrimmed DEF IInv
    <3> QED
      BY <2>1, <3>4
  <2> QED
    BY <2>3, <2>4
<1>10. ListsAreTrimmed'
  BY <1>9 DEF ListsAreTrimmed
<1> QED
  BY <1>3, <1>7, <1>8, <1>10 DEF IInv

LEMMA LtrimKeeps == ASSUME ConversationAssumption, IInv, NEW t \in Turns, Ltrim(t) PROVE IInv'
<1> DEFINE c == turns[t].conv
<1>1. turns[t].pc = "ltrim" /\ Goes(t, "expire")
  BY DEF Ltrim, At
<1>2. c \in Convs /\ cache[c] \in Seq(Ids)
  BY <1>1 DEF IInv, TurnsShaped, TurnShape, StoresShaped, Working, TurnPcs
<1>3. /\ TurnsShaped' /\ turns'[t].pc = "expire" /\ turns'[t].conv = c
      /\ \A u \in Turns \ {t} : turns'[u] = turns[u]
  BY <1>1, GoesMoves DEF IInv, Working, TurnPcs, HasMessage
<1> HIDE DEF c
<1>4. PICK s : s = Newest(cache[c])
  OBVIOUS
<1>5. s \in Seq(Ids) /\ Len(s) <= Limit /\ (s # <<>> => cache[c] # <<>>)
  BY <1>2, <1>4, NewestShape
<1>6. cache' = [cache EXCEPT ![c] = s]
  BY <1>4 DEF Ltrim, Trimmed, c
<1>7. cache' \in [Convs -> Seq(Ids)] /\ cache'[c] = s /\ \A d \in Convs \ {c} : cache'[d] = cache[d]
  BY <1>2, <1>5, <1>6 DEF IInv, StoresShaped
<1>8. UNCHANGED <<convs, sequence, expires, deletion, hist>>
  BY DEF Ltrim
<1>9. StoresShaped'
  BY <1>7, <1>8 DEF IInv, StoresShaped
<1>10. KeysExpire'
  <2> SUFFICES ASSUME NEW d \in Convs, cache'[d] # <<>>, d \notin expires', d \notin hist'.cut
               PROVE  \E u \in Turns : turns'[u].conv = d /\ turns'[u].pc \in {"ltrim", "expire"}
    BY DEF KeysExpire
  <2>1. CASE d = c
    BY <1>3, <2>1
  <2>2. CASE d # c
    <3>1. PICK u \in Turns : turns[u].conv = d /\ turns[u].pc \in {"ltrim", "expire"}
      BY <1>7, <1>8, <2>2 DEF IInv, KeysExpire
    <3>2. u # t
      BY <2>2, <3>1 DEF c
    <3> QED
      BY <1>3, <3>1, <3>2
  <2> QED
    BY <2>1, <2>2
<1>11. OrphansOnlyFromOverlap'
  BY <1>2, <1>5, <1>7, <1>8 DEF IInv, OrphansOnlyFromOverlap
<1>12. ASSUME NEW d \in Convs \ hist'.cut
       PROVE  Len(cache'[d]) <= Limit + Cardinality(Trimming(d)')
  <2>1. PICK trimming : trimming = Trimming(d)'
    OBVIOUS
  <2>2. trimming \in SUBSET Turns
    BY <2>1 DEF Trimming
  <2>3. IsFiniteSet(trimming) /\ Cardinality(trimming) \in Nat
    BY <2>2, FS_Subset, FS_CardinalityType DEF ConversationAssumption
  <2>4. CASE d = c
    <3>1. Len(s) <= Limit + Cardinality(trimming)
      BY <1>5, <2>3 DEF ConversationAssumption
    <3> QED
      BY <1>7, <2>1, <2>4, <3>1
  <2>5. CASE d # c
    <3>1. Trimming(d) \subseteq trimming
      BY <1>3, <2>1, <2>5 DEF Trimming, At, c
    <3>2. d \in Convs \ hist.cut /\ Len(cache[d]) <= Limit + Cardinality(Trimming(d))
      BY <1>8 DEF IInv, ListsAreTrimmed
    <3>3. Len(cache'[d]) <= Len(cache[d])
      BY <1>7, <1>9, <2>5, <3>2 DEF StoresShaped
    <3>4. Len(cache'[d]) <= Limit + Cardinality(trimming)
      BY <1>9, <2>3, <3>1, <3>2, <3>3, StaysTrimmed DEF IInv
    <3> QED
      BY <2>1, <3>4
  <2> QED
    BY <2>4, <2>5
<1>13. ListsAreTrimmed'
  BY <1>12 DEF ListsAreTrimmed
<1> QED
  BY <1>3, <1>9, <1>10, <1>11, <1>13 DEF IInv

LEMMA AfterAppendMoves ==
  ASSUME TurnsShaped, NEW t \in Turns, turns[t].pc \in AppendPcs, AfterAppend(t)
  PROVE  TurnsShaped' /\ \A u \in Turns \ {t} : turns'[u] = turns[u]
<1>1. TurnShape(turns[t]) /\ turns[t].conv \in Convs
  BY DEF TurnsShaped, TurnShape, Working, AppendPcs, TurnPcs
<1>2. CASE turns[t].role = "user"
  <2> DEFINE r == WithRole(turns[t], "insert", "assistant")
  <2>1. turns' = [turns EXCEPT ![t] = r]
    BY <1>2 DEF AfterAppend, WithRole
  <2>2. r = Fields("insert", turns[t].conv, "assistant", turns[t].own, turns[t].recent)
    BY <1>1, EditsTwo DEF TurnShape
  <2> HIDE DEF r
  <2>3. TurnShape(r)
    BY <1>1, <2>2 DEF TurnShape, TurnPcs, Working, HasMessage, Fields
  <2> QED
    BY <2>1, <2>3, TurnMoves
<1>3. CASE turns[t].role # "user"
  <2>1. Goes(t, "get")
    BY <1>3 DEF AfterAppend, Goes
  <2> QED
    BY <2>1, GoesMoves DEF Working, TurnPcs, HasMessage, AppendPcs
<1> QED
  BY <1>2, <1>3

LEMMA ExpireKeeps == ASSUME ConversationAssumption, IInv, NEW t \in Turns, Expire(t) PROVE IInv'
<1> DEFINE c == turns[t].conv
<1>1. turns[t].pc = "expire" /\ AfterAppend(t)
  BY DEF Expire, At
<1>2. TurnsShaped' /\ \A u \in Turns \ {t} : turns'[u] = turns[u]
  BY <1>1, AfterAppendMoves DEF IInv, AppendPcs
<1>3. /\ expires' = expires \cup {d \in {c} : cache[d] # <<>>}
      /\ UNCHANGED <<convs, sequence, messages, cache, deletion, hist>>
  BY DEF Expire
<1> HIDE DEF c
<1>4. StoresShaped' /\ OrphansOnlyFromOverlap'
  BY <1>3 DEF IInv, StoresShaped, OrphansOnlyFromOverlap
<1>5. KeysExpire'
  BY <1>2, <1>3 DEF IInv, KeysExpire, c
<1>6. ASSUME NEW d \in Convs \ hist'.cut
      PROVE  Len(cache'[d]) <= Limit + Cardinality(Trimming(d)')
  <2>1. Trimming(d)' = Trimming(d) \/ Trimming(d) \subseteq Trimming(d)'
    BY <1>1, <1>2 DEF Trimming, At
  <2>2. PICK trimming : trimming = Trimming(d)'
    OBVIOUS
  <2>3. trimming \in SUBSET Turns /\ Trimming(d) \subseteq trimming
    BY <2>1, <2>2 DEF Trimming
  <2>4. IsFiniteSet(trimming)
    BY <2>3, FS_Subset DEF ConversationAssumption
  <2>5. /\ d \in Convs /\ Len(cache[d]) <= Limit + Cardinality(Trimming(d))
        /\ Len(cache'[d]) <= Len(cache[d])
    BY <1>3 DEF IInv, ListsAreTrimmed, StoresShaped
  <2>6. Len(cache'[d]) <= Limit + Cardinality(trimming)
    BY <1>4, <2>3, <2>4, <2>5, StaysTrimmed DEF IInv
  <2> QED
    BY <2>2, <2>6
<1>7. ListsAreTrimmed'
  BY <1>6 DEF ListsAreTrimmed
<1> QED
  BY <1>2, <1>4, <1>5, <1>7 DEF IInv

(* A command that fails, and the rest of its append, are noted.             *)
LEMMA AppendFailsKeeps ==
  ASSUME ConversationAssumption, IInv, NEW t \in Turns, AppendFails(t) PROVE IInv'
<1> DEFINE c == turns[t].conv
<1>1. turns[t].pc \in AppendPcs /\ AfterAppend(t)
  BY DEF AppendFails
<1>2. TurnsShaped' /\ \A u \in Turns \ {t} : turns'[u] = turns[u]
  BY <1>1, AfterAppendMoves DEF IInv
<1>3. c \in Convs
  BY <1>1 DEF IInv, TurnsShaped, TurnShape, Working, AppendPcs, TurnPcs
<1>4. /\ (turns[t].pc = "rpush" /\ Push(c, Message(t))) \/ cache' = cache
      /\ hist' = [hist EXCEPT !.gaps = IF At(t, "rpush") THEN @ \cup {c} ELSE @,
                              !.cut = @ \cup {c}, !.orphans = Orphaned(c)]
      /\ UNCHANGED <<convs, sequence, messages, expires, deletion>>
  BY DEF AppendFails, At
<1>5. turns[t].pc = "rpush" => Message(t) \in Ids
  BY MessageIsId DEF IInv, HasMessage
<1>6. Orphaned(c) \in SUBSET Convs /\ hist.orphans \subseteq Orphaned(c)
  BY <1>3 DEF Orphaned, IInv, StoresShaped, HistRecords
<1> HIDE DEF c
<1>7. hist' \in HistRecords /\ hist'.orphans = Orphaned(c) /\ hist'.cut = hist.cut \cup {c}
  BY <1>3, <1>4, <1>6 DEF IInv, StoresShaped, HistRecords
<1>8. /\ StoresShaped' /\ OrphansOnlyFromOverlap'
      /\ \A d \in Convs \ {c} : cache'[d] = cache[d]
  <2>1. CASE turns[t].pc = "rpush" /\ Push(c, Message(t))
    BY <1>3, <1>4, <1>5, <1>7, <2>1, PushKeeps DEF IInv
  <2>2. CASE cache' = cache
    <3>1. StoresShaped'
      BY <1>4, <1>7, <2>2 DEF IInv, StoresShaped
    <3>2. OrphansOnlyFromOverlap'
      BY <1>4, <1>6, <1>7, <2>2 DEF IInv, OrphansOnlyFromOverlap
    <3> QED
      BY <2>2, <3>1, <3>2
  <2> QED
    BY <1>4, <2>1, <2>2
<1>9. KeysExpire'
  BY <1>2, <1>4, <1>7, <1>8 DEF IInv, KeysExpire, c
<1>10. ASSUME NEW d \in Convs \ hist'.cut
       PROVE  Len(cache'[d]) <= Limit + Cardinality(Trimming(d)')
  <2>1. d # c /\ d \in Convs \ hist.cut
    BY <1>7
  <2>2. PICK trimming : trimming = Trimming(d)'
    OBVIOUS
  <2>3. trimming \in SUBSET Turns /\ Trimming(d) \subseteq trimming
    BY <1>2, <2>1, <2>2 DEF Trimming, At, c
  <2>4. IsFiniteSet(trimming)
    BY <2>3, FS_Subset DEF ConversationAssumption
  <2>5. Len(cache[d]) <= Limit + Cardinality(Trimming(d)) /\ Len(cache'[d]) <= Len(cache[d])
    BY <1>8, <2>1 DEF IInv, ListsAreTrimmed, StoresShaped
  <2>6. Len(cache'[d]) <= Limit + Cardinality(trimming)
    BY <1>8, <2>1, <2>3, <2>4, <2>5, StaysTrimmed DEF IInv
  <2> QED
    BY <2>2, <2>6
<1>11. ListsAreTrimmed'
  BY <1>10 DEF ListsAreTrimmed
<1> QED
  BY <1>2, <1>8, <1>9, <1>11 DEF IInv

-----------------------------------------------------------------------------
(* Deletions and expiry                                                     *)

LEMMA TurnsStay == ASSUME TurnsShaped, UNCHANGED turns PROVE TurnsShaped'
BY DEF TurnsShaped, TurnShape

LEMMA ListsStay ==
  ASSUME UNCHANGED <<turns, cache, expires>>, hist.cut \subseteq hist'.cut PROVE Quiet
BY DEF Quiet

LEMMA BeginDeletionKeeps == ASSUME IInv, NEW c \in Convs, BeginDeletion(c) PROVE Kept
<1>1. /\ deletion.pc = "idle" /\ deletion' = [pc |-> "found", conv |-> c]
      /\ UNCHANGED <<convs, sequence, messages, cache, expires, turns, hist>>
  BY DEF BeginDeletion, Deletes
<1>2. StoresShaped'
  BY <1>1 DEF IInv, StoresShaped, Deletions
<1>3. OrphansOnlyFromOverlap'
  BY <1>1 DEF IInv, OrphansOnlyFromOverlap
<1>4. TurnsShaped' /\ Quiet
  BY <1>1, TurnsStay, ListsStay DEF IInv
<1> QED
  BY <1>2, <1>3, <1>4 DEF Kept

(* From here the deletion owes the conversation its list.                   *)
LEMMA DeleteRowsKeeps == ASSUME IInv, DeleteRows PROVE Kept
<1> DEFINE c == deletion.conv
<1>1. /\ deletion.pc = "found" /\ deletion' = [pc |-> "uncache", conv |-> c]
      /\ convs' = [convs EXCEPT ![c] = "deleted"]
      /\ UNCHANGED <<sequence, cache, expires, turns, hist>>
  BY DEF DeleteRows, Deletes
<1>2. c \in Convs
  BY <1>1 DEF IInv, StoresShaped
<1> HIDE DEF c
<1>3. StoresShaped'
  BY <1>1, <1>2 DEF IInv, StoresShaped, Deletions, ConvStates
<1>4. OrphansOnlyFromOverlap'
  BY <1>1, <1>2 DEF IInv, StoresShaped, OrphansOnlyFromOverlap
<1>5. TurnsShaped' /\ Quiet
  BY <1>1, TurnsStay, ListsStay DEF IInv
<1> QED
  BY <1>3, <1>4, <1>5 DEF Kept

LEMMA DeletionEndsKeeps == ASSUME IInv, DeletionEnds PROVE Kept
<1> DEFINE c == deletion.conv
<1>1. /\ deletion.pc # "idle" /\ deletion' = [pc |-> "idle", conv |-> None]
      /\ hist' = [hist EXCEPT !.orphans = IF Uncached THEN @ \cup {c} ELSE @]
      /\ UNCHANGED <<convs, sequence, messages, cache, expires, turns>>
  BY DEF DeletionEnds, Deletes
<1>2. c \in Convs
  BY <1>1 DEF IInv, StoresShaped
<1>3. /\ hist' \in HistRecords /\ hist'.cut = hist.cut /\ hist.orphans \subseteq hist'.orphans
      /\ deletion.pc = "uncache" => c \in hist'.orphans
  BY <1>1, <1>2 DEF IInv, StoresShaped, HistRecords, Uncached
<1>4. StoresShaped'
  BY <1>1, <1>3 DEF IInv, StoresShaped, Deletions
<1>5. OrphansOnlyFromOverlap'
  BY <1>1, <1>3 DEF IInv, OrphansOnlyFromOverlap
<1>6. TurnsShaped' /\ Quiet
  BY <1>1, <1>3, TurnsStay, ListsStay DEF IInv
<1> QED
  BY <1>4, <1>5, <1>6 DEF Kept

(* A list that is gone is short, needs no time to live and orphans nothing. *)
LEMMA DropKeeps ==
  ASSUME ConversationAssumption, IInv, NEW c \in Convs, Drop(c),
         UNCHANGED <<convs, sequence, turns>>, hist' \in HistRecords,
         hist'.cut = hist.cut, hist'.orphans = hist.orphans,
         deletion' = deletion \/ (deletion.conv = c /\ deletion' = [pc |-> "idle", conv |-> None])
  PROVE  IInv'
<1>1. /\ cache' \in [Convs -> Seq(Ids)] /\ cache'[c] = <<>>
      /\ \A d \in Convs \ {c} : cache'[d] = cache[d]
      /\ expires' = expires \ {c}
  <2>1. cache' = [cache EXCEPT ![c] = <<>>] /\ expires' = expires \ {c}
    BY DEF Drop
  <2>2. <<>> \in Seq(Ids)
    OBVIOUS
  <2> QED
    BY <2>1, <2>2 DEF IInv, StoresShaped
<1>2. StoresShaped'
  BY <1>1 DEF IInv, StoresShaped, Deletions
<1>3. TurnsShaped'
  BY TurnsStay DEF IInv
<1>4. KeysExpire'
  BY <1>1 DEF IInv, KeysExpire
<1>5. OrphansOnlyFromOverlap'
  BY <1>1 DEF IInv, OrphansOnlyFromOverlap
<1>6. ASSUME NEW d \in Convs \ hist'.cut
      PROVE  Len(cache'[d]) <= Limit + Cardinality(Trimming(d)')
  <2>1. Trimming(d)' = Trimming(d)
    BY DEF Trimming, At
  <2>2. d \in Convs /\ Len(cache[d]) <= Limit + Cardinality(Trimming(d))
    BY DEF IInv, ListsAreTrimmed
  <2>3. Cardinality(Trimming(d)) \in Nat /\ Limit \in Nat
    BY TrimmingIsFinite DEF ConversationAssumption
  <2>4. CASE d = c
    <3>1. Len(cache'[d]) = 0
      BY <1>1, <2>4
    <3> QED
      BY <2>1, <2>3, <3>1
  <2>5. CASE d # c
    BY <1>1, <2>1, <2>2, <2>5
  <2> QED
    BY <2>4, <2>5
<1>7. ListsAreTrimmed'
  BY <1>6 DEF ListsAreTrimmed
<1> QED
  BY <1>2, <1>3, <1>4, <1>5, <1>7 DEF IInv

LEMMA DeleteListKeeps == ASSUME ConversationAssumption, IInv, DeleteList PROVE IInv'
<1>1. deletion.conv \in Convs
  BY DEF DeleteList, Uncached, IInv, StoresShaped
<1>2. hist' \in HistRecords /\ hist' = hist
  BY DEF DeleteList, IInv, StoresShaped
<1> QED
  BY <1>1, <1>2, DropKeeps DEF DeleteList, Deletes

LEMMA KeyExpiresKeeps ==
  ASSUME ConversationAssumption, IInv, NEW c \in Convs, KeyExpires(c) PROVE IInv'
<1>1. hist' \in HistRecords /\ hist'.cut = hist.cut /\ hist'.orphans = hist.orphans
  BY DEF KeyExpires, IInv, StoresShaped, HistRecords
<1> QED
  BY <1>1, DropKeeps DEF KeyExpires

-----------------------------------------------------------------------------

LEMMA Initially == ASSUME ConversationAssumption, Init PROVE IInv
<1>1. TurnsShaped
  <2>1. \A t \in Turns : turns[t] = IdleTurn
    BY DEF Init
  <2>2. turns = [t \in Turns |-> turns[t]]
    BY DEF Init
  <2> QED
    BY <2>1, <2>2, IdleShape DEF TurnsShaped
<1>2. StoresShaped
  <2>1. <<>> \in Seq(Ids)
    OBVIOUS
  <2> QED
    BY <2>1 DEF Init, StoresShaped, ConvStates, HistRecords, Deletions, ConversationAssumption
<1>3. KeysExpire /\ OrphansOnlyFromOverlap
  BY DEF Init, KeysExpire, OrphansOnlyFromOverlap
<1>4. ASSUME NEW c \in Convs PROVE Len(cache[c]) <= Limit + Cardinality(Trimming(c))
  <2>1. Len(cache[c]) = 0
    BY DEF Init
  <2> QED
    BY <2>1, TrimmingIsFinite DEF ConversationAssumption
<1> QED
  BY <1>1, <1>2, <1>3, <1>4 DEF IInv, ListsAreTrimmed

LEMMA NextKeeps == ASSUME ConversationAssumption, IInv, [Next]_vars PROVE IInv'
<1>1. ASSUME Kept PROVE IInv'
  BY <1>1, QuietKeeps DEF Kept, IInv
<1>2. CASE UNCHANGED vars
  <2>1. TurnsShaped' /\ Quiet
    BY <1>2, TurnsStay, ListsStay DEF IInv, vars
  <2>2. StoresShaped' /\ OrphansOnlyFromOverlap'
    BY <1>2 DEF IInv, vars, StoresShaped, OrphansOnlyFromOverlap
  <2> QED
    BY <1>1, <2>1, <2>2 DEF Kept
<1>3. ASSUME NEW t \in Turns, Turn(t) PROVE IInv'
  <2>1. CASE \E c \in Convs : Begin(t, c)
    BY <1>1, <2>1, BeginKeeps
  <2>2. CASE AddMessage(t)
    BY <1>1, <2>2, InsertKeeps, StatementKeeps, RpushKeeps, LtrimKeeps, ExpireKeeps, AppendFailsKeeps
       DEF AddMessage
  <2>3. CASE Get(t) \/ Lrange(t) \/ LrangeFails(t) \/ Select(t) \/ Remember(t) \/ TurnEnds(t)
    BY <1>1, <2>3, StatementKeeps, ReadKeeps, RememberKeeps, TurnEndsKeeps
  <2> QED
    BY <1>3, <2>1, <2>2, <2>3 DEF Turn
<1>4. ASSUME NEW c \in Convs, BeginDeletion(c) \/ KeyExpires(c) PROVE IInv'
  BY <1>1, <1>4, BeginDeletionKeeps, KeyExpiresKeeps
<1>5. CASE DeleteRows \/ DeleteList \/ DeletionEnds
  BY <1>1, <1>5, DeleteRowsKeeps, DeleteListKeeps, DeletionEndsKeeps
<1> QED
  BY <1>2, <1>3, <1>4, <1>5 DEF Next

LEMMA Inductive == Spec => []IInv
<1>1. Init => IInv
  BY Initially, ConversationAssumption
<1>2. IInv /\ [Next]_vars => IInv'
  BY NextKeeps, ConversationAssumption
<1> QED
  BY <1>1, <1>2, PTL DEF Spec

(* A list of recent messages that does not expire is being appended to, or  *)
(* one of its appends was cut off.                                          *)
THEOREM ListsExpire == Spec => []KeysExpire
<1>1. IInv => KeysExpire
  BY DEF IInv
<1> QED
  BY <1>1, Inductive, PTL

(* A deleted conversation leaves a list only while, or because, something   *)
(* overlapped with its deletion.                                            *)
THEOREM OrphansHaveCause == Spec => []OrphansOnlyFromOverlap
<1>1. IInv => OrphansOnlyFromOverlap
  BY DEF IInv
<1> QED
  BY <1>1, Inductive, PTL

(* However many turns append at once, a list is too long only by the        *)
(* messages that are about to be trimmed.                                   *)
THEOREM ListsStayShort == Spec => []ListsAreTrimmed
<1>1. IInv => ListsAreTrimmed
  BY DEF IInv
<1> QED
  BY <1>1, Inductive, PTL

-----------------------------------------------------------------------------
(* The rows of a conversation in order: the place of a key is the number of *)
(* keys up to it.                                                           *)

Place(S, x) == Cardinality({y \in S : y <= x})

LEMMA PlacesAreOrdered ==
  ASSUME NEW S \in SUBSET Nat, IsFiniteSet(S), NEW x \in S, NEW z \in S
  PROVE  /\ Place(S, x) \in 1..Cardinality(S)
         /\ x < z => Place(S, x) < Place(S, z)
<1> DEFINE Upto(a) == {y \in S : y <= a}
<1>1. /\ Upto(x) \in SUBSET S /\ Upto(z) \in SUBSET S /\ x \in Upto(x)
      /\ x < z => Upto(x) \in SUBSET Upto(z) /\ z \in Upto(z) \ Upto(x)
  <2>1. x \in Nat /\ z \in Nat /\ x <= x /\ z <= z
    OBVIOUS
  <2>2. Upto(x) \in SUBSET S /\ Upto(z) \in SUBSET S /\ x \in Upto(x) /\ z \in Upto(z)
    BY <2>1
  <2>3. ASSUME x < z PROVE Upto(x) \in SUBSET Upto(z) /\ z \notin Upto(x)
    <3>1. ~(z <= x)
      BY <2>1, <2>3
    <3>2. \A y \in S : y <= x => y <= z
      BY <2>1, <2>3
    <3> QED
      BY <3>1, <3>2
  <2> QED
    BY <2>2, <2>3
<1>2. Place(S, x) = Cardinality(Upto(x)) /\ Place(S, z) = Cardinality(Upto(z))
  BY DEF Place
<1> HIDE DEF Upto
<1>3. /\ IsFiniteSet(Upto(x)) /\ Cardinality(Upto(x)) <= Cardinality(S)
      /\ IsFiniteSet(Upto(z))
  BY <1>1, FS_Subset
<1>4. /\ Cardinality(Upto(x)) \in Nat /\ Cardinality(Upto(z)) \in Nat
      /\ Cardinality(S) \in Nat
  BY <1>3, FS_CardinalityType
<1>5. Cardinality(Upto(x)) # 0
  BY <1>1, <1>3, FS_EmptySet
<1>6. ASSUME x < z PROVE Cardinality(Upto(x)) < Cardinality(Upto(z))
  <2>1. Cardinality(Upto(x)) <= Cardinality(Upto(z))
    BY <1>1, <1>3, <1>6, FS_Subset
  <2>2. Cardinality(Upto(x)) # Cardinality(Upto(z))
    BY <1>1, <1>3, <1>6, FS_Subset
  <2> QED
    BY <1>4, <2>1, <2>2
<1> QED
  BY <1>2, <1>3, <1>4, <1>5, <1>6

LEMMA PlaceIsTaken ==
  ASSUME NEW S \in SUBSET Nat, IsFiniteSet(S), NEW i \in 1..Cardinality(S)
  PROVE  \E x \in S : Place(S, x) = i
<1> DEFINE f == [x \in S |-> Place(S, x)]
<1>1. f \in [S -> 1..Cardinality(S)]
  BY PlacesAreOrdered
<1>2. ASSUME NEW x \in S, NEW z \in S, f[x] = f[z] PROVE x = z
  <2>1. Place(S, x) = Place(S, z) /\ Place(S, x) \in Nat
    BY <1>2, PlacesAreOrdered
  <2>2. x < z => Place(S, x) < Place(S, z)
    BY PlacesAreOrdered
  <2>3. z < x => Place(S, z) < Place(S, x)
    BY PlacesAreOrdered
  <2>4. ~(x < z) /\ ~(z < x)
    BY <2>1, <2>2, <2>3
  <2> QED
    BY <2>4
<1>3. \A x \in S : f[x] = Place(S, x)
  OBVIOUS
<1> HIDE DEF f
<1>4. f \in Injection(S, 1..Cardinality(S))
  BY <1>1, <1>2 DEF Injection, IsInjective
<1>5. /\ IsFiniteSet(1..Cardinality(S)) /\ Cardinality(1..Cardinality(S)) = Cardinality(S)
      /\ Cardinality(S) \in Nat
  BY FS_CardinalityType, FS_Interval
<1>6. f \in Surjection(S, 1..Cardinality(S))
  BY <1>4, <1>5, FS_Injection
<1> QED
  BY <1>3, <1>6 DEF Surjection

LEMMA AscendingIsSorted ==
  ASSUME NEW S \in SUBSET Nat, IsFiniteSet(S)
  PROVE  /\ Ascending(S) \in Seq(S) /\ Len(Ascending(S)) = Cardinality(S)
         /\ \A i \in 1..Cardinality(S) : Ascending(S)[i] \in S /\ Place(S, Ascending(S)[i]) = i
         /\ \A x \in S : Place(S, x) \in 1..Cardinality(S) /\ Ascending(S)[Place(S, x)] = x
         /\ \A i, j \in 1..Cardinality(S) : i < j => Ascending(S)[i] < Ascending(S)[j]
<1> DEFINE n == Cardinality(S)
           A == [i \in 1..n |-> CHOOSE x \in S : Place(S, x) = i]
<1>1. n \in Nat
  BY FS_CardinalityType
<1>2. Ascending(S) = A
  BY DEF Ascending, Place
<1>3. ASSUME NEW i \in 1..n PROVE A[i] \in S /\ Place(S, A[i]) = i
  <2>1. \E x \in S : Place(S, x) = i
    BY PlaceIsTaken
  <2> QED
    BY <2>1
<1>4. DOMAIN A = 1..n
  OBVIOUS
<1>5. A = [i \in 1..n |-> A[i]]
  OBVIOUS
<1> HIDE DEF A
<1>6. A \in Seq(S) /\ Len(A) = n
  <2>1. A \in [1..n -> S]
    BY <1>3, <1>5
  <2>2. A \in Seq(S)
    BY <1>1, <2>1
  <2> QED
    BY <1>1, <1>4, <2>2
<1>7. ASSUME NEW x \in S, NEW z \in S, Place(S, x) = Place(S, z) PROVE x = z
  <2>1. Place(S, x) \in Nat
    BY PlacesAreOrdered
  <2>2. x < z => Place(S, x) < Place(S, z)
    BY PlacesAreOrdered
  <2>3. z < x => Place(S, z) < Place(S, x)
    BY PlacesAreOrdered
  <2>4. ~(x < z) /\ ~(z < x)
    BY <1>7, <2>1, <2>2, <2>3
  <2> QED
    BY <2>4
<1>8. \A x \in S : Place(S, x) \in 1..n /\ A[Place(S, x)] = x
  BY <1>3, <1>7, PlacesAreOrdered
<1>9. ASSUME NEW i \in 1..n, NEW j \in 1..n, i < j PROVE A[i] < A[j]
  <2>1. A[i] \in S /\ A[j] \in S /\ Place(S, A[i]) < Place(S, A[j])
    BY <1>1, <1>3, <1>9
  <2>2. /\ A[i] \in Nat /\ A[j] \in Nat /\ Place(S, A[i]) \in Nat /\ Place(S, A[j]) \in Nat
    <3>1. i \in Nat /\ j \in Nat
      BY <1>1
    <3> QED
      BY <1>3, <3>1
  <2>4. A[j] < A[i] => Place(S, A[j]) < Place(S, A[i])
    BY <2>1, PlacesAreOrdered
  <2>3. ~(A[j] < A[i]) /\ A[i] # A[j]
    BY <2>1, <2>2, <2>4
  <2> QED
    BY <2>2, <2>3
<1> QED
  BY <1>2, <1>3, <1>6, <1>8, <1>9

(* A key above all others comes last.                                       *)
LEMMA AscendingGrows ==
  ASSUME NEW S \in SUBSET Nat, IsFiniteSet(S), NEW m \in Nat, \A x \in S : x < m
  PROVE  Ascending(S \cup {m}) = Append(Ascending(S), m)
<1> DEFINE T == S \cup {m}
<1>1. m \notin S /\ T \in SUBSET Nat
  OBVIOUS
<1>2. IsFiniteSet(T) /\ Cardinality(T) = Cardinality(S) + 1 /\ Cardinality(S) \in Nat
  BY <1>1, FS_AddElement, FS_CardinalityType
<1>3. \A x \in S : Place(T, x) = Place(S, x)
  <2> SUFFICES ASSUME NEW x \in S PROVE {y \in T : y <= x} = {y \in S : y <= x}
    BY DEF Place
  <2>1. x \in Nat /\ x < m /\ ~(m <= x)
    OBVIOUS
  <2> QED
    BY <2>1
<1>4. Place(T, m) = Cardinality(T)
  <2>1. \A y \in T : y <= m
    OBVIOUS
  <2>2. {y \in T : y <= m} = T
    BY <2>1
  <2> QED
    BY <2>2 DEF Place
<1>5. PICK n \in Nat : n = Cardinality(S)
  BY <1>2
<1>6. m \in T /\ S \subseteq T /\ \A x \in T : x \in S \/ x = m
  OBVIOUS
<1> HIDE DEF T
<1>7. PICK A : A = Ascending(S)
  OBVIOUS
<1>8. PICK B : B = Ascending(T)
  OBVIOUS
<1>9. /\ A \in Seq(S) /\ Len(A) = n
      /\ \A i \in 1..n : A[i] \in S /\ Place(S, A[i]) = i
  BY <1>5, <1>7, AscendingIsSorted
<1>10. /\ B \in Seq(T) /\ Len(B) = n + 1
       /\ \A x \in T : B[Place(T, x)] = x
  BY <1>1, <1>2, <1>5, <1>8, AscendingIsSorted
<1>11. A \in Seq(T)
  BY <1>6, <1>9, SeqMonotonic
<1>12. /\ Append(A, m) \in Seq(T) /\ Len(Append(A, m)) = n + 1
       /\ \A i \in 1..n : Append(A, m)[i] = A[i]
       /\ Append(A, m)[n + 1] = m
  BY <1>6, <1>9, <1>11
<1>13. ASSUME NEW i \in 1..(n + 1) PROVE B[i] = Append(A, m)[i]
  <2>1. CASE i \in 1..n
    <3>1. A[i] \in S /\ Place(T, A[i]) = i
      BY <1>3, <1>9, <2>1
    <3> QED
      BY <1>6, <1>10, <1>12, <2>1, <3>1
  <2>2. CASE i = n + 1
    BY <1>2, <1>4, <1>5, <1>6, <1>10, <1>12, <2>2
  <2>3. i \in 1..n \/ i = n + 1
    OBVIOUS
  <2> QED
    BY <2>1, <2>2, <2>3
<1>14. B = Append(A, m)
  BY <1>10, <1>12, <1>13, SeqEqual
<1> QED
  BY <1>7, <1>8, <1>14 DEF T

-----------------------------------------------------------------------------
(* The newest of a list, element by element                                 *)

KeptOf(s) == IF Len(s) > Limit THEN Limit ELSE Len(s)

LEMMA NewestElements ==
  ASSUME ConversationAssumption, NEW s \in Seq(Ids)
  PROVE  /\ Newest(s) \in Seq(Ids) /\ Len(Newest(s)) = KeptOf(s)
         /\ \A i \in 1..KeptOf(s) : Newest(s)[i] = s[Len(s) - KeptOf(s) + i]
<1>1. Len(s) \in Nat /\ Limit \in Nat \ {0}
  BY DEF ConversationAssumption
<1> DEFINE m == IF Len(s) > Limit THEN Len(s) - Limit + 1 ELSE 1
<1>2. m \in Int /\ Len(s) \in Int /\ m = Len(s) - KeptOf(s) + 1 /\ m >= 1
  BY <1>1 DEF KeptOf
<1>3. Newest(s) = SubSeq(s, m, Len(s))
  BY DEF Newest
<1> HIDE DEF m
<1>4. \A i \in m..Len(s) : s[i] \in Ids
  BY <1>1, <1>2, ElementOfSeq
<1>5. /\ Newest(s) \in Seq(Ids)
      /\ Len(Newest(s)) = IF m <= Len(s) THEN Len(s) - m + 1 ELSE 0
      /\ \A i \in 1..(Len(s) - m + 1) : Newest(s)[i] = s[m + i - 1]
  BY <1>2, <1>3, <1>4, SubSeqProperties
<1>6. KeptOf(s) \in Nat /\ KeptOf(s) <= Len(s)
  BY <1>1 DEF KeptOf
<1>7. Len(s) - m + 1 = KeptOf(s)
  BY <1>1, <1>2, <1>6
<1>8. ASSUME NEW i \in 1..KeptOf(s) PROVE Newest(s)[i] = s[Len(s) - KeptOf(s) + i]
  <2>1. m + i - 1 = Len(s) - KeptOf(s) + i
    BY <1>1, <1>2, <1>6
  <2>2. Newest(s)[i] = s[m + i - 1]
    BY <1>5, <1>7
  <2> QED
    BY <2>1, <2>2
<1>9. Len(Newest(s)) = KeptOf(s)
  BY <1>1, <1>2, <1>5, <1>6, <1>7
<1> QED
  BY <1>5, <1>8, <1>9

LEMMA NewestIsNewest ==
  ASSUME ConversationAssumption, NEW s \in Seq(Ids) PROVE Newest(Newest(s)) = Newest(s)
<1>1. PICK l : l = Newest(s)
  OBVIOUS
<1>2. l \in Seq(Ids) /\ Len(l) = KeptOf(s) /\ Limit \in Nat /\ Len(s) \in Nat
  BY <1>1, NewestElements DEF ConversationAssumption
<1>3. KeptOf(l) = Len(l) /\ Len(l) \in Nat
  BY <1>2 DEF KeptOf
<1>4. /\ Newest(l) \in Seq(Ids) /\ Len(Newest(l)) = Len(l)
      /\ \A i \in 1..Len(l) : Newest(l)[i] = l[Len(l) - Len(l) + i]
  BY <1>2, <1>3, NewestElements
<1>5. Newest(l) = l
  BY <1>2, <1>3, <1>4, SeqEqual
<1> QED
  BY <1>1, <1>5

LEMMA NewestAfterAppend ==
  ASSUME ConversationAssumption, NEW s \in Seq(Ids), NEW l \in Seq(Ids), NEW m \in Ids,
         Newest(s) = Newest(l)
  PROVE  Newest(Append(s, m)) = Newest(Append(l, m))
<1> DEFINE N(q) == Newest(Append(q, m))
<1>1. ASSUME NEW q \in Seq(Ids)
      PROVE  /\ N(q) \in Seq(Ids) /\ Len(N(q)) = IF Len(q) >= Limit THEN Limit ELSE Len(q) + 1
             /\ \A i \in 1..Len(N(q)) :
                  N(q)[i] = IF i = Len(N(q)) THEN m
                            ELSE Newest(q)[KeptOf(q) - Len(N(q)) + 1 + i]
             /\ KeptOf(q) = Len(Newest(q)) /\ Len(q) \in Nat
             /\ KeptOf(q) = IF Len(q) >= Limit THEN Limit ELSE Len(q)
  <2>1. PICK a : a = Append(q, m)
    OBVIOUS
  <2>2. /\ a \in Seq(Ids) /\ Len(a) = Len(q) + 1 /\ a[Len(q) + 1] = m
        /\ \A i \in 1..Len(q) : a[i] = q[i]
    BY <2>1
  <2>3. Len(q) \in Nat /\ Limit \in Nat \ {0}
    BY DEF ConversationAssumption
  <2>4. /\ Newest(a) \in Seq(Ids) /\ Len(Newest(a)) = KeptOf(a)
        /\ \A i \in 1..KeptOf(a) : Newest(a)[i] = a[Len(a) - KeptOf(a) + i]
    BY <2>2, NewestElements
  <2>5. /\ Len(Newest(q)) = KeptOf(q)
        /\ \A i \in 1..KeptOf(q) : Newest(q)[i] = q[Len(q) - KeptOf(q) + i]
    BY NewestElements
  <2>6. KeptOf(a) = IF Len(q) >= Limit THEN Limit ELSE Len(q) + 1
    BY <2>2, <2>3 DEF KeptOf
  <2>7. ASSUME NEW i \in 1..KeptOf(a)
        PROVE  Newest(a)[i] = IF i = KeptOf(a) THEN m ELSE Newest(q)[KeptOf(q) - KeptOf(a) + 1 + i]
    <3>1. PICK k \in Nat : k = KeptOf(a)
      BY <2>3, <2>6
    <3>2. PICK j \in Nat : j = KeptOf(q)
      BY <2>3 DEF KeptOf
    <3>3. j = IF Len(q) > Limit THEN Limit ELSE Len(q)
      BY <3>2 DEF KeptOf
    <3>4. Newest(a)[i] = a[Len(q) + 1 - k + i]
      BY <2>2, <2>4, <3>1
    <3>5. CASE i = k
      BY <2>2, <2>3, <3>1, <3>4, <3>5
    <3>6. CASE i # k
      <4>1. i \in 1..(k - 1) /\ k = IF Len(q) >= Limit THEN Limit ELSE Len(q) + 1
        BY <2>6, <3>1, <3>6
      <4>2. (Len(q) + 1 - k + i) \in 1..Len(q)
        BY <2>3, <4>1
      <4>3. (j - k + 1 + i) \in 1..j /\ Len(q) - j + (j - k + 1 + i) = Len(q) + 1 - k + i
        <5>1. j \in Int /\ k \in Int /\ i \in Int /\ Len(q) \in Int
          BY <2>3
        <5>2. j - k + 1 = IF Len(q) >= Limit THEN 1 ELSE 0
          <6>1. CASE Len(q) >= Limit
            BY <2>3, <3>3, <4>1, <6>1
          <6>2. CASE ~(Len(q) >= Limit)
            BY <2>3, <3>3, <4>1, <6>2
          <6> QED
            BY <6>1, <6>2
        <5>3. j = IF Len(q) >= Limit THEN k ELSE k - 1
          <6>1. CASE Len(q) >= Limit
            BY <2>3, <3>3, <4>1, <6>1
          <6>2. CASE ~(Len(q) >= Limit)
            BY <2>3, <3>3, <4>1, <6>2
          <6> QED
            BY <6>1, <6>2
        <5>4. (j - k + 1 + i) \in 1..j
          BY <4>1, <5>1, <5>2, <5>3
        <5> QED
          BY <5>1, <5>4
      <4>4. Newest(q)[j - k + 1 + i] = q[Len(q) - j + (j - k + 1 + i)]
        BY <2>5, <3>2, <4>3
      <4>5. a[Len(q) + 1 - k + i] = q[Len(q) + 1 - k + i]
        BY <2>2, <4>2
      <4> QED
        BY <3>1, <3>2, <3>4, <3>6, <4>3, <4>4, <4>5
    <3> QED
      BY <3>5, <3>6
  <2>8. KeptOf(q) = IF Len(q) >= Limit THEN Limit ELSE Len(q)
    BY <2>3 DEF KeptOf
  <2> QED
    BY <2>1, <2>3, <2>4, <2>5, <2>6, <2>7, <2>8
<1> HIDE DEF N
<1>2. Limit \in Nat \ {0}
  BY DEF ConversationAssumption
<1>3. KeptOf(s) = KeptOf(l)
  BY <1>1
<1>4. Len(N(s)) = Len(N(l))
  <2>1. Len(s) \in Nat /\ Len(l) \in Nat
    BY <1>1
  <2>2. Len(s) >= Limit <=> Len(l) >= Limit
    BY <1>2, <1>3, <2>1 DEF KeptOf
  <2>3. Len(s) < Limit => Len(s) = Len(l)
    BY <1>2, <1>3, <2>1 DEF KeptOf
  <2>4. Len(N(s)) = (IF Len(s) >= Limit THEN Limit ELSE Len(s) + 1)
        /\ Len(N(l)) = (IF Len(l) >= Limit THEN Limit ELSE Len(l) + 1)
    BY <1>1
  <2> QED
    BY <1>2, <2>1, <2>2, <2>3, <2>4
<1>5. N(s) \in Seq(Ids) /\ N(l) \in Seq(Ids)
  BY <1>1
<1>6. ASSUME NEW i \in 1..Len(N(s)) PROVE N(s)[i] = N(l)[i]
  <2>1. i \in 1..Len(N(l))
    BY <1>4
  <2>2. N(s)[i] = IF i = Len(N(s)) THEN m ELSE Newest(s)[KeptOf(s) - Len(N(s)) + 1 + i]
    BY <1>1
  <2>3. N(l)[i] = IF i = Len(N(l)) THEN m ELSE Newest(l)[KeptOf(l) - Len(N(l)) + 1 + i]
    BY <1>1, <2>1
  <2> QED
    BY <1>3, <1>4, <2>2, <2>3
<1>7. N(s) = N(l)
  BY <1>4, <1>5, <1>6, SeqEqual
<1> QED
  BY <1>7 DEF N

-----------------------------------------------------------------------------
(* What the contexts of turns rest on                                       *)

Committed == {"refresh", "rpush", "ltrim", "expire", "get", "lrange", "select"}
Listed    == {"ltrim", "expire", "get", "lrange"}
Reading   == {"get", "lrange", "select", "memory"}
Pending   == {"refresh", "rpush"}
Gone(c)   == convs[c] = "deleted"

(* A turn has inserted its question, its answer or both.                    *)
Inserted(pc, role) == (IF role = "user" THEN 0 ELSE 1) + (IF pc = "insert" THEN 0 ELSE 1)

TurnFits(r, n) ==
  /\ r.role \in {"user", "assistant"}
  /\ r.pc = "idle" => r.conv = None /\ r.own = <<>>
  /\ r.pc # "idle" => Len(r.own) = Inserted(r.pc, r.role)
  /\ r.pc \in Reading => r.role = "assistant"
  /\ \A i \in 1..Len(r.own) : r.own[i] <= n /\ r.own[i] <= Last(r.own)
  /\ r.recent \in Seq(Ids) /\ Len(r.recent) <= Limit
TurnsFit == \A t \in Turns : TurnFits(turns[t], sequence)

(* No message is of two turns.                                              *)
Apart(own, others) == ToSet(own) \cap ToSet(others) = {}
OwnsApart == \A t, u \in Turns : t # u => Apart(turns[t].own, turns[u].own)

AloneUnlessMixed ==
  \A t, u \in Turns : turns[t].conv \in Convs \ hist.mixed /\ turns[u].conv = turns[t].conv => t = u

UncachedIsGone == deletion.pc = "uncache" => Gone(deletion.conv)

RowsFit == \A c \in Convs : IdsOf(c) \subseteq 1..sequence

(* The message of a turn is stored, and the newest of its conversation.     *)
IsStored(t) ==
  turns[t].pc \in Committed /\ ~Gone(turns[t].conv) => Message(t) \in IdsOf(turns[t].conv)
IsNewest(t) ==
  turns[t].pc \in HasMessage /\ turns[t].conv \notin hist.mixed /\ ~Gone(turns[t].conv) =>
    \A i \in IdsOf(turns[t].conv) : i <= Message(t) /\ (turns[t].pc = "commit" => i # Message(t))
MessagesStored == \A t \in Turns : IsStored(t) /\ IsNewest(t)

(* The last message of a turn is in a list and no other of its messages     *)
(* after it; or the list is full of others.                                 *)
OwnListed(l, own) ==
  \/ \E i \in 1..Len(l) : l[i] = Last(own) /\ \A j \in (i + 1)..Len(l) : l[j] \notin ToSet(own)
  \/ Len(l) >= Limit /\ \A i \in 1..Len(l) : l[i] \notin ToSet(own)
IsListed(t) ==
  LET c == turns[t].conv IN
  turns[t].pc \in Listed /\ ~Gone(c) /\ c \notin hist.gaps => OwnListed(cache[c], turns[t].own)
AnswersListed == \A t \in Turns : IsListed(t)

Recalls(recent, own) ==
  \/ Last(own) \in ToSet(recent)
  \/ Len(recent) = Limit /\ ToSet(recent) \cap ToSet(own) = {}
IsRecalled(t) ==
  turns[t].pc = "memory" /\ ~Gone(turns[t].conv) /\ turns[t].conv \notin hist.gaps =>
    Recalls(turns[t].recent, turns[t].own)
AnswersRecalled == \A t \in Turns : IsRecalled(t)

(* The newest of a list are the newest rows, but for one that is committed  *)
(* and not yet appended.                                                    *)
Holds(l, S) == Newest(l) = Newest(Ascending(S))
ListComplete(c) ==
  /\ (\A t \in Turns : turns[t].conv = c => turns[t].pc \notin Pending) => Holds(cache[c], IdsOf(c))
  /\ \A t \in Turns : turns[t].conv = c /\ turns[t].pc \in Pending =>
       Holds(cache[c], IdsOf(c) \ {Message(t)})
ListsComplete == \A c \in Convs \ (hist.gaps \cup hist.mixed) : ~Gone(c) => ListComplete(c)

ContextInv ==
  /\ TurnsFit /\ OwnsApart /\ AloneUnlessMixed /\ UncachedIsGone /\ RowsFit
  /\ MessagesStored /\ AnswersListed /\ AnswersRecalled /\ ListsComplete

-----------------------------------------------------------------------------
(* Lists and the messages of a turn                                         *)

LEMMA InSet ==
  ASSUME NEW own \in Seq(Ids)
  PROVE  /\ \A x : x \in ToSet(own) <=> \E i \in 1..Len(own) : own[i] = x
         /\ own # <<>> => Last(own) \in ToSet(own) /\ Last(own) \in Ids /\ Last(own) = own[Len(own)]
         /\ \A m \in Ids : Append(own, m) \in Seq(Ids) /\ ToSet(Append(own, m)) = ToSet(own) \cup {m}
                           /\ Last(Append(own, m)) = m /\ Len(Append(own, m)) = Len(own) + 1
                           /\ Append(own, m) # <<>>
<1>1. DOMAIN own = 1..Len(own) /\ Len(own) \in Nat
  OBVIOUS
<1>2. \A x : x \in ToSet(own) <=> \E i \in 1..Len(own) : own[i] = x
  BY <1>1 DEF ToSet
<1>3. ASSUME own # <<>>
      PROVE  Last(own) \in ToSet(own) /\ Last(own) \in Ids /\ Last(own) = own[Len(own)]
  <2>1. Len(own) \in 1..Len(own)
    BY <1>3
  <2> QED
    BY <1>2, <2>1 DEF Last
<1>4. ASSUME NEW m \in Ids
      PROVE  Append(own, m) \in Seq(Ids) /\ ToSet(Append(own, m)) = ToSet(own) \cup {m}
             /\ Last(Append(own, m)) = m /\ Len(Append(own, m)) = Len(own) + 1
             /\ Append(own, m) # <<>>
  <2>1. PICK a : a = Append(own, m)
    OBVIOUS
  <2>2. /\ a \in Seq(Ids) /\ Len(a) = Len(own) + 1 /\ a[Len(own) + 1] = m
        /\ \A i \in 1..Len(own) : a[i] = own[i]
    BY <2>1
  <2>3. DOMAIN a = 1..(Len(own) + 1)
    BY <2>2
  <2>4. Last(a) = m /\ a # <<>>
    BY <1>1, <2>2 DEF Last
  <2>5. \A i \in 1..(Len(own) + 1) : i \in 1..Len(own) \/ i = Len(own) + 1
    BY <1>1
  <2>6. (Len(own) + 1) \in 1..(Len(own) + 1) /\ \A i \in 1..Len(own) : i \in 1..(Len(own) + 1)
    BY <1>1
  <2>7. ASSUME NEW x PROVE x \in ToSet(a) <=> x \in ToSet(own) \/ x = m
    <3>1. x \in ToSet(a) <=> \E i \in 1..(Len(own) + 1) : a[i] = x
      BY <2>3 DEF ToSet
    <3> QED
      BY <1>2, <2>2, <2>5, <2>6, <3>1
  <2>8. ToSet(a) = ToSet(own) \cup {m}
    BY <2>7
  <2> QED
    BY <2>1, <2>2, <2>4, <2>8
<1> QED
  BY <1>2, <1>3, <1>4

(* A message is appended: the turn's own, or one of another.                *)
LEMMA ListedAfterAppend ==
  ASSUME NEW l \in Seq(Ids), NEW own \in Seq(Ids), own # <<>>, NEW m \in Ids,
         m = Last(own) \/ (m \notin ToSet(own) /\ OwnListed(l, own))
  PROVE  OwnListed(Append(l, m), own)
<1>1. PICK a : a = Append(l, m)
  OBVIOUS
<1>2. PICK n \in Nat : n = Len(l)
  OBVIOUS
<1>3. a \in Seq(Ids) /\ Len(a) = n + 1 /\ a[n + 1] = m /\ \A i \in 1..n : a[i] = l[i]
  BY <1>1, <1>2
<1>4. CASE m = Last(own)
  <2>1. (n + 1) \in 1..Len(a) /\ \A j \in (n + 1 + 1)..Len(a) : FALSE
    BY <1>3
  <2> QED
    BY <1>1, <1>3, <1>4, <2>1 DEF OwnListed
<1>5. CASE m \notin ToSet(own) /\ OwnListed(l, own)
  <2>1. CASE \E i \in 1..n : l[i] = Last(own) /\ \A j \in (i + 1)..n : l[j] \notin ToSet(own)
    <3>1. PICK i \in 1..n : l[i] = Last(own) /\ \A j \in (i + 1)..n : l[j] \notin ToSet(own)
      BY <2>1
    <3>2. i \in 1..Len(a) /\ a[i] = Last(own)
      BY <1>3, <3>1
    <3>3. ASSUME NEW j \in (i + 1)..Len(a) PROVE a[j] \notin ToSet(own)
      <4>1. CASE j = n + 1
        BY <1>3, <1>5, <4>1
      <4>2. CASE j # n + 1
        <5>1. j \in (i + 1)..n /\ j \in 1..n
          BY <1>3, <4>2
        <5> QED
          BY <1>3, <3>1, <5>1
      <4> QED
        BY <4>1, <4>2
    <3> QED
      BY <1>1, <3>2, <3>3 DEF OwnListed
  <2>2. CASE n >= Limit /\ \A i \in 1..n : l[i] \notin ToSet(own)
    <3>1. ASSUME NEW i \in 1..Len(a) PROVE a[i] \notin ToSet(own)
      <4>1. i \in 1..n \/ i = n + 1
        BY <1>3
      <4> QED
        BY <1>3, <1>5, <2>2, <4>1
    <3>2. Len(a) >= Limit
      BY <1>3, <2>2, ConversationAssumption DEF ConversationAssumption
    <3> QED
      BY <1>1, <3>1, <3>2 DEF OwnListed
  <2> QED
    BY <1>2, <1>5, <2>1, <2>2 DEF OwnListed
<1> QED
  BY <1>4, <1>5

LEMMA ListedWhenTrimmed ==
  ASSUME NEW l \in Seq(Ids), NEW own \in Seq(Ids), own # <<>>, OwnListed(l, own)
  PROVE  OwnListed(Newest(l), own)
<1>1. PICK a : a = Newest(l)
  OBVIOUS
<1>2. PICK n \in Nat : n = Len(l)
  OBVIOUS
<1>3. PICK k \in Nat : k = KeptOf(l)
  BY ConversationAssumption DEF KeptOf, ConversationAssumption
<1>4. /\ a \in Seq(Ids) /\ Len(a) = k
      /\ \A i \in 1..k : a[i] = l[n - k + i]
  BY <1>1, <1>2, <1>3, NewestElements, ConversationAssumption
<1>5. k <= n /\ (n >= Limit => k = Limit) /\ (k < n => k = Limit) /\ Limit \in Nat
  BY <1>2, <1>3, ConversationAssumption DEF KeptOf, ConversationAssumption
<1>6. CASE \E i \in 1..n : l[i] = Last(own) /\ \A j \in (i + 1)..n : l[j] \notin ToSet(own)
  <2>1. PICK i \in 1..n : l[i] = Last(own) /\ \A j \in (i + 1)..n : l[j] \notin ToSet(own)
    BY <1>6
  <2>2. CASE i > n - k
    <3>1. PICK h \in 1..k : n - k + h = i
      <4>1. (i - (n - k)) \in 1..k /\ n - k + (i - (n - k)) = i
        BY <1>5, <2>2
      <4> QED
        BY <4>1
    <3>2. a[h] = Last(own)
      BY <1>4, <2>1, <3>1
    <3>3. ASSUME NEW j \in (h + 1)..k PROVE a[j] \notin ToSet(own)
      <4>1. (n - k + j) \in (i + 1)..n /\ j \in 1..k
        BY <1>5, <3>1
      <4> QED
        BY <1>4, <2>1, <4>1
    <3> QED
      BY <1>1, <1>4, <3>2, <3>3 DEF OwnListed
  <2>3. CASE ~(i > n - k)
    <3>1. k < n
      BY <1>5, <2>3
    <3>2. ASSUME NEW j \in 1..k PROVE a[j] \notin ToSet(own)
      <4>1. (n - k + j) \in (i + 1)..n
        BY <1>5, <2>3
      <4> QED
        BY <1>4, <2>1, <4>1
    <3> QED
      BY <1>1, <1>4, <1>5, <3>1, <3>2 DEF OwnListed
  <2> QED
    BY <2>2, <2>3
<1>7. CASE n >= Limit /\ \A i \in 1..n : l[i] \notin ToSet(own)
  <2>1. ASSUME NEW j \in 1..k PROVE a[j] \notin ToSet(own)
    <3>1. (n - k + j) \in 1..n
      BY <1>5
    <3> QED
      BY <1>4, <1>7, <3>1
  <2> QED
    BY <1>1, <1>4, <1>5, <1>7, <2>1 DEF OwnListed
<1> QED
  BY <1>2, <1>6, <1>7 DEF OwnListed

(* In the table the messages of a turn are in the order it inserted them.   *)
LEMMA ListedInTable ==
  ASSUME NEW S \in SUBSET Ids, NEW own \in Seq(Ids), own # <<>>, Last(own) \in S,
         \A i \in 1..Len(own) : own[i] <= Last(own)
  PROVE  Ascending(S) \in Seq(Ids) /\ OwnListed(Ascending(S), own)
<1>1. S \in SUBSET Nat /\ IsFiniteSet(S)
  <2>1. MaxMessages \in Nat
    BY ConversationAssumption DEF ConversationAssumption
  <2>2. IsFiniteSet(1..MaxMessages) /\ S \in SUBSET (1..MaxMessages)
    BY <2>1, FS_Interval DEF Ids
  <2>3. S \in SUBSET Nat
    BY DEF Ids
  <2> QED
    BY <2>2, <2>3, FS_Subset
<1>2. PICK n \in Nat : n = Cardinality(S)
  BY <1>1, FS_CardinalityType
<1>3. PICK a : a = Ascending(S)
  OBVIOUS
<1>4. /\ a \in Seq(S) /\ Len(a) = n
      /\ \A i \in 1..n : a[i] \in S
      /\ \A x \in S : Place(S, x) \in 1..n /\ a[Place(S, x)] = x
      /\ \A i, j \in 1..n : i < j => a[i] < a[j]
  BY <1>1, <1>2, <1>3, AscendingIsSorted
<1>5. a \in Seq(Ids)
  BY <1>4, SeqMonotonic
<1>6. PICK i \in 1..n : a[i] = Last(own)
  BY <1>4
<1>7. ASSUME NEW j \in (i + 1)..n PROVE a[j] \notin ToSet(own)
  <2>1. j \in 1..n /\ i < j
    OBVIOUS
  <2>2. Last(own) < a[j] /\ a[j] \in Nat /\ Last(own) \in Nat
    BY <1>1, <1>4, <1>6, <2>1
  <2>3. ASSUME NEW h \in 1..Len(own), own[h] = a[j] PROVE FALSE
    <3>1. own[h] <= Last(own)
      OBVIOUS
    <3> QED
      BY <2>2, <2>3, <3>1
  <2> QED
    BY <2>3, InSet
<1> QED
  BY <1>3, <1>4, <1>5, <1>6, <1>7 DEF OwnListed

LEMMA ListedIsRecalled ==
  ASSUME NEW l \in Seq(Ids), NEW own \in Seq(Ids), OwnListed(l, own), Len(l) <= Limit
  PROVE  Recalls(l, own)
<1>1. Len(l) \in Nat /\ Limit \in Nat
  BY ConversationAssumption DEF ConversationAssumption
<1>2. CASE \E i \in 1..Len(l) : l[i] = Last(own)
  BY <1>2, InSet DEF Recalls
<1>3. CASE Len(l) >= Limit /\ \A i \in 1..Len(l) : l[i] \notin ToSet(own)
  <2>1. ToSet(l) \cap ToSet(own) = {}
    BY <1>3, InSet
  <2> QED
    BY <1>1, <1>3, <2>1 DEF Recalls
<1> QED
  BY <1>2, <1>3 DEF OwnListed

-----------------------------------------------------------------------------
(* The kinds of steps: what becomes of the turn that takes it, and of the   *)
(* rows and the lists of the conversations that are not deleted and whose   *)
(* lists miss nothing.                                                      *)

Untouched(D) ==
  \A c \in D :
    /\ IdsOf(c)' \subseteq IdsOf(c)
    /\ ~Gone(c)' => IdsOf(c)' = IdsOf(c) /\ (c \in hist'.gaps \/ cache'[c] = cache[c])
Common ==
  /\ sequence \in Nat /\ sequence' \in Nat /\ sequence <= sequence'
  /\ hist.gaps \subseteq hist'.gaps /\ hist.mixed \subseteq hist'.mixed
  /\ \A c \in Convs : Gone(c) => Gone(c)'
Others(t) == \A u \in Turns \ {t} : turns'[u] = turns[u]
Becomes(t, pc, role, own, recent) ==
  turns'[t] = Fields(pc, turns[t].conv, role, own, recent) /\ Others(t)
GoesOn(t, pc) == Becomes(t, pc, turns[t].role, turns[t].own, turns[t].recent)

Waits == (\A t \in Turns : turns'[t] = turns[t]) /\ Untouched(Convs)
Begins(t) ==
  /\ turns[t].pc = "idle" /\ Others(t) /\ Untouched(Convs)
  /\ \E c \in Convs : /\ turns'[t] = Fields("insert", c, "user", <<>>, <<>>)
                      /\ (\E u \in Turns \ {t} : turns[u].conv = c) => c \in hist'.mixed
Inserts(t) ==
  /\ turns[t].pc = "insert" /\ sequence' = sequence + 1 /\ sequence' \in Ids /\ Untouched(Convs)
  /\ Becomes(t, "commit", turns[t].role, Append(turns[t].own, sequence + 1), turns[t].recent)
Commits(t) ==
  /\ turns[t].pc = "commit" /\ GoesOn(t, "refresh")
  /\ \E c \in Convs :
       /\ c = turns[t].conv /\ Untouched(Convs \ {c})
       /\ IdsOf(c)' = IdsOf(c) \cup {Message(t)} /\ cache'[c] = cache[c]
Proceeds(t) ==
  /\ \/ turns[t].pc = "refresh" /\ GoesOn(t, "rpush")
     \/ turns[t].pc = "get" /\ GoesOn(t, "lrange")
     \/ turns[t].pc = "lrange" /\ GoesOn(t, "select")
  /\ Untouched(Convs)
Pushes(t) ==
  /\ turns[t].pc = "rpush" /\ GoesOn(t, "ltrim")
  /\ \E c \in Convs :
       /\ c = turns[t].conv /\ Untouched(Convs \ {c})
       /\ IdsOf(c)' = IdsOf(c) /\ cache'[c] = Append(cache[c], Message(t))
Trims(t) ==
  /\ turns[t].pc = "ltrim" /\ GoesOn(t, "expire")
  /\ \E c \in Convs :
       /\ c = turns[t].conv /\ Untouched(Convs \ {c})
       /\ IdsOf(c)' = IdsOf(c) /\ cache'[c] = Newest(cache[c])
Appends(t) ==
  /\ turns[t].pc \in AppendPcs /\ Untouched(Convs)
  /\ turns[t].pc = "rpush" => turns[t].conv \in hist'.gaps
  /\ IF turns[t].role = "user"
     THEN Becomes(t, "insert", "assistant", turns[t].own, turns[t].recent)
     ELSE GoesOn(t, "get")
Reads(t) ==
  /\ Untouched(Convs)
  /\ \/ /\ turns[t].pc = "lrange"
        /\ Becomes(t, "memory", turns[t].role, turns[t].own, Newest(cache[turns[t].conv]))
     \/ /\ turns[t].pc = "select"
        /\ Becomes(t, "memory", turns[t].role, turns[t].own, Newest(Stored(turns[t].conv)))
IsOver(t) ==
  /\ turns[t].pc # "idle" /\ turns'[t] = IdleTurn /\ Others(t) /\ Untouched(Convs)
  /\ turns[t].pc \in Pending => turns[t].conv \in hist'.gaps

Moves(t) ==
  \/ Begins(t) \/ Inserts(t) \/ Commits(t) \/ Proceeds(t) \/ Pushes(t)
  \/ Trims(t) \/ Appends(t) \/ Reads(t) \/ IsOver(t)

-----------------------------------------------------------------------------
(* Each step is of one of these kinds                                       *)

(* A turn becomes another record, spelled out.                              *)
LEMMA TurnBecomes ==
  ASSUME TurnsShaped, NEW t \in Turns, NEW r, turns' = [turns EXCEPT ![t] = r]
  PROVE  turns'[t] = r /\ Others(t)
BY DEF TurnsShaped, Others

LEMMA TurnGoesOn ==
  ASSUME TurnsShaped, NEW t \in Turns, NEW pc, Goes(t, pc) PROVE GoesOn(t, pc)
<1> DEFINE r == [turns[t] EXCEPT !.pc = pc]
<1>1. turns' = [turns EXCEPT ![t] = r]
  BY DEF Goes
<1>2. r = Fields(pc, turns[t].conv, turns[t].role, turns[t].own, turns[t].recent)
  BY DEF TurnsShaped, TurnShape, Fields
<1> HIDE DEF r
<1> QED
  BY <1>1, <1>2, TurnBecomes DEF GoesOn, Becomes

LEMMA StoresStay == ASSUME UNCHANGED <<messages, cache>>, NEW D PROVE Untouched(D)
BY DEF Untouched, IdsOf

LEMMA HistoryStays ==
  ASSUME StoresShaped, UNCHANGED <<convs, sequence, hist>> PROVE Common
<1>1. sequence \in Nat /\ sequence <= sequence
  BY ConversationAssumption DEF StoresShaped, ConversationAssumption
<1> QED
  BY <1>1 DEF Common, Gone

LEMMA BeginIsKind ==
  ASSUME IInv, NEW t \in Turns, NEW c \in Convs, Begin(t, c) PROVE Common /\ Begins(t)
<1> DEFINE r == [IdleTurn EXCEPT !.pc = "insert", !.conv = c]
<1>1. turns' = [turns EXCEPT ![t] = r] /\ turns[t].pc = "idle"
  BY DEF Begin, At
<1>2. r = Fields("insert", c, "user", <<>>, <<>>)
  <2>1. /\ IdleTurn = Fields(IdleTurn.pc, IdleTurn.conv, IdleTurn.role, IdleTurn.own, IdleTurn.recent)
        /\ IdleTurn.role = "user" /\ IdleTurn.own = <<>> /\ IdleTurn.recent = <<>>
    BY DEF IdleTurn, Fields
  <2>2. r = WithConv(IdleTurn, "insert", c)
    BY DEF WithConv
  <2> HIDE DEF r
  <2> QED
    BY <2>1, <2>2, EditsTwo
<1> HIDE DEF r
<1>3. turns'[t] = Fields("insert", c, "user", <<>>, <<>>) /\ Others(t)
  BY <1>1, <1>2, TurnBecomes DEF IInv
<1>4. Overlapping(t, c) \in SUBSET Convs
  BY DEF Overlapping, IInv, StoresShaped, HistRecords
<1>5. hist'.gaps = hist.gaps /\ hist'.mixed = Overlapping(t, c)
  BY <1>4 DEF Begin, IInv, StoresShaped, HistRecords
<1>6. hist.mixed \subseteq hist'.mixed /\ ((\E u \in Turns \ {t} : turns[u].conv = c) => c \in hist'.mixed)
  BY <1>5 DEF Overlapping
<1>7. \A d \in Convs : Gone(d) => Gone(d)'
  BY DEF Begin, Gone, IInv, StoresShaped
<1>8. Untouched(Convs)
  BY StoresStay DEF Begin
<1>9. sequence' = sequence /\ sequence \in Nat
  BY ConversationAssumption DEF Begin, IInv, StoresShaped, ConversationAssumption
<1> QED
  BY <1>1, <1>3, <1>5, <1>6, <1>7, <1>8, <1>9 DEF Common, Begins

LEMMA InsertIsKind ==
  ASSUME IInv, NEW t \in Turns, Insert(t) PROVE Common /\ Inserts(t)
<1> DEFINE r == WithOwn(turns[t], "commit", Append(turns[t].own, sequence + 1))
<1>1. turns' = [turns EXCEPT ![t] = r] /\ turns[t].pc = "insert"
  BY DEF Insert, At, WithOwn
<1>2. r = Fields("commit", turns[t].conv, turns[t].role, Append(turns[t].own, sequence + 1),
                 turns[t].recent)
  BY EditsTwo DEF IInv, TurnsShaped, TurnShape
<1> HIDE DEF r
<1>3. turns'[t] = r /\ Others(t)
  BY <1>1, TurnBecomes DEF IInv
<1>4. Untouched(Convs)
  BY StoresStay DEF Insert
<1>5. sequence \in Nat /\ sequence' = sequence + 1 /\ sequence' \in Ids
  BY ConversationAssumption DEF Insert, IInv, StoresShaped, ConversationAssumption, Ids
<1>6. Common
  BY <1>5 DEF Insert, Common, Gone
<1> QED
  BY <1>1, <1>2, <1>3, <1>4, <1>5, <1>6 DEF Inserts, Becomes

LEMMA CommitIsKind ==
  ASSUME IInv, NEW t \in Turns, Commit(t) PROVE Common /\ Commits(t)
<1>1. turns[t].pc = "commit" /\ GoesOn(t, "refresh")
  BY TurnGoesOn DEF Commit, At, IInv
<1>2. PICK row : row = [id |-> Message(t), conv |-> turns[t].conv]
  OBVIOUS
<1>3. messages' = messages \cup {row} /\ UNCHANGED <<convs, sequence, cache, hist>>
  BY <1>2 DEF Commit
<1>4. PICK c \in Convs : c = turns[t].conv
  BY <1>1 DEF IInv, TurnsShaped, TurnShape, Working, TurnPcs
<1>5. row.id = Message(t) /\ row.conv = c
  BY <1>2, <1>4
<1>6. IdsOf(c)' = IdsOf(c) \cup {Message(t)}
  <2>1. PICK m : m = Message(t)
    OBVIOUS
  <2>2. IdsOf(c)' = IdsOf(c) \cup {m}
    BY <1>3, <1>5, <2>1 DEF IdsOf
  <2> QED
    BY <2>1, <2>2
<1>7. Untouched(Convs \ {c})
  BY <1>3, <1>5 DEF Untouched, IdsOf
<1>8. Common
  BY <1>3, HistoryStays DEF IInv
<1> QED
  BY <1>1, <1>3, <1>4, <1>6, <1>7, <1>8 DEF Commits

LEMMA ProceedIsKind ==
  ASSUME IInv, NEW t \in Turns, Refresh(t) \/ Get(t) \/ LrangeFails(t)
  PROVE  Common /\ Proceeds(t)
<1>1. UNCHANGED <<convs, sequence, messages, cache, hist>>
  BY DEF Refresh, Get, LrangeFails
<1>2. Common /\ Untouched(Convs)
  BY <1>1, HistoryStays, StoresStay DEF IInv
<1> QED
  BY <1>2, TurnGoesOn DEF Refresh, Get, LrangeFails, Finds, At, Proceeds, IInv

LEMMA RpushIsKind ==
  ASSUME IInv, NEW t \in Turns, Rpush(t) PROVE Common /\ Pushes(t)
<1>1. turns[t].pc = "rpush" /\ GoesOn(t, "ltrim")
  BY TurnGoesOn DEF Rpush, At, IInv
<1>2. PICK c \in Convs : c = turns[t].conv
  BY <1>1 DEF IInv, TurnsShaped, TurnShape, Working, TurnPcs
<1>3. cache' = [cache EXCEPT ![c] = Append(cache[c], Message(t))] /\ UNCHANGED <<convs, sequence, messages>>
  BY <1>2 DEF Rpush, Push
<1>4. cache'[c] = Append(cache[c], Message(t)) /\ \A d \in Convs \ {c} : cache'[d] = cache[d]
  <2>1. PICK l : l = Append(cache[c], Message(t))
    OBVIOUS
  <2> QED
    BY <1>3, <2>1 DEF IInv, StoresShaped
<1>5. Untouched(Convs \ {c}) /\ IdsOf(c)' = IdsOf(c)
  BY <1>3, <1>4 DEF Untouched, IdsOf
<1>6. hist'.gaps = hist.gaps /\ hist'.mixed = hist.mixed
  BY DEF Rpush, IInv, StoresShaped, HistRecords
<1>7. Common
  BY <1>3, <1>6, ConversationAssumption
     DEF Common, Gone, IInv, StoresShaped, ConversationAssumption
<1> QED
  BY <1>1, <1>2, <1>4, <1>5, <1>7 DEF Pushes

LEMMA LtrimIsKind ==
  ASSUME IInv, NEW t \in Turns, Ltrim(t) PROVE Common /\ Trims(t)
<1>1. turns[t].pc = "ltrim" /\ GoesOn(t, "expire")
  BY TurnGoesOn DEF Ltrim, At, IInv
<1>2. PICK c \in Convs : c = turns[t].conv
  BY <1>1 DEF IInv, TurnsShaped, TurnShape, Working, TurnPcs
<1>3. cache' = [cache EXCEPT ![c] = Newest(cache[c])] /\ UNCHANGED <<convs, sequence, messages, hist>>
  BY <1>2 DEF Ltrim, Trimmed
<1>4. cache'[c] = Newest(cache[c]) /\ \A d \in Convs \ {c} : cache'[d] = cache[d]
  <2>1. PICK l : l = Newest(cache[c])
    OBVIOUS
  <2> QED
    BY <1>3, <2>1 DEF IInv, StoresShaped
<1>5. Untouched(Convs \ {c}) /\ IdsOf(c)' = IdsOf(c)
  BY <1>3, <1>4 DEF Untouched, IdsOf
<1>6. Common
  BY <1>3, HistoryStays DEF IInv
<1> QED
  BY <1>1, <1>2, <1>4, <1>5, <1>6 DEF Trims

LEMMA AfterAppendBecomes ==
  ASSUME IInv, NEW t \in Turns, AfterAppend(t)
  PROVE  IF turns[t].role = "user"
         THEN Becomes(t, "insert", "assistant", turns[t].own, turns[t].recent)
         ELSE GoesOn(t, "get")
<1>1. CASE turns[t].role = "user"
  <2> DEFINE r == WithRole(turns[t], "insert", "assistant")
  <2>1. turns' = [turns EXCEPT ![t] = r]
    BY <1>1 DEF AfterAppend, WithRole
  <2>2. r = Fields("insert", turns[t].conv, "assistant", turns[t].own, turns[t].recent)
    BY EditsTwo DEF IInv, TurnsShaped, TurnShape
  <2> HIDE DEF r
  <2> QED
    BY <1>1, <2>1, <2>2, TurnBecomes DEF Becomes, IInv
<1>2. CASE turns[t].role # "user"
  <2>1. Goes(t, "get")
    BY <1>2 DEF AfterAppend, Goes
  <2> QED
    BY <1>2, <2>1, TurnGoesOn DEF IInv
<1> QED
  BY <1>1, <1>2

LEMMA ExpireIsKind ==
  ASSUME IInv, NEW t \in Turns, Expire(t) PROVE Common /\ Appends(t)
<1>1. turns[t].pc = "expire" /\ AfterAppend(t) /\ UNCHANGED <<convs, sequence, messages, cache, hist>>
  BY DEF Expire, At
<1> QED
  BY <1>1, AfterAppendBecomes, HistoryStays, StoresStay DEF IInv, Appends, AppendPcs

LEMMA AppendFailsIsKind ==
  ASSUME IInv, NEW t \in Turns, AppendFails(t) PROVE Common /\ Appends(t)
<1>1. turns[t].pc \in AppendPcs /\ AfterAppend(t)
  BY DEF AppendFails
<1>2. PICK c \in Convs : c = turns[t].conv
  BY <1>1 DEF IInv, TurnsShaped, TurnShape, Working, TurnPcs, AppendPcs
<1>3. /\ (turns[t].pc = "rpush" /\ cache' = [cache EXCEPT ![c] = Append(cache[c], Message(t))])
         \/ cache' = cache
      /\ hist' = [hist EXCEPT !.gaps = IF turns[t].pc = "rpush" THEN @ \cup {c} ELSE @,
                              !.cut = @ \cup {c}, !.orphans = Orphaned(c)]
      /\ UNCHANGED <<convs, sequence, messages>>
  BY <1>2 DEF AppendFails, At, Push
<1>4. /\ hist'.gaps = IF turns[t].pc = "rpush" THEN hist.gaps \cup {c} ELSE hist.gaps
      /\ hist'.mixed = hist.mixed
  <2>1. PICK o : o = Orphaned(c)
    OBVIOUS
  <2> QED
    BY <1>3, <2>1 DEF IInv, StoresShaped, HistRecords
<1>5. ASSUME NEW d \in Convs PROVE d \in hist'.gaps \/ cache'[d] = cache[d]
  <2>1. CASE turns[t].pc = "rpush" /\ cache' = [cache EXCEPT ![c] = Append(cache[c], Message(t))]
    <3>1. PICK l : l = Append(cache[c], Message(t))
      OBVIOUS
    <3> QED
      BY <1>4, <2>1, <3>1 DEF IInv, StoresShaped
  <2> QED
    BY <1>3, <2>1
<1>6. Untouched(Convs)
  BY <1>3, <1>5 DEF Untouched, IdsOf
<1>7. Common
  BY <1>3, <1>4, ConversationAssumption
     DEF Common, Gone, IInv, StoresShaped, ConversationAssumption
<1>8. turns[t].pc = "rpush" => turns[t].conv \in hist'.gaps
  BY <1>2, <1>4
<1> QED
  BY <1>1, <1>6, <1>7, <1>8, AfterAppendBecomes DEF Appends

LEMMA ReadIsKind ==
  ASSUME IInv, NEW t \in Turns, Lrange(t) \/ Select(t) PROVE Common /\ (Reads(t) \/ Proceeds(t))
<1>1. UNCHANGED <<convs, sequence, messages, cache, hist>>
  BY DEF Lrange, Select
<1>2. Common /\ Untouched(Convs)
  BY <1>1, HistoryStays, StoresStay DEF IInv
<1>3. ASSUME NEW l, turns' = [turns EXCEPT ![t].pc = "memory", ![t].recent = l]
      PROVE  Becomes(t, "memory", turns[t].role, turns[t].own, l)
  <2> DEFINE r == WithRecent(turns[t], "memory", l)
  <2>1. turns' = [turns EXCEPT ![t] = r]
    BY <1>3 DEF WithRecent
  <2>2. r = Fields("memory", turns[t].conv, turns[t].role, turns[t].own, l)
    BY EditsTwo DEF IInv, TurnsShaped, TurnShape
  <2> HIDE DEF r
  <2> QED
    BY <2>1, <2>2, TurnBecomes DEF Becomes, IInv
<1>4. CASE Select(t)
  BY <1>2, <1>3, <1>4 DEF Select, At, Reads
<1>5. CASE Lrange(t) /\ cache[turns[t].conv] # <<>>
  BY <1>2, <1>3, <1>5 DEF Lrange, At, Reads
<1>6. CASE Lrange(t) /\ cache[turns[t].conv] = <<>>
  <2>1. Goes(t, "select") /\ turns[t].pc = "lrange"
    BY <1>6 DEF Lrange, Goes, At
  <2> QED
    BY <1>2, <2>1, TurnGoesOn DEF Proceeds, IInv
<1> QED
  BY <1>4, <1>5, <1>6

LEMMA EndIsKind ==
  ASSUME IInv, NEW t \in Turns, Remember(t) \/ TurnEnds(t) PROVE Common /\ IsOver(t)
<1>1. turns'[t] = IdleTurn /\ Others(t)
  BY TurnBecomes DEF Remember, TurnEnds, Ends, IInv
<1>2. turns[t].pc # "idle" /\ UNCHANGED <<convs, sequence, messages, cache>>
  BY DEF Remember, TurnEnds, At
<1>3. Untouched(Convs)
  BY <1>2, StoresStay
<1>4. /\ hist.gaps \subseteq hist'.gaps /\ hist'.mixed = hist.mixed
      /\ turns[t].pc \in Pending => turns[t].conv \in hist'.gaps
  <2>1. CASE Remember(t)
    BY <2>1 DEF Remember, At, Pending
  <2>2. CASE TurnEnds(t)
    <3>1. PICK c : c = turns[t].conv
      OBVIOUS
    <3>2. hist' = [hist EXCEPT !.gaps = IF turns[t].pc \in {"refresh", "rpush"} THEN @ \cup {c} ELSE @,
                               !.cut = IF turns[t].pc \in AppendPcs THEN @ \cup {c} ELSE @]
      BY <2>2, <3>1 DEF TurnEnds
    <3> QED
      BY <3>1, <3>2 DEF IInv, StoresShaped, HistRecords, Pending
  <2> QED
    BY <2>1, <2>2
<1>5. Common
  BY <1>2, <1>4, ConversationAssumption
     DEF Common, Gone, IInv, StoresShaped, ConversationAssumption
<1> QED
  BY <1>1, <1>2, <1>3, <1>4, <1>5 DEF IsOver

(* Deletions and expiry leave the turns alone.                              *)
LEMMA DeletionWaits ==
  ASSUME IInv, UncachedIsGone,
         (\E c \in Convs : BeginDeletion(c) \/ KeyExpires(c))
           \/ DeleteRows \/ DeleteList \/ DeletionEnds \/ UNCHANGED vars
  PROVE  Common /\ Waits /\ UncachedIsGone'
<1>1. \A t \in Turns : turns'[t] = turns[t]
  BY DEF BeginDeletion, KeyExpires, DeleteRows, DeleteList, DeletionEnds, vars
<1>2. CASE (\E c \in Convs : BeginDeletion(c)) \/ DeletionEnds \/ UNCHANGED vars
  <2>1. UNCHANGED <<convs, sequence, messages, cache>>
    BY <1>2 DEF BeginDeletion, DeletionEnds, vars
  <2>2. hist'.gaps = hist.gaps /\ hist'.mixed = hist.mixed
    BY <1>2 DEF BeginDeletion, DeletionEnds, vars, IInv, StoresShaped, HistRecords
  <2>3. Common
    BY <2>1, <2>2, ConversationAssumption
       DEF Common, Gone, IInv, StoresShaped, ConversationAssumption
  <2>4. UncachedIsGone'
    BY <1>2, <2>1 DEF UncachedIsGone, Gone, BeginDeletion, DeletionEnds, Deletes, vars
  <2> QED
    BY <1>1, <2>1, <2>3, <2>4, StoresStay DEF Waits
<1>3. ASSUME NEW c \in Convs, KeyExpires(c) PROVE Common /\ Waits /\ UncachedIsGone'
  <2>1. UNCHANGED <<convs, sequence, messages, deletion>> /\ cache' = [cache EXCEPT ![c] = <<>>]
    BY <1>3 DEF KeyExpires, Drop
  <2>2. hist'.gaps = hist.gaps \cup {c} /\ hist'.mixed = hist.mixed
    BY <1>3 DEF KeyExpires, IInv, StoresShaped, HistRecords
  <2>3. Common
    BY <2>1, <2>2, ConversationAssumption
       DEF Common, Gone, IInv, StoresShaped, ConversationAssumption
  <2>4. Untouched(Convs)
    BY <2>1, <2>2 DEF Untouched, IdsOf, IInv, StoresShaped
  <2> QED
    BY <1>1, <2>1, <2>3, <2>4 DEF Waits, UncachedIsGone, Gone
<1>4. CASE DeleteRows
  <2>1. PICK c \in Convs : c = deletion.conv
    BY <1>4 DEF DeleteRows, IInv, StoresShaped
  <2>2. /\ convs' = [convs EXCEPT ![c] = "deleted"] /\ messages' = {m \in messages : m.conv # c}
        /\ deletion' = [pc |-> "uncache", conv |-> c] /\ UNCHANGED <<sequence, cache, hist>>
    BY <1>4, <2>1 DEF DeleteRows, Deletes
  <2>3. Gone(c)' /\ \A d \in Convs : Gone(d) => Gone(d)'
    BY <2>2 DEF Gone, IInv, StoresShaped
  <2>4. Common
    BY <2>2, <2>3, ConversationAssumption DEF Common, IInv, StoresShaped, ConversationAssumption
  <2>5. Untouched(Convs)
    <3>1. IdsOf(c)' \subseteq IdsOf(c) /\ \A d \in Convs \ {c} : IdsOf(d)' = IdsOf(d)
      BY <2>2 DEF IdsOf
    <3> QED
      BY <2>2, <2>3, <3>1 DEF Untouched
  <2> QED
    BY <1>1, <2>2, <2>3, <2>4, <2>5 DEF Waits, UncachedIsGone
<1>5. CASE DeleteList
  <2>1. PICK c \in Convs : c = deletion.conv
    BY <1>5 DEF DeleteList, Uncached, IInv, StoresShaped
  <2>2. /\ cache' = [cache EXCEPT ![c] = <<>>] /\ deletion' = [pc |-> "idle", conv |-> None]
        /\ UNCHANGED <<convs, sequence, messages, hist>> /\ Gone(c)
    BY <1>5, <2>1 DEF DeleteList, Drop, Deletes, Uncached, UncachedIsGone
  <2>3. Common
    BY <2>2, HistoryStays DEF IInv
  <2>4. Untouched(Convs)
    BY <2>2 DEF Untouched, IdsOf, Gone, IInv, StoresShaped
  <2> QED
    BY <1>1, <2>2, <2>3, <2>4 DEF Waits, UncachedIsGone
<1> QED
  BY <1>2, <1>3, <1>4, <1>5

LEMMA StepKinds ==
  ASSUME IInv, UncachedIsGone, [Next]_vars
  PROVE  /\ Common /\ UncachedIsGone'
         /\ Waits \/ \E t \in Turns : Moves(t)
<1>1. ASSUME NEW t \in Turns, Turn(t) PROVE Common /\ Moves(t) /\ UNCHANGED deletion
  <2>1. UNCHANGED deletion
    BY <1>1 DEF Turn, AddMessage, Begin, Insert, Commit, Refresh, Rpush, Ltrim, Expire, AppendFails,
                Get, Lrange, LrangeFails, Select, Remember, TurnEnds
  <2>2. CASE \E c \in Convs : Begin(t, c)
    BY <2>1, <2>2, BeginIsKind DEF Moves
  <2>3. CASE AddMessage(t)
    <3>1. CASE Insert(t) \/ Commit(t) \/ Refresh(t)
      BY <2>1, <3>1, InsertIsKind, CommitIsKind, ProceedIsKind DEF Moves
    <3>2. CASE Rpush(t) \/ Ltrim(t) \/ Expire(t) \/ AppendFails(t)
      BY <2>1, <3>2, RpushIsKind, LtrimIsKind, ExpireIsKind, AppendFailsIsKind DEF Moves
    <3> QED
      BY <2>3, <3>1, <3>2 DEF AddMessage
  <2>4. CASE Get(t) \/ Lrange(t) \/ LrangeFails(t) \/ Select(t) \/ Remember(t) \/ TurnEnds(t)
    BY <2>1, <2>4, ProceedIsKind, ReadIsKind, EndIsKind DEF Moves
  <2> QED
    BY <1>1, <2>2, <2>3, <2>4 DEF Turn
<1>2. ASSUME Common, UNCHANGED deletion PROVE UncachedIsGone'
  BY <1>2 DEF Common, UncachedIsGone, IInv, StoresShaped
<1>3. CASE \E t \in Turns : Turn(t)
  BY <1>1, <1>2, <1>3
<1>4. CASE (\E c \in Convs : BeginDeletion(c) \/ KeyExpires(c))
             \/ DeleteRows \/ DeleteList \/ DeletionEnds \/ UNCHANGED vars
  BY <1>4, DeletionWaits
<1> QED
  BY <1>3, <1>4 DEF Next

(* Where a turn is after its step.                                          *)
SameMessages(t) == turns'[t].conv = turns[t].conv /\ turns'[t].own = turns[t].own
Walks(t, from, to) == turns[t].pc = from /\ turns'[t].pc = to /\ SameMessages(t)

LEMMA StoreWalks ==
  ASSUME NEW t \in Turns
  PROVE  /\ Commits(t) => Walks(t, "commit", "refresh")
         /\ Pushes(t) => Walks(t, "rpush", "ltrim")
         /\ Trims(t) => Walks(t, "ltrim", "expire")
BY DEF Commits, Pushes, Trims, GoesOn, Becomes, Fields, Walks, SameMessages

LEMMA MoverWalks ==
  ASSUME NEW t \in Turns, Moves(t)
  PROVE  \/ Begins(t) /\ turns'[t].pc = "insert"
         \/ Inserts(t) /\ turns'[t].pc = "commit" /\ turns'[t].conv = turns[t].conv
         \/ Commits(t) /\ Walks(t, "commit", "refresh")
         \/ Proceeds(t) /\ (\/ Walks(t, "refresh", "rpush") \/ Walks(t, "get", "lrange")
                            \/ Walks(t, "lrange", "select"))
         \/ Pushes(t) /\ Walks(t, "rpush", "ltrim")
         \/ Trims(t) /\ Walks(t, "ltrim", "expire")
         \/ /\ Appends(t) /\ turns[t].pc \in AppendPcs /\ turns'[t].pc \in {"insert", "get"}
            /\ SameMessages(t) /\ (turns[t].pc = "rpush" => turns[t].conv \in hist'.gaps)
         \/ Reads(t) /\ (Walks(t, "lrange", "memory") \/ Walks(t, "select", "memory"))
         \/ IsOver(t) /\ turns'[t].pc = "idle" /\ turns'[t].conv = None
<1>1. ASSUME NEW pc, GoesOn(t, pc) PROVE turns'[t].pc = pc /\ SameMessages(t)
  BY <1>1 DEF GoesOn, Becomes, Fields, SameMessages
<1>2. CASE Begins(t)
  BY <1>2 DEF Begins, Fields
<1>3. CASE Inserts(t)
  <2>1. PICK a : a = Append(turns[t].own, sequence + 1)
    OBVIOUS
  <2> QED
    BY <1>3, <2>1 DEF Inserts, Becomes, Fields
<1>4. CASE Commits(t) \/ Pushes(t) \/ Trims(t)
  BY <1>4, StoreWalks
<1>5. CASE Proceeds(t)
  BY <1>1, <1>5 DEF Proceeds, Walks
<1>8. CASE Appends(t)
  <2>1. CASE turns[t].role = "user"
    BY <1>8, <2>1 DEF Appends, Becomes, Fields, SameMessages
  <2>2. CASE turns[t].role # "user"
    BY <1>1, <1>8, <2>2 DEF Appends
  <2> QED
    BY <2>1, <2>2
<1>9. CASE Reads(t)
  <2>1. PICK l : /\ turns'[t] = Fields("memory", turns[t].conv, turns[t].role, turns[t].own, l)
                 /\ turns[t].pc \in {"lrange", "select"}
    BY <1>9 DEF Reads, Becomes
  <2> QED
    BY <1>9, <2>1 DEF Fields, Walks, SameMessages
<1>10. CASE IsOver(t)
  BY <1>10 DEF IsOver, IdleTurn
<1> QED
  BY <1>2, <1>3, <1>4, <1>5, <1>8, <1>9, <1>10 DEF Moves

-----------------------------------------------------------------------------
(* Each part of the invariant is kept                                       *)

Step == Common /\ (Waits \/ \E t \in Turns : Moves(t))

LEMMA OwnMessages ==
  ASSUME IInv, TurnsFit, NEW t \in Turns
  PROVE  /\ turns[t].own \in Seq(Ids) /\ turns[t].pc \in TurnPcs
         /\ turns[t].pc # "idle" => turns[t].conv \in Convs
         /\ turns[t].pc = "idle" => turns[t].conv \notin Convs
         /\ turns[t].pc \in Committed \cup {"commit", "memory"} =>
              turns[t].own # <<>> /\ Message(t) \in Ids /\ Message(t) <= sequence
<1>1. turns[t].own \in Seq(Ids) /\ turns[t].pc \in TurnPcs
  BY DEF IInv, TurnsShaped, TurnShape
<1>2. /\ turns[t].pc # "idle" => turns[t].conv \in Convs
      /\ turns[t].pc = "idle" => turns[t].conv \notin Convs
  BY ConversationAssumption DEF IInv, TurnsShaped, TurnShape, Working, TurnsFit, TurnFits, ConversationAssumption
<1>3. ASSUME turns[t].pc \in Committed \cup {"commit", "memory"}
      PROVE  turns[t].own # <<>> /\ Message(t) \in Ids /\ Message(t) <= sequence
  <2>1. Len(turns[t].own) = Inserted(turns[t].pc, turns[t].role)
    BY <1>3 DEF TurnsFit, TurnFits, Committed
  <2>2. Inserted(turns[t].pc, turns[t].role) \in {1, 2}
    BY <1>3 DEF Inserted, Committed
  <2>3. turns[t].own # <<>>
    BY <2>1, <2>2
  <2>4. Len(turns[t].own) \in 1..Len(turns[t].own)
    BY <2>1, <2>2
  <2>5. turns[t].own[Len(turns[t].own)] <= sequence
    BY <2>4 DEF TurnsFit, TurnFits
  <2> QED
    BY <1>1, <2>3, <2>5, InSet DEF Message
<1> QED
  BY <1>1, <1>2, <1>3

LEMMA FitsLater ==
  ASSUME NEW r, r.own \in Seq(Ids), NEW n \in Nat, NEW k \in Nat, n <= k, TurnFits(r, n)
  PROVE  TurnFits(r, k)
<1>1. ASSUME NEW i \in 1..Len(r.own) PROVE r.own[i] <= k
  <2>1. r.own[i] \in Ids /\ r.own[i] <= n
    BY ElementOfSeq DEF TurnFits
  <2>2. \A x \in Ids : x \in Nat
    BY DEF Ids
  <2> QED
    BY <2>1, <2>2
<1> QED
  BY <1>1 DEF TurnFits

LEMMA NewestFits ==
  ASSUME NEW l \in Seq(Ids) PROVE Newest(l) \in Seq(Ids) /\ Len(Newest(l)) <= Limit
BY NewestShape, ConversationAssumption

LEMMA RowsAreIds ==
  ASSUME IInv, RowsFit, NEW c \in Convs
  PROVE  /\ IdsOf(c) \in SUBSET Ids /\ IdsOf(c) \in SUBSET Nat /\ IsFiniteSet(IdsOf(c))
         /\ Stored(c) \in Seq(Ids)
<1>1. sequence \in 0..MaxMessages /\ MaxMessages \in Nat
  BY ConversationAssumption DEF IInv, StoresShaped, ConversationAssumption
<1>2. IdsOf(c) \in SUBSET Ids
  BY <1>1 DEF RowsFit, Ids
<1>3. Ids \in SUBSET Nat /\ IsFiniteSet(Ids)
  BY <1>1, FS_Interval DEF Ids
<1>4. IsFiniteSet(IdsOf(c)) /\ IdsOf(c) \in SUBSET Nat
  BY <1>2, <1>3, FS_Subset
<1>5. Ascending(IdsOf(c)) \in Seq(IdsOf(c))
  BY <1>4, AscendingIsSorted
<1> QED
  BY <1>2, <1>4, <1>5, SeqMonotonic DEF Stored

(* The turn whose step it is fits as well.                                  *)
LEMMA MoverFits ==
  ASSUME IInv, TurnsFit, RowsFit, Common, NEW t \in Turns, Moves(t)
  PROVE  TurnFits(turns'[t], sequence')
<1> DEFINE q == turns[t]
<1>1. TurnFits(q, sequence) /\ q.own \in Seq(Ids) /\ q.pc \in TurnPcs
  BY OwnMessages DEF TurnsFit
<1>2. TurnFits(q, sequence')
  BY <1>1, FitsLater DEF Common
<1>3. q.pc # "idle" => q.conv \in Convs
  BY OwnMessages
<1> HIDE DEF q
<1>4. ASSUME NEW pc, NEW role, NEW recent, NEW r, r = Fields(pc, q.conv, role, q.own, recent),
             q.pc # "idle", pc # "idle", role \in {"user", "assistant"},
             Inserted(pc, role) = Inserted(q.pc, q.role), pc \in Reading => role = "assistant",
             recent \in Seq(Ids), Len(recent) <= Limit
      PROVE  TurnFits(r, sequence')
  <2>1. r.pc = pc /\ r.role = role /\ r.own = q.own /\ r.recent = recent
    BY <1>4 DEF Fields
  <2> QED
    BY <1>2, <1>4, <2>1 DEF TurnFits
<1>5. q.recent \in Seq(Ids) /\ Len(q.recent) <= Limit /\ q.role \in {"user", "assistant"}
  BY <1>1 DEF TurnFits
<1>6. <<>> \in Seq(Ids) /\ Len(<<>>) = 0 /\ 0 <= Limit
  BY EmptySeq, ConversationAssumption DEF ConversationAssumption
<1>7. CASE Begins(t)
  <2>1. PICK c \in Convs : turns'[t] = Fields("insert", c, "user", <<>>, <<>>)
    BY <1>7 DEF Begins
  <2>2. PICK r : r = Fields("insert", c, "user", <<>>, <<>>)
    OBVIOUS
  <2>3. r.pc = "insert" /\ r.role = "user" /\ r.own = <<>> /\ r.recent = <<>>
    BY <2>2 DEF Fields
  <2>4. TurnFits(r, sequence')
    BY <1>6, <2>3 DEF TurnFits, Inserted, Reading
  <2> QED
    BY <2>1, <2>2, <2>4
<1>8. CASE Inserts(t)
  <2>1. PICK a : a = Append(q.own, sequence + 1)
    OBVIOUS
  <2>2. PICK r : r = Fields("commit", q.conv, q.role, a, q.recent)
    OBVIOUS
  <2>3. turns'[t] = r /\ q.pc = "insert" /\ sequence' = sequence + 1 /\ sequence' \in Ids
    BY <1>8, <2>1, <2>2 DEF Inserts, Becomes, q
  <2>4. /\ a \in Seq(Ids) /\ Len(a) = Len(q.own) + 1 /\ Last(a) = sequence'
        /\ ToSet(a) = ToSet(q.own) \cup {sequence'}
    BY <1>1, <2>1, <2>3, InSet
  <2>5. r.pc = "commit" /\ r.role = q.role /\ r.own = a /\ r.recent = q.recent
    BY <2>2 DEF Fields
  <2>6. Len(q.own) = Inserted("insert", q.role) /\ \A i \in 1..Len(q.own) : q.own[i] <= sequence'
    BY <1>2, <2>3 DEF TurnFits
  <2>7. Len(a) = Inserted("commit", q.role)
    BY <1>5, <2>4, <2>6 DEF Inserted
  <2>8. ASSUME NEW i \in 1..Len(a) PROVE a[i] <= sequence'
    <3>1. a[i] \in ToSet(a)
      BY <2>4, InSet
    <3>2. a[i] = sequence' \/ \E j \in 1..Len(q.own) : q.own[j] = a[i]
      BY <1>1, <2>4, <3>1, InSet
    <3> QED
      BY <2>6, <3>2 DEF Common
  <2> QED
    BY <1>5, <2>3, <2>4, <2>5, <2>7, <2>8 DEF TurnFits, Reading
<1>9. CASE Commits(t) \/ Proceeds(t) \/ Pushes(t) \/ Trims(t)
  <2>1. PICK pc \in {"refresh", "rpush", "lrange", "select", "ltrim", "expire"} :
          /\ turns'[t] = Fields(pc, q.conv, q.role, q.own, q.recent)
          /\ q.pc \notin {"idle", "insert"}
          /\ pc \in Reading => q.pc \in Reading
    BY <1>9 DEF Commits, Proceeds, Pushes, Trims, GoesOn, Becomes, Reading, q
  <2>2. PICK r : r = Fields(pc, q.conv, q.role, q.own, q.recent)
    OBVIOUS
  <2>3. Inserted(pc, q.role) = Inserted(q.pc, q.role)
    BY <2>1 DEF Inserted
  <2>4. pc \in Reading => q.role = "assistant"
    BY <1>1, <2>1 DEF TurnFits
  <2> QED
    BY <1>4, <1>5, <2>1, <2>2, <2>3, <2>4
<1>10. CASE Appends(t)
  <2>1. q.pc \in AppendPcs
    BY <1>10 DEF Appends, q
  <2>2. CASE q.role = "user"
    <3>1. PICK r : r = Fields("insert", q.conv, "assistant", q.own, q.recent)
      OBVIOUS
    <3>2. turns'[t] = r
      BY <1>10, <2>2, <3>1 DEF Appends, Becomes, q
    <3>3. Inserted("insert", "assistant") = Inserted(q.pc, q.role)
      BY <2>1, <2>2 DEF Inserted, AppendPcs
    <3> QED
      BY <1>4, <1>5, <2>1, <3>1, <3>2, <3>3 DEF AppendPcs, Reading
  <2>3. CASE q.role = "assistant"
    <3>1. PICK r : r = Fields("get", q.conv, q.role, q.own, q.recent)
      OBVIOUS
    <3>2. turns'[t] = r
      BY <1>10, <2>3, <3>1 DEF Appends, GoesOn, Becomes, q
    <3>3. Inserted("get", "assistant") = Inserted(q.pc, q.role)
      BY <2>1, <2>3 DEF Inserted, AppendPcs
    <3> QED
      BY <1>4, <1>5, <2>1, <2>3, <3>1, <3>2, <3>3 DEF AppendPcs
  <2> QED
    BY <1>5, <2>2, <2>3
<1>11. CASE Reads(t)
  <2>1. PICK l \in {Newest(cache[q.conv]), Newest(Stored(q.conv))} :
          turns'[t] = Fields("memory", q.conv, q.role, q.own, l) /\ q.pc \in {"lrange", "select"}
    BY <1>11 DEF Reads, Becomes, q
  <2>2. q.conv \in Convs
    BY <1>3, <2>1
  <2>3. cache[q.conv] \in Seq(Ids) /\ Stored(q.conv) \in Seq(Ids)
    BY <2>2, RowsAreIds DEF IInv, StoresShaped
  <2>4. l \in Seq(Ids) /\ Len(l) <= Limit
    BY <2>1, <2>3, NewestFits
  <2>5. PICK r : r = Fields("memory", q.conv, q.role, q.own, l)
    OBVIOUS
  <2>6. Inserted("memory", q.role) = Inserted(q.pc, q.role)
    BY <2>1 DEF Inserted
  <2>7. q.role = "assistant"
    BY <1>1, <2>1 DEF TurnFits, Reading
  <2> QED
    BY <1>4, <1>5, <2>1, <2>4, <2>5, <2>6, <2>7
<1>12. CASE IsOver(t)
  <2>1. turns'[t] = IdleTurn
    BY <1>12 DEF IsOver
  <2>2. IdleTurn.pc = "idle" /\ IdleTurn.conv = None /\ IdleTurn.role = "user"
        /\ IdleTurn.own = <<>> /\ IdleTurn.recent = <<>>
    BY DEF IdleTurn
  <2>3. TurnFits(IdleTurn, sequence')
    BY <1>6, <2>2 DEF TurnFits, Reading
  <2> QED
    BY <2>1, <2>3
<1> QED
  BY <1>7, <1>8, <1>9, <1>10, <1>11, <1>12 DEF Moves

LEMMA MovesAlone == ASSUME NEW t \in Turns, Moves(t) PROVE Others(t)
BY DEF Moves, Becomes, GoesOn, Begins, Inserts, Commits, Proceeds, Pushes, Trims, Appends, Reads, IsOver

LEMMA MovesOrStays ==
  ASSUME Step, NEW u \in Turns PROVE turns'[u] = turns[u] \/ Moves(u)
<1>1. CASE Waits
  BY <1>1 DEF Waits
<1>2. ASSUME NEW t \in Turns, Moves(t) PROVE turns'[u] = turns[u] \/ Moves(u)
  BY <1>2, MovesAlone DEF Others
<1> QED
  BY <1>1, <1>2 DEF Step

LEMMA TurnsStayFit ==
  ASSUME IInv, TurnsFit, RowsFit, Step PROVE TurnsFit'
<1>1. ASSUME NEW u \in Turns PROVE TurnFits(turns'[u], sequence')
  <2>1. CASE turns'[u] = turns[u]
    BY <2>1, OwnMessages, FitsLater DEF TurnsFit, Step, Common
  <2>2. CASE Moves(u)
    BY <2>2, MoverFits DEF Step
  <2> QED
    BY <2>1, <2>2, MovesOrStays
<1> QED
  BY <1>1 DEF TurnsFit

(* A turn keeps its messages, forgets them or gains the key just handed     *)
(* out.                                                                     *)
LEMMA OwnGrows ==
  ASSUME IInv, TurnsFit, NEW t \in Turns, Moves(t)
  PROVE  \A m \in ToSet(turns'[t].own) :
           m \in ToSet(turns[t].own) \/ (sequence' = sequence + 1 /\ m = sequence + 1)
<1>1. turns[t].own \in Seq(Ids)
  BY OwnMessages
<1>2. CASE Inserts(t)
  <2>1. PICK a : a = Append(turns[t].own, sequence + 1)
    OBVIOUS
  <2>2. turns'[t].own = a
    BY <1>2, <2>1 DEF Inserts, Becomes, Fields
  <2>3. sequence' = sequence + 1 /\ sequence + 1 \in Ids
    BY <1>2 DEF Inserts
  <2>4. ToSet(a) = ToSet(turns[t].own) \cup {sequence + 1}
    BY <1>1, <2>1, <2>3, InSet
  <2> QED
    BY <2>2, <2>3, <2>4
<1>3. ASSUME turns'[t].own = <<>> PROVE ToSet(turns'[t].own) = {}
  BY <1>3 DEF ToSet
<1>4. CASE Begins(t) \/ IsOver(t)
  <2>1. CASE Begins(t)
    BY <1>3, <2>1 DEF Begins, Fields
  <2>2. CASE IsOver(t)
    BY <1>3, <2>2 DEF IsOver, IdleTurn
  <2> QED
    BY <1>4, <2>1, <2>2
<1>5. CASE Commits(t) \/ Proceeds(t) \/ Pushes(t) \/ Trims(t) \/ Appends(t) \/ Reads(t)
  <2>1. turns'[t].own = turns[t].own
    BY <1>5 DEF Commits, Proceeds, Pushes, Trims, Appends, Reads, GoesOn, Becomes, Fields
  <2> QED
    BY <2>1
<1> QED
  BY <1>2, <1>4, <1>5 DEF Moves

LEMMA OwnBelow ==
  ASSUME IInv, TurnsFit, NEW t \in Turns, NEW m \in ToSet(turns[t].own)
  PROVE  m \in Ids /\ m \in Nat /\ m <= sequence
<1>1. turns[t].own \in Seq(Ids)
  BY OwnMessages
<1>2. PICK i \in 1..Len(turns[t].own) : turns[t].own[i] = m
  BY <1>1, InSet
<1>3. m <= sequence
  BY <1>2 DEF TurnsFit, TurnFits
<1>4. m \in Ids
  BY <1>1, <1>2, ElementOfSeq
<1> QED
  BY <1>3, <1>4 DEF Ids

LEMMA OwnsStayApart ==
  ASSUME IInv, TurnsFit, OwnsApart, Step PROVE OwnsApart'
<1>1. ASSUME NEW t \in Turns, NEW u \in Turns, t # u, Moves(t)
      PROVE  Apart(turns'[t].own, turns'[u].own) /\ Apart(turns'[u].own, turns'[t].own)
  <2>1. turns'[u] = turns[u]
    BY <1>1, MovesAlone DEF Others
  <2>2. ASSUME NEW m, m \in ToSet(turns'[t].own), m \in ToSet(turns[u].own) PROVE FALSE
    <3>1. m \in Nat /\ m <= sequence /\ sequence \in Nat
      BY <2>2, OwnBelow DEF Step, Common
    <3>2. m \in ToSet(turns[t].own)
      BY <1>1, <2>2, <3>1, OwnGrows
    <3> QED
      BY <1>1, <2>2, <3>2 DEF OwnsApart, Apart
  <2> QED
    BY <2>1, <2>2 DEF Apart
<1>2. ASSUME NEW t \in Turns, NEW u \in Turns, t # u PROVE Apart(turns'[t].own, turns'[u].own)
  <2>1. CASE Moves(t) \/ Moves(u)
    BY <1>1, <1>2, <2>1
  <2>2. CASE turns'[t] = turns[t] /\ turns'[u] = turns[u]
    BY <1>2, <2>2 DEF OwnsApart
  <2> QED
    BY <2>1, <2>2, MovesOrStays
<1> QED
  BY <1>2 DEF OwnsApart

(* A turn stays in its conversation, or leaves; or it has just begun there, *)
(* and if another is there that is noted.                                   *)
LEMMA StaysThere ==
  ASSUME NEW t \in Turns, Moves(t)
  PROVE  turns'[t].conv \in {turns[t].conv, None} \/ Begins(t)
BY MoverWalks DEF Walks, SameMessages

LEMMA StaysAlone ==
  ASSUME AloneUnlessMixed, Step PROVE AloneUnlessMixed'
<1>1. ASSUME NEW t \in Turns, NEW u \in Turns, t # u, Moves(t),
             turns'[t].conv \in Convs \ hist'.mixed, turns'[u].conv = turns'[t].conv
      PROVE  FALSE
  <2>1. turns'[u] = turns[u] /\ None \notin Convs /\ hist.mixed \subseteq hist'.mixed
    BY <1>1, MovesAlone, ConversationAssumption DEF Others, ConversationAssumption, Step, Common
  <2>2. CASE turns'[t].conv = turns[t].conv
    BY <1>1, <2>1, <2>2 DEF AloneUnlessMixed
  <2>3. CASE Begins(t)
    <3>1. PICK c \in Convs : turns'[t] = Fields("insert", c, "user", <<>>, <<>>)
                           /\ ((\E v \in Turns \ {t} : turns[v].conv = c) => c \in hist'.mixed)
      BY <2>3 DEF Begins
    <3>2. turns'[t].conv = c
      BY <3>1 DEF Fields
    <3> QED
      BY <1>1, <2>1, <3>1, <3>2
  <2> QED
    BY <1>1, <2>1, <2>2, <2>3, StaysThere
<1>2. ASSUME NEW t \in Turns, NEW u \in Turns, t # u,
             turns'[t].conv \in Convs \ hist'.mixed, turns'[u].conv = turns'[t].conv
      PROVE  FALSE
  <2>1. CASE Moves(t) \/ Moves(u)
    BY <1>1, <1>2, <2>1
  <2>2. CASE turns'[t] = turns[t] /\ turns'[u] = turns[u]
    BY <1>2, <2>2 DEF AloneUnlessMixed, Step, Common
  <2> QED
    BY <2>1, <2>2, MovesOrStays
<1> QED
  BY <1>2 DEF AloneUnlessMixed

(* A row is added by the turn that commits it.                              *)
LEMMA RowsGrow ==
  ASSUME NEW c \in Convs, Step
  PROVE  \/ IdsOf(c)' \subseteq IdsOf(c) /\ (~Gone(c)' => IdsOf(c)' = IdsOf(c))
         \/ \E t \in Turns : /\ Commits(t) /\ turns[t].conv = c
                             /\ IdsOf(c)' = IdsOf(c) \cup {Message(t)}
<1>1. ASSUME NEW D, c \in D, Untouched(D)
      PROVE  IdsOf(c)' \subseteq IdsOf(c) /\ (~Gone(c)' => IdsOf(c)' = IdsOf(c))
  BY <1>1 DEF Untouched
<1>2. CASE Waits
  BY <1>1, <1>2 DEF Waits
<1>3. ASSUME NEW t \in Turns, Begins(t) \/ Inserts(t) \/ Proceeds(t) \/ Appends(t) \/ Reads(t) \/ IsOver(t)
      PROVE  Untouched(Convs)
  BY <1>3 DEF Begins, Inserts, Proceeds, Appends, Reads, IsOver
<1>4. ASSUME NEW t \in Turns, Pushes(t) \/ Trims(t)
      PROVE  IdsOf(c)' \subseteq IdsOf(c) /\ (~Gone(c)' => IdsOf(c)' = IdsOf(c))
  <2>1. PICK d \in Convs : IdsOf(d)' = IdsOf(d) /\ Untouched(Convs \ {d})
    BY <1>4 DEF Pushes, Trims
  <2> QED
    BY <1>1, <2>1
<1>5. ASSUME NEW t \in Turns, Commits(t)
      PROVE  \/ IdsOf(c)' \subseteq IdsOf(c) /\ (~Gone(c)' => IdsOf(c)' = IdsOf(c))
             \/ turns[t].conv = c /\ IdsOf(c)' = IdsOf(c) \cup {Message(t)}
  <2>1. PICK d \in Convs : /\ d = turns[t].conv /\ IdsOf(d)' = IdsOf(d) \cup {Message(t)}
                           /\ Untouched(Convs \ {d})
    BY <1>5 DEF Commits
  <2> QED
    BY <1>1, <2>1
<1> QED
  BY <1>1, <1>2, <1>3, <1>4, <1>5 DEF Step, Moves

LEMMA RowsStayFit ==
  ASSUME IInv, TurnsFit, RowsFit, Step PROVE RowsFit'
<1>1. ASSUME NEW c \in Convs PROVE IdsOf(c)' \subseteq 1..sequence'
  <2>1. IdsOf(c) \subseteq 1..sequence /\ sequence \in Nat /\ sequence' \in Nat /\ sequence <= sequence'
    BY DEF RowsFit, Step, Common
  <2>2. ASSUME NEW t \in Turns, Commits(t) PROVE Message(t) \in 1..sequence
    BY <2>1, <2>2, OwnMessages DEF Commits, Ids
  <2>3. IdsOf(c)' \subseteq 1..sequence
    BY <2>1, <2>2, RowsGrow
  <2>4. \A i \in 1..sequence : i \in 1..sequence'
    BY <2>1
  <2> QED
    BY <2>3, <2>4
<1> QED
  BY <1>1 DEF RowsFit

(* What a turn that has committed a message does next: it keeps it.         *)
LEMMA CommittedStays ==
  ASSUME NEW t \in Turns, Moves(t), turns'[t].pc \in Committed
  PROVE  /\ turns'[t].conv = turns[t].conv /\ turns'[t].own = turns[t].own
         /\ Commits(t) \/ turns[t].pc \in Committed
BY MoverWalks DEF Walks, SameMessages, Committed, AppendPcs

LEMMA StaysStored ==
  ASSUME IInv, IInv', TurnsFit, TurnsFit', MessagesStored, Step, NEW u \in Turns PROVE IsStored(u)'
<1> SUFFICES ASSUME NEW c, c = turns'[u].conv, turns'[u].pc \in Committed, ~Gone(c)'
             PROVE  Message(u)' \in IdsOf(c)'
  BY DEF IsStored, Gone
<1>1. /\ turns[u].conv = c /\ turns'[u].own = turns[u].own
      /\ turns[u].pc \in Committed \/ Commits(u)
  BY MovesOrStays, CommittedStays
<1>2. turns[u].pc # "idle"
  BY <1>1 DEF Committed, Commits
<1>3. c \in Convs
  BY <1>1, <1>2, OwnMessages
<1>4. ~Gone(c) /\ IdsOf(c) \subseteq IdsOf(c)'
  BY <1>3, RowsGrow DEF Step, Common
<1>5. Message(u)' = Message(u)
  BY <1>1 DEF Message
<1>6. CASE Commits(u)
  BY <1>1, <1>5, <1>6 DEF Commits
<1>7. CASE turns[u].pc \in Committed
  BY <1>1, <1>4, <1>5, <1>7 DEF MessagesStored, IsStored
<1> QED
  BY <1>1, <1>6, <1>7

LEMMA StaysNewest ==
  ASSUME IInv, IInv', TurnsFit, TurnsFit', AloneUnlessMixed, RowsFit, MessagesStored, Step,
         NEW u \in Turns
  PROVE  IsNewest(u)'
<1> SUFFICES ASSUME NEW c, c = turns'[u].conv, turns'[u].pc \in HasMessage, c \notin hist'.mixed,
                    ~Gone(c)', NEW i \in IdsOf(c)'
             PROVE  i <= Message(u)' /\ (turns'[u].pc = "commit" => i # Message(u)')
  BY DEF IsNewest, Gone
<1>1. CASE Inserts(u)
  <2>1. PICK a : a = Append(turns[u].own, sequence + 1)
    OBVIOUS
  <2>2. turns'[u].own = a /\ turns'[u].conv = turns[u].conv
    BY <1>1, <2>1 DEF Inserts, Becomes, Fields
  <2>3. turns[u].own \in Seq(Ids) /\ sequence + 1 \in Ids
    BY <1>1, OwnMessages DEF Inserts
  <2>4. Message(u)' = sequence + 1
    BY <2>1, <2>2, <2>3, InSet DEF Message
  <2>5. c \in Convs
    BY <1>1, <2>2, OwnMessages DEF Inserts
  <2>6. i \in 1..sequence /\ sequence \in Nat
    BY <1>1, <2>5 DEF Inserts, Untouched, RowsFit, Step, Common
  <2> QED
    BY <2>4, <2>6
<1>2. CASE ~Inserts(u)
  <2>1. /\ turns[u].conv = c /\ turns'[u].own = turns[u].own
        /\ \/ turns[u].pc = turns'[u].pc
           \/ Moves(u) /\ turns[u].pc \in HasMessage /\ turns'[u].pc # "commit"
    <3>1. CASE turns'[u] = turns[u]
      BY <3>1
    <3>2. CASE Moves(u)
      BY <1>2, <3>2, MoverWalks DEF Walks, SameMessages, HasMessage, AppendPcs
    <3> QED
      BY <3>1, <3>2, MovesOrStays
  <2>2. turns[u].pc \in HasMessage /\ Message(u)' = Message(u)
    BY <2>1 DEF Message
  <2>3. c \in Convs /\ Message(u) \in Nat
    BY <2>1, <2>2, OwnMessages DEF HasMessage, Committed, Ids
  <2>4. ~Gone(c) /\ c \notin hist.mixed
    BY <2>3 DEF Step, Common
  <2>5. \A j \in IdsOf(c) : j <= Message(u) /\ (turns[u].pc = "commit" => j # Message(u))
    BY <2>1, <2>2, <2>4 DEF MessagesStored, IsNewest
  <2>6. CASE i \in IdsOf(c)
    BY <2>1, <2>2, <2>5, <2>6
  <2>7. CASE i \notin IdsOf(c)
    <3>1. PICK t \in Turns : /\ Commits(t) /\ turns[t].conv = c
                             /\ IdsOf(c)' = IdsOf(c) \cup {Message(t)}
      BY <2>3, <2>7, RowsGrow
    <3>2. t = u
      BY <2>1, <2>3, <2>4, <3>1 DEF AloneUnlessMixed
    <3>3. turns'[u].pc = "refresh"
      BY <3>1, <3>2 DEF Commits, GoesOn, Becomes, Fields
    <3>4. i = Message(u)
      BY <2>7, <3>1, <3>2
    <3> QED
      BY <2>2, <2>3, <3>3, <3>4
  <2> QED
    BY <2>6, <2>7
<1> QED
  BY <1>1, <1>2

(* A list is appended to or trimmed by a turn of its conversation.          *)
LEMMA ListMoves ==
  ASSUME NEW c \in Convs, Step, ~Gone(c)', c \notin hist'.gaps
  PROVE  \/ cache'[c] = cache[c]
         \/ \E t \in Turns : Pushes(t) /\ turns[t].conv = c /\ cache'[c] = Append(cache[c], Message(t))
         \/ \E t \in Turns : Trims(t) /\ turns[t].conv = c /\ cache'[c] = Newest(cache[c])
<1>1. ASSUME NEW D, c \in D, Untouched(D) PROVE cache'[c] = cache[c]
  BY <1>1 DEF Untouched
<1>2. CASE Waits
  BY <1>1, <1>2 DEF Waits
<1>3. ASSUME NEW t \in Turns, Begins(t) \/ Inserts(t) \/ Proceeds(t) \/ Appends(t) \/ Reads(t) \/ IsOver(t)
      PROVE  cache'[c] = cache[c]
  BY <1>1, <1>3 DEF Begins, Inserts, Proceeds, Appends, Reads, IsOver
<1>4. ASSUME NEW t \in Turns, Pushes(t)
      PROVE  \/ cache'[c] = cache[c]
             \/ turns[t].conv = c /\ cache'[c] = Append(cache[c], Message(t))
  <2>1. PICK d \in Convs : /\ d = turns[t].conv /\ Untouched(Convs \ {d})
                           /\ cache'[d] = Append(cache[d], Message(t))
    BY <1>4 DEF Pushes
  <2> QED
    BY <1>1, <2>1
<1>5. ASSUME NEW t \in Turns, Trims(t)
      PROVE  cache'[c] = cache[c] \/ (turns[t].conv = c /\ cache'[c] = Newest(cache[c]))
  <2>1. PICK d \in Convs : /\ d = turns[t].conv /\ Untouched(Convs \ {d})
                           /\ cache'[d] = Newest(cache[d])
    BY <1>5 DEF Trims
  <2> QED
    BY <1>1, <2>1
<1>6. ASSUME NEW t \in Turns, Commits(t) PROVE cache'[c] = cache[c]
  <2>1. PICK d \in Convs : Untouched(Convs \ {d}) /\ cache'[d] = cache[d]
    BY <1>6 DEF Commits
  <2> QED
    BY <1>1, <2>1
<1> QED
  BY <1>2, <1>3, <1>4, <1>5, <1>6 DEF Step, Moves

(* Other turns do not take the last message of a turn out of its list.      *)
LEMMA ListedStays ==
  ASSUME IInv, TurnsFit, OwnsApart, Step, NEW u \in Turns, NEW c \in Convs,
         ~Gone(c)', c \notin hist'.gaps, ~Pushes(u), turns[u].own # <<>>,
         OwnListed(cache[c], turns[u].own)
  PROVE  OwnListed(cache'[c], turns[u].own)
<1>1. cache[c] \in Seq(Ids) /\ turns[u].own \in Seq(Ids)
  BY OwnMessages DEF IInv, StoresShaped
<1>2. ASSUME NEW t \in Turns, Pushes(t), cache'[c] = Append(cache[c], Message(t))
      PROVE  OwnListed(cache'[c], turns[u].own)
  <2>1. t # u
    BY <1>2
  <2>2. turns[t].own \in Seq(Ids) /\ turns[t].own # <<>> /\ Message(t) \in Ids
    BY <1>2, OwnMessages DEF Pushes, Committed
  <2>3. Message(t) \in ToSet(turns[t].own)
    BY <2>2, InSet DEF Message
  <2>4. Message(t) \notin ToSet(turns[u].own)
    BY <2>1, <2>3 DEF OwnsApart, Apart
  <2> QED
    BY <1>1, <1>2, <2>2, <2>4, ListedAfterAppend
<1>3. ASSUME cache'[c] = Newest(cache[c]) PROVE OwnListed(cache'[c], turns[u].own)
  BY <1>1, <1>3, ListedWhenTrimmed
<1> QED
  BY <1>2, <1>3, ListMoves

LEMMA StaysListed ==
  ASSUME IInv, IInv', TurnsFit, TurnsFit', OwnsApart, AnswersListed, Step, NEW u \in Turns
  PROVE  IsListed(u)'
<1> SUFFICES ASSUME NEW c, c = turns'[u].conv, turns'[u].pc \in Listed, ~Gone(c)', c \notin hist'.gaps
             PROVE  OwnListed(cache'[c], turns'[u].own)
  <2>1. IsListed(u)' = (turns'[u].pc \in Listed /\ ~Gone(turns[u].conv)' /\ turns'[u].conv \notin hist'.gaps
                          => OwnListed(cache'[turns'[u].conv], turns'[u].own))
    BY DEF IsListed, OwnListed
  <2> QED
    BY <2>1 DEF Gone
<1>1. /\ turns[u].conv = c /\ turns'[u].own = turns[u].own
      /\ turns[u].pc \in Committed \/ Commits(u)
  BY MovesOrStays, CommittedStays DEF Listed, Committed
<1>2. turns[u].pc \in Committed \cup {"commit"}
  BY <1>1 DEF Commits
<1>3. c \in Convs /\ turns[u].own # <<>> /\ turns[u].own \in Seq(Ids) /\ Message(u) \in Ids
  BY <1>1, <1>2, OwnMessages DEF Committed
<1>4. ~Gone(c) /\ c \notin hist.gaps /\ cache[c] \in Seq(Ids)
  BY <1>3 DEF Step, Common, IInv, StoresShaped
<1>5. CASE Pushes(u)
  <2>1. cache'[c] = Append(cache[c], Message(u))
    BY <1>1, <1>5 DEF Pushes
  <2> QED
    BY <1>1, <1>3, <1>4, <2>1, ListedAfterAppend DEF Message
<1>6. CASE ~Pushes(u)
  <2>1. turns[u].pc \in Listed
    <3>1. CASE turns'[u] = turns[u]
      BY <3>1
    <3>2. CASE Moves(u)
      BY <1>1, <1>2, <1>6, <3>2, MoverWalks DEF Walks, Listed, Committed, AppendPcs
    <3> QED
      BY <3>1, <3>2, MovesOrStays
  <2>2. OwnListed(cache[c], turns[u].own)
    BY <1>1, <1>4, <2>1 DEF AnswersListed, IsListed
  <2> QED
    BY <1>1, <1>3, <1>6, <2>2, ListedStays
<1> QED
  BY <1>5, <1>6

LEMMA StaysRecalled ==
  ASSUME IInv, IInv', TurnsFit, TurnsFit', RowsFit, MessagesStored, AnswersListed, AnswersRecalled, Step,
         NEW u \in Turns
  PROVE  IsRecalled(u)'
<1> SUFFICES ASSUME NEW c, c = turns'[u].conv, turns'[u].pc = "memory", ~Gone(c)', c \notin hist'.gaps
             PROVE  Recalls(turns'[u].recent, turns'[u].own)
  BY DEF IsRecalled, Gone, Recalls
<1>1. c \in Convs
  BY OwnMessages DEF IInv, TurnsShaped, TurnShape, Working, TurnPcs
<1>2. ~Gone(c) /\ c \notin hist.gaps
  BY <1>1 DEF Step, Common
<1>3. CASE turns'[u] = turns[u]
  BY <1>2, <1>3 DEF AnswersRecalled, IsRecalled
<1>4. CASE Reads(u)
  <2>1. PICK l : /\ turns'[u] = Fields("memory", turns[u].conv, turns[u].role, turns[u].own, l)
                 /\ \/ turns[u].pc = "lrange" /\ l = Newest(cache[turns[u].conv])
                    \/ turns[u].pc = "select" /\ l = Newest(Stored(turns[u].conv))
    BY <1>4 DEF Reads, Becomes
  <2>2. turns[u].conv = c /\ turns'[u].own = turns[u].own /\ turns'[u].recent = l
    BY <2>1 DEF Fields
  <2>3. turns[u].own \in Seq(Ids) /\ turns[u].own # <<>>
    BY <2>1, OwnMessages DEF Committed
  <2>4. CASE turns[u].pc = "lrange" /\ l = Newest(cache[c])
    <3>1. OwnListed(cache[c], turns[u].own) /\ cache[c] \in Seq(Ids)
      BY <1>1, <1>2, <2>2, <2>4 DEF AnswersListed, IsListed, Listed, IInv, StoresShaped
    <3>2. l \in Seq(Ids) /\ Len(l) <= Limit /\ OwnListed(l, turns[u].own)
      BY <2>3, <2>4, <3>1, NewestFits, ListedWhenTrimmed
    <3> QED
      BY <2>2, <2>3, <3>2, ListedIsRecalled
  <2>5. CASE turns[u].pc = "select" /\ l = Newest(Stored(c))
    <3>1. Last(turns[u].own) \in IdsOf(c) /\ IdsOf(c) \in SUBSET Ids
      BY <1>1, <1>2, <2>2, <2>5, RowsAreIds DEF MessagesStored, IsStored, Committed, Message
    <3>2. \A i \in 1..Len(turns[u].own) : turns[u].own[i] <= Last(turns[u].own)
      BY DEF TurnsFit, TurnFits
    <3>3. Stored(c) \in Seq(Ids) /\ OwnListed(Stored(c), turns[u].own)
      BY <2>3, <3>1, <3>2, ListedInTable DEF Stored
    <3>4. l \in Seq(Ids) /\ Len(l) <= Limit /\ OwnListed(l, turns[u].own)
      BY <2>3, <2>5, <3>3, NewestFits, ListedWhenTrimmed
    <3> QED
      BY <2>2, <2>3, <3>4, ListedIsRecalled
  <2> QED
    BY <2>1, <2>2, <2>4, <2>5
<1>5. turns'[u] = turns[u] \/ Reads(u)
  BY MovesOrStays, MoverWalks DEF Walks
<1> QED
  BY <1>3, <1>4, <1>5

-----------------------------------------------------------------------------
(* The list of a conversation whose turns do not overlap                    *)

(* A step of a turn of another conversation leaves it alone.                *)
LEMMA OtherTurns ==
  ASSUME NEW c \in Convs, NEW t \in Turns, Moves(t), turns[t].conv # c, ~Gone(c)', c \notin hist'.gaps
  PROVE  IdsOf(c)' = IdsOf(c) /\ cache'[c] = cache[c]
<1>1. ASSUME NEW D, c \in D, Untouched(D) PROVE IdsOf(c)' = IdsOf(c) /\ cache'[c] = cache[c]
  BY <1>1 DEF Untouched
<1>2. CASE Begins(t) \/ Inserts(t) \/ Proceeds(t) \/ Appends(t) \/ Reads(t) \/ IsOver(t)
  BY <1>1, <1>2 DEF Begins, Inserts, Proceeds, Appends, Reads, IsOver
<1>3. CASE Commits(t) \/ Pushes(t) \/ Trims(t)
  <2>1. PICK d \in Convs : d = turns[t].conv /\ Untouched(Convs \ {d})
    BY <1>3 DEF Commits, Pushes, Trims
  <2> QED
    BY <1>1, <2>1
<1> QED
  BY <1>2, <1>3 DEF Moves

LEMMA CommitHolds ==
  ASSUME IInv, TurnsFit, MessagesStored, NEW c \in Convs, NEW t \in Turns, Commits(t), turns[t].conv = c,
         c \notin hist.mixed, ~Gone(c), Holds(cache[c], IdsOf(c))
  PROVE  Holds(cache'[c], IdsOf(c)' \ {Message(t)})
<1>1. IdsOf(c)' = IdsOf(c) \cup {Message(t)} /\ cache'[c] = cache[c]
  BY DEF Commits
<1>2. Message(t) \notin IdsOf(c)
  BY DEF MessagesStored, IsNewest, Commits, HasMessage
<1>3. IdsOf(c)' \ {Message(t)} = IdsOf(c)
  BY <1>1, <1>2
<1> QED
  BY <1>1, <1>3

LEMMA PushHolds ==
  ASSUME IInv, TurnsFit, RowsFit, MessagesStored, NEW c \in Convs, NEW t \in Turns, Pushes(t),
         turns[t].conv = c, c \notin hist.mixed, ~Gone(c), Holds(cache[c], IdsOf(c) \ {Message(t)})
  PROVE  Holds(cache'[c], IdsOf(c)')
<1>1. IdsOf(c)' = IdsOf(c) /\ cache'[c] = Append(cache[c], Message(t)) /\ turns[t].pc = "rpush"
  BY DEF Pushes
<1>2. PICK m \in Ids : m = Message(t)
  BY <1>1, OwnMessages DEF Committed
<1>3. PICK S : S = IdsOf(c) \ {m}
  OBVIOUS
<1>4. m \in IdsOf(c) /\ \A i \in IdsOf(c) : i <= m
  BY <1>1, <1>2 DEF MessagesStored, IsStored, IsNewest, Committed, HasMessage
<1>5. IdsOf(c) \in SUBSET Ids /\ IdsOf(c) \in SUBSET Nat /\ IsFiniteSet(IdsOf(c)) /\ m \in Nat
  BY <1>2, RowsAreIds DEF Ids
<1>6. /\ S \in SUBSET Nat /\ S \in SUBSET Ids /\ IsFiniteSet(S)
      /\ IdsOf(c) = S \cup {m} /\ \A x \in S : x < m
  <2>1. IsFiniteSet(S) /\ S \in SUBSET IdsOf(c)
    BY <1>3, <1>5, FS_Subset
  <2>2. IdsOf(c) = S \cup {m}
    BY <1>3, <1>4
  <2>3. ASSUME NEW x \in S PROVE x < m
    <3>1. x \in IdsOf(c) /\ x # m
      BY <1>3
    <3>2. x \in Nat /\ x <= m
      BY <1>4, <1>5, <3>1
    <3> QED
      BY <1>5, <3>1, <3>2
  <2> QED
    BY <1>5, <2>1, <2>2, <2>3
<1>7. Ascending(IdsOf(c)) = Append(Ascending(S), m)
  BY <1>5, <1>6, AscendingGrows
<1>8. Ascending(S) \in Seq(Ids) /\ cache[c] \in Seq(Ids)
  <2>1. Ascending(S) \in Seq(S)
    BY <1>6, AscendingIsSorted
  <2> QED
    BY <1>6, <2>1, SeqMonotonic DEF IInv, StoresShaped
<1>9. Newest(cache[c]) = Newest(Ascending(S))
  BY <1>2, <1>3 DEF Holds
<1>10. Newest(Append(cache[c], m)) = Newest(Append(Ascending(S), m))
  BY <1>8, <1>9, NewestAfterAppend, ConversationAssumption
<1> QED
  BY <1>1, <1>2, <1>7, <1>10 DEF Holds

LEMMA TrimHolds ==
  ASSUME IInv, NEW c \in Convs, NEW t \in Turns, Trims(t), turns[t].conv = c, Holds(cache[c], IdsOf(c))
  PROVE  Holds(cache'[c], IdsOf(c)')
<1>1. IdsOf(c)' = IdsOf(c) /\ cache'[c] = Newest(cache[c]) /\ cache[c] \in Seq(Ids)
  BY DEF Trims, IInv, StoresShaped
<1> QED
  BY <1>1, NewestIsNewest, ConversationAssumption DEF Holds

(* In primed form, for a conversation with at most one turn.                *)
LEMMA SoleTurn ==
  ASSUME NEW c \in Convs, NEW t \in Turns, \A u \in Turns \ {t} : turns'[u].conv # c,
         turns'[t].conv # c \/ turns'[t].pc \notin Pending => Holds(cache'[c], IdsOf(c)'),
         turns'[t].conv = c /\ turns'[t].pc \in Pending => Holds(cache'[c], IdsOf(c)' \ {Message(t)'})
  PROVE  ListComplete(c)'
BY DEF ListComplete, Holds

LEMMA StaysComplete ==
  ASSUME IInv, IInv', TurnsFit, TurnsFit', RowsFit, AloneUnlessMixed, AloneUnlessMixed', MessagesStored,
         ListsComplete, Step,
         NEW c \in Convs, c \notin hist'.gaps \cup hist'.mixed, ~Gone(c)'
  PROVE  ListComplete(c)'
<1>1. ListComplete(c) /\ ~Gone(c) /\ c \notin hist.mixed
  BY DEF ListsComplete, Step, Common
<1>2. CASE Waits
  <2>1. IdsOf(c)' = IdsOf(c) /\ cache'[c] = cache[c] /\ \A u \in Turns : turns'[u] = turns[u]
    BY <1>2 DEF Waits, Untouched
  <2>2. \A u \in Turns : Message(u)' = Message(u)
    BY <2>1 DEF Message
  <2> QED
    BY <1>1, <2>1, <2>2 DEF ListComplete, Holds
<1>3. ASSUME NEW t \in Turns, Moves(t), turns[t].conv # c, turns'[t].conv # c PROVE ListComplete(c)'
  <2>1. IdsOf(c)' = IdsOf(c) /\ cache'[c] = cache[c] /\ \A u \in Turns \ {t} : turns'[u] = turns[u]
    BY <1>3, OtherTurns, MovesAlone DEF Others
  <2>2. \A u \in Turns \ {t} : Message(u)' = Message(u)
    BY <2>1 DEF Message
  <2> QED
    BY <1>1, <1>3, <2>1, <2>2 DEF ListComplete, Holds
<1>4. ASSUME NEW t \in Turns, Moves(t), turns[t].conv = c PROVE ListComplete(c)'
  <2>1. \A u \in Turns \ {t} : turns[u].conv # c /\ turns'[u].conv # c
    BY <1>1, <1>4, MovesAlone DEF AloneUnlessMixed, Others
  <2>2. /\ turns[t].pc \notin Pending => Holds(cache[c], IdsOf(c))
        /\ turns[t].pc \in Pending => Holds(cache[c], IdsOf(c) \ {Message(t)})
    BY <1>1, <1>4, <2>1 DEF ListComplete
  <2>3. turns'[t].own = turns[t].own => Message(t)' = Message(t)
    BY DEF Message
  <2>4. ASSUME Untouched(Convs) PROVE IdsOf(c)' = IdsOf(c) /\ cache'[c] = cache[c]
    BY <2>4 DEF Untouched
  <2>5. CASE Commits(t)
    <3>1. Holds(cache'[c], IdsOf(c)' \ {Message(t)}) /\ Walks(t, "commit", "refresh")
      <4>1. Walks(t, "commit", "refresh")
        BY <2>5, StoreWalks
      <4> QED
        BY <1>1, <1>4, <2>2, <2>5, <4>1, CommitHolds DEF Walks, Pending
    <3> QED
      BY <1>4, <2>1, <2>3, <3>1, SoleTurn DEF Walks, SameMessages, Pending
  <2>6. CASE Pushes(t)
    <3>1. Walks(t, "rpush", "ltrim")
      BY <2>6, StoreWalks
    <3>2. Holds(cache'[c], IdsOf(c)')
      BY <1>1, <1>4, <2>2, <2>6, <3>1, PushHolds DEF Walks, Pending
    <3> QED
      BY <2>1, <3>1, <3>2, SoleTurn DEF Walks, Pending
  <2>7. CASE Trims(t)
    <3>1. Walks(t, "ltrim", "expire")
      BY <2>7, StoreWalks
    <3>2. Holds(cache'[c], IdsOf(c)')
      BY <1>4, <2>2, <2>7, <3>1, TrimHolds DEF Walks, Pending
    <3> QED
      BY <2>1, <3>1, <3>2, SoleTurn DEF Walks, Pending
  <2>8. CASE Untouched(Convs) /\ ~Commits(t) /\ ~Pushes(t) /\ ~Trims(t)
    <3>1. turns'[t].pc \in Pending => turns[t].pc \in Pending /\ SameMessages(t)
      BY <1>4, <2>8, MoverWalks DEF Walks, Pending
    <3>2. turns[t].pc \in Pending => turns'[t].pc \in Pending /\ SameMessages(t)
      <4>1. CASE IsOver(t)
        BY <1>4, <4>1 DEF IsOver
      <4>2. CASE Begins(t) \/ Inserts(t)
        BY <4>2 DEF Begins, Inserts, Pending
      <4> QED
        BY <1>4, <2>8, <4>1, <4>2, MoverWalks DEF Walks, Pending, AppendPcs
    <3>3. turns[t].pc \in Pending => Message(t)' = Message(t) /\ turns'[t].conv = c
      BY <1>4, <2>3, <3>2 DEF SameMessages
    <3>4. IdsOf(c)' = IdsOf(c) /\ cache'[c] = cache[c]
      BY <2>4, <2>8
    <3>5. turns'[t].conv # c \/ turns'[t].pc \notin Pending => Holds(cache'[c], IdsOf(c)')
      BY <2>2, <3>2, <3>3, <3>4
    <3>6. turns'[t].conv = c /\ turns'[t].pc \in Pending => Holds(cache'[c], IdsOf(c)' \ {Message(t)'})
      BY <2>2, <3>1, <3>3, <3>4
    <3> QED
      BY <2>1, <3>5, <3>6, SoleTurn
  <2>9. Untouched(Convs) \/ Commits(t) \/ Pushes(t) \/ Trims(t)
    BY <1>4 DEF Moves, Begins, Inserts, Proceeds, Appends, Reads, IsOver
  <2> QED
    BY <2>5, <2>6, <2>7, <2>8, <2>9
<1>5. ASSUME NEW t \in Turns, Moves(t), turns[t].conv # c, turns'[t].conv = c PROVE ListComplete(c)'
  <2>1. turns'[t].pc = "insert"
    BY <1>5, ConversationAssumption, MoverWalks DEF Walks, SameMessages, ConversationAssumption
  <2>2. \A u \in Turns \ {t} : turns'[u].conv # c /\ turns[u].conv # c
    BY <1>5, MovesAlone DEF AloneUnlessMixed, Others
  <2>3. Holds(cache[c], IdsOf(c))
    BY <1>1, <1>5, <2>2 DEF ListComplete
  <2>4. IdsOf(c)' = IdsOf(c) /\ cache'[c] = cache[c]
    BY <1>5, OtherTurns
  <2> QED
    BY <2>1, <2>2, <2>3, <2>4, SoleTurn DEF Pending
<1> QED
  BY <1>2, <1>3, <1>4, <1>5 DEF Step

-----------------------------------------------------------------------------

LEMMA ContextsStay ==
  ASSUME IInv, ContextInv, [Next]_vars PROVE ContextInv'
<1>1. IInv' /\ Step /\ UncachedIsGone'
  BY NextKeeps, StepKinds, ConversationAssumption DEF ContextInv, Step
<1>2. /\ TurnsFit /\ OwnsApart /\ AloneUnlessMixed /\ RowsFit
      /\ MessagesStored /\ AnswersListed /\ AnswersRecalled /\ ListsComplete
  BY DEF ContextInv
<1>3. TurnsFit'
  BY <1>1, <1>2, TurnsStayFit
<1>4. OwnsApart' /\ AloneUnlessMixed' /\ RowsFit'
  BY <1>1, <1>2, OwnsStayApart, StaysAlone, RowsStayFit
<1>5. MessagesStored'
  <2>1. \A u \in Turns : IsStored(u)' /\ IsNewest(u)'
    BY <1>1, <1>2, <1>3, StaysStored, StaysNewest
  <2> QED
    BY <2>1 DEF MessagesStored
<1>6. AnswersListed'
  <2>1. \A u \in Turns : IsListed(u)'
    BY <1>1, <1>2, <1>3, StaysListed
  <2> QED
    BY <2>1 DEF AnswersListed
<1>7. AnswersRecalled'
  <2>1. \A u \in Turns : IsRecalled(u)'
    BY <1>1, <1>2, <1>3, StaysRecalled
  <2> QED
    BY <2>1 DEF AnswersRecalled
<1>8. ListsComplete'
  <2>1. \A c \in Convs : c \notin hist'.gaps \cup hist'.mixed /\ ~Gone(c)' => ListComplete(c)'
    BY <1>1, <1>2, <1>3, <1>4, StaysComplete
  <2> QED
    BY <2>1 DEF ListsComplete
<1> QED
  BY <1>1, <1>3, <1>4, <1>5, <1>6, <1>7, <1>8 DEF ContextInv

LEMMA ContextsBegin == ASSUME Init PROVE ContextInv
<1>1. \A t \in Turns : turns[t] = IdleTurn
  BY DEF Init
<1>2. IdleTurn.pc = "idle" /\ IdleTurn.conv = None /\ IdleTurn.role = "user"
      /\ IdleTurn.own = <<>> /\ IdleTurn.recent = <<>>
  BY DEF IdleTurn
<1>3. <<>> \in Seq(Ids) /\ Len(<<>>) = 0 /\ 0 <= Limit /\ ToSet(<<>>) = {} /\ None \notin Convs
  BY EmptySeq, ConversationAssumption DEF ConversationAssumption, ToSet
<1>4. TurnsFit
  <2>1. TurnFits(IdleTurn, sequence)
    BY <1>2, <1>3 DEF TurnFits, Reading
  <2> QED
    BY <1>1, <2>1 DEF TurnsFit
<1>5. OwnsApart /\ AloneUnlessMixed
  BY <1>1, <1>2, <1>3 DEF OwnsApart, Apart, AloneUnlessMixed
<1>6. UncachedIsGone
  BY DEF Init, UncachedIsGone
<1>7. \A c \in Convs : IdsOf(c) = {}
  BY DEF Init, IdsOf
<1>8. RowsFit /\ MessagesStored /\ AnswersListed /\ AnswersRecalled
  BY <1>1, <1>2, <1>7
     DEF RowsFit, MessagesStored, IsStored, IsNewest, AnswersListed, IsListed, AnswersRecalled,
         IsRecalled, Committed, HasMessage, Listed
<1>9. ASSUME NEW c \in Convs PROVE ListComplete(c)
  <2>1. Ascending({}) = <<>>
    <3>1. IsFiniteSet({}) /\ Cardinality({}) = 0 /\ {} \in SUBSET Nat
      BY FS_EmptySet
    <3>2. Ascending({}) \in Seq({}) /\ Len(Ascending({})) = 0
      BY <3>1, AscendingIsSorted
    <3> QED
      BY <3>2, EmptySeq
  <2>2. cache[c] = <<>> /\ \A t \in Turns : turns[t].conv # c
    BY <1>1, <1>2, <1>3 DEF Init
  <2> QED
    BY <1>7, <2>1, <2>2 DEF ListComplete, Holds
<1> QED
  BY <1>4, <1>5, <1>6, <1>8, <1>9 DEF ContextInv, ListsComplete

LEMMA ContextsInductive == Spec => [](IInv /\ ContextInv)
<1>1. Init => IInv /\ ContextInv
  BY Initially, ContextsBegin, ConversationAssumption
<1>2. IInv /\ ContextInv /\ [Next]_vars => (IInv /\ ContextInv)'
  BY NextKeeps, ContextsStay, ConversationAssumption
<1> QED
  BY <1>1, <1>2, PTL DEF Spec

(* OwnAnswerIsRecent: a turn finds its own answer in its context, however   *)
(* many turns append to the list at once and in whatever order.             *)
THEOREM AnswersAreRecent == Spec => []OwnAnswerIsRecent
<1>1. ContextInv => OwnAnswerIsRecent
  BY DEF ContextInv, AnswersRecalled, IsRecalled, Recalls, Gone, OwnAnswerIsRecent, At, Live, Message
<1> QED
  BY <1>1, ContextsInductive, PTL

(* RecentIsComplete: where turns do not overlap and no append was lost, the *)
(* context is the last messages of the table, also when it is read from the *)
(* list, whatever the limit and however many messages came before.          *)
THEOREM ContextsAreComplete == Spec => RecentIsComplete
<1> DEFINE Complete ==
      \A t \in Turns :
        LET c == turns[t].conv IN
        /\ Lrange(t) \/ Select(t)
        /\ turns'[t].pc = "memory" /\ Live(t) /\ c \notin hist.gaps \cup hist.mixed
        => turns'[t].recent = Newest(Stored(c))
<1>1. ASSUME IInv, ContextInv, [Next]_vars PROVE Complete
  <2> SUFFICES ASSUME NEW t \in Turns, Lrange(t) \/ Select(t), turns'[t].pc = "memory", Live(t),
                      turns[t].conv \notin hist.gaps \cup hist.mixed
               PROVE  turns'[t].recent = Newest(Stored(turns[t].conv))
    OBVIOUS
  <2>1. Reads(t) \/ Proceeds(t)
    BY <1>1, ReadIsKind
  <2>2. Reads(t)
    BY <1>1, <2>1, MoverWalks DEF Walks, Proceeds, GoesOn, Becomes, Fields
  <2>3. PICK l : /\ turns'[t] = Fields("memory", turns[t].conv, turns[t].role, turns[t].own, l)
                 /\ \/ turns[t].pc = "lrange" /\ l = Newest(cache[turns[t].conv])
                    \/ turns[t].pc = "select" /\ l = Newest(Stored(turns[t].conv))
    BY <2>2 DEF Reads, Becomes
  <2>4. turns'[t].recent = l
    BY <2>3 DEF Fields
  <2>5. CASE turns[t].pc = "lrange" /\ l = Newest(cache[turns[t].conv])
    <3>1. PICK c \in Convs : c = turns[t].conv
      BY <1>1, <2>5, OwnMessages DEF ContextInv
    <3>2. ListComplete(c)
      BY <1>1, <3>1 DEF ContextInv, ListsComplete, Live, Gone
    <3>3. \A u \in Turns : turns[u].conv = c => u = t
      BY <1>1, <3>1 DEF ContextInv, AloneUnlessMixed
    <3>4. \A u \in Turns : turns[u].conv = c => turns[u].pc \notin Pending
      BY <2>5, <3>3 DEF Pending
    <3>5. Newest(cache[c]) = Newest(Stored(c))
      BY <3>2, <3>4 DEF ListComplete, Holds, Stored
    <3> QED
      BY <2>4, <2>5, <3>1, <3>5
  <2> QED
    BY <2>3, <2>4, <2>5
<1>2. IInv /\ ContextInv /\ [Next]_vars => [Complete]_vars
  BY <1>1
<1> QED
  BY <1>2, ContextsInductive, PTL DEF Spec, RecentIsComplete

(* TypeOK: a turn inserts two messages at most, and its context is never    *)
(* longer than the limit.                                                   *)
StoresTyped == messages \subseteq Rows /\ expires \subseteq Convs

LEMMA StoresStayTyped ==
  ASSUME IInv, ContextInv, StoresTyped, [Next]_vars PROVE StoresTyped'
<1>1. ASSUME NEW t \in Turns, Turn(t) PROVE StoresTyped'
  <2>1. CASE Commit(t)
    <3>1. PICK row : row = [id |-> Message(t), conv |-> turns[t].conv]
      OBVIOUS
    <3>2. Message(t) \in Ids /\ turns[t].conv \in Convs
      BY <2>1, OwnMessages DEF Commit, At, ContextInv
    <3>3. row \in Rows
      BY <3>1, <3>2 DEF Rows
    <3> QED
      BY <2>1, <3>1, <3>3 DEF Commit, StoresTyped
  <2>2. CASE Expire(t)
    <3>1. turns[t].conv \in Convs
      BY <2>2, OwnMessages DEF Expire, At, ContextInv
    <3> QED
      BY <2>2, <3>1 DEF Expire, StoresTyped
  <2>3. CASE ~Commit(t) /\ ~Expire(t)
    <3>1. UNCHANGED <<messages, expires>>
      BY <1>1, <2>3 DEF Turn, AddMessage, Begin, Insert, Refresh, Rpush, Ltrim, AppendFails, Get,
                        Lrange, LrangeFails, Select, Remember, TurnEnds
    <3> QED
      BY <3>1 DEF StoresTyped
  <2> QED
    BY <2>1, <2>2, <2>3
<1>2. CASE (\E c \in Convs : BeginDeletion(c) \/ KeyExpires(c))
             \/ DeleteRows \/ DeleteList \/ DeletionEnds \/ UNCHANGED vars
  <2>1. messages' \subseteq messages /\ expires' \subseteq expires
    BY <1>2 DEF BeginDeletion, KeyExpires, DeleteRows, DeleteList, DeletionEnds, Drop, vars
  <2> QED
    BY <2>1 DEF StoresTyped
<1> QED
  BY <1>1, <1>2 DEF Next

LEMMA ShapesAreTypes == ASSUME IInv, ContextInv, StoresTyped PROVE TypeOK
<1>1. ASSUME NEW t \in Turns
      PROVE  /\ turns[t] \in [pc : TurnPcs, conv : Convs \cup {None}, role : {"user", "assistant"},
                              own : Seq(Ids), recent : Seq(Ids)]
             /\ Len(turns[t].own) <= 2 /\ Len(turns[t].recent) <= Limit
  <2>1. PICK r : r = turns[t]
    OBVIOUS
  <2>2. TurnShape(r) /\ TurnFits(r, sequence)
    BY <2>1 DEF IInv, TurnsShaped, ContextInv, TurnsFit
  <2>3. r = Fields(r.pc, r.conv, r.role, r.own, r.recent)
    BY <2>2 DEF TurnShape
  <2>4. /\ r.pc \in TurnPcs /\ r.conv \in Convs \cup {None} /\ r.role \in {"user", "assistant"}
        /\ r.own \in Seq(Ids) /\ r.recent \in Seq(Ids) /\ Len(r.recent) <= Limit
    BY <2>2 DEF TurnShape, TurnFits, Working
  <2>5. Len(r.own) <= 2
    <3>1. CASE r.pc = "idle"
      <4>1. r.own = <<>>
        BY <2>2, <3>1 DEF TurnFits
      <4>2. Len(r.own) = 0
        BY <4>1
      <4> QED
        BY <4>2
    <3>2. CASE r.pc # "idle"
      <4>1. Len(r.own) = Inserted(r.pc, r.role)
        BY <2>2, <3>2 DEF TurnFits
      <4>2. Inserted(r.pc, r.role) \in {0, 1, 2}
        BY DEF Inserted
      <4> QED
        BY <4>1, <4>2
    <3> QED
      BY <3>1, <3>2
  <2>6. r \in [pc : TurnPcs, conv : Convs \cup {None}, role : {"user", "assistant"},
               own : Seq(Ids), recent : Seq(Ids)]
    BY <2>3, <2>4 DEF Fields
  <2> QED
    BY <2>1, <2>4, <2>5, <2>6
<1>2. turns \in [Turns -> [pc : TurnPcs, conv : Convs \cup {None}, role : {"user", "assistant"},
                           own : Seq(Ids), recent : Seq(Ids)]]
  <2>1. turns = [t \in Turns |-> turns[t]]
    BY DEF IInv, TurnsShaped
  <2> QED
    BY <1>1, <2>1
<1> QED
  BY <1>1, <1>2 DEF IInv, StoresShaped, StoresTyped, TypeOK, ConvStates, HistRecords, Deletions

THEOREM ConversationTypes == Spec => []TypeOK
<1>1. Init => StoresTyped
  BY DEF Init, StoresTyped
<1>2. IInv /\ ContextInv /\ StoresTyped /\ [Next]_vars => StoresTyped'
  BY StoresStayTyped
<1>3. IInv /\ ContextInv /\ StoresTyped => TypeOK
  BY ShapesAreTypes
<1> QED
  BY <1>1, <1>2, <1>3, ContextsInductive, PTL DEF Spec
=============================================================================
