---------------------- MODULE SpeechlyResponsesProofs ----------------------
(* Theorems about SpeechlyResponses, for any contexts, segments and entity *)
(* types, any number of messages and of reads per Tick.                    *)
EXTENDS SpeechlyResponses, SequenceTheorems, TLAPS

(***************************************************************************)
(* Messages and responses.                                                 *)
(***************************************************************************)
LEMMA MessageTypes ==
  ASSUME NEW m \in Messages
  PROVE  /\ m.n \in Numbers /\ m.context \in Contexts
         /\ OnSegment(m) => KeyOfMessage(m) \in Keys
         /\ m.kind = "entity" => m.type \in EntityTypes
BY DEF Messages, OnSegment, KeyOfMessage, Keys

LEMMA PutIsFunction ==
  ASSUME NEW map, NEW key, NEW value
  PROVE  /\ DOMAIN Put(map, key, value) = DOMAIN map \union {key}
         /\ Put(map, key, value)[key] = value
         /\ \A k \in DOMAIN map : k # key => Put(map, key, value)[k] = map[k]
BY DEF Put

(* A message about something else changes nothing.                         *)
LEMMA AmountsToOther ==
  ASSUME NEW messages, NEW m, NEW key, NEW r,
         ~(OnSegment(m) /\ KeyOfMessage(m) = key),
         ~(m.kind = "finished" /\ m.context = key[1])
  PROVE  /\ AmountsTo(messages \union {m}, key, r) <=> AmountsTo(messages, key, r)
         /\ Mentioned(messages \union {m}, key) <=> Mentioned(messages, key)
<1>1. \A kind \in {"transcript", "entity", "intent", "segment_end"} :
          About(messages \union {m}, key, kind) = About(messages, key, kind)
  BY DEF About, OnSegment
<1>2. Finished(messages \union {m}, key[1]) <=> Finished(messages, key[1])
  BY DEF Finished
<1> QED BY <1>1, <1>2 DEF AmountsTo, Ended, Mentioned

(* What no message mentions amounts to nothing.                            *)
LEMMA AmountsToNothing ==
  ASSUME NEW messages, NEW key, ~Mentioned(messages, key),
         ~Finished(messages, key[1])
  PROVE  AmountsTo(messages, key, Nothing)
<1>1. \A kind \in {"transcript", "entity", "intent", "segment_end"} :
          About(messages, key, kind) = {}
  BY DEF About, Mentioned, OnSegment
<1> QED BY <1>1 DEF AmountsTo, IsTranscript, AreEntities, IsIntent, Ended,
          Nothing, None

(* A response has its four fields.                                         *)
LEMMA ResultFields ==
  ASSUME NEW r \in Results
  PROVE  \E A, B, C, D :
           r \in [Transcript : A, Entities : B, Intent : C, bIsFinal : D]
<1> DEFINE A == Seq(Numbers)
           B == UNION {[T -> Numbers] : T \in SUBSET EntityTypes}
           C == Numbers \union {None}
<1>1. r \in [Transcript : A, Entities : B, Intent : C, bIsFinal : BOOLEAN]
  BY DEF Results
<1> HIDE DEF A, B, C
<1> QED BY <1>1

(* Storing in one field of a response leaves the other fields alone.       *)
LEMMA ResultUpdate ==
  ASSUME NEW r \in Results, NEW v
  PROVE  /\ /\ [r EXCEPT !.Transcript = v].Transcript = v
            /\ [r EXCEPT !.Transcript = v].Entities = r.Entities
            /\ [r EXCEPT !.Transcript = v].Intent = r.Intent
            /\ [r EXCEPT !.Transcript = v].bIsFinal = r.bIsFinal
         /\ /\ [r EXCEPT !.Entities = v].Transcript = r.Transcript
            /\ [r EXCEPT !.Entities = v].Entities = v
            /\ [r EXCEPT !.Entities = v].Intent = r.Intent
            /\ [r EXCEPT !.Entities = v].bIsFinal = r.bIsFinal
         /\ /\ [r EXCEPT !.Intent = v].Transcript = r.Transcript
            /\ [r EXCEPT !.Intent = v].Entities = r.Entities
            /\ [r EXCEPT !.Intent = v].Intent = v
            /\ [r EXCEPT !.Intent = v].bIsFinal = r.bIsFinal
         /\ /\ [r EXCEPT !.bIsFinal = v].Transcript = r.Transcript
            /\ [r EXCEPT !.bIsFinal = v].Entities = r.Entities
            /\ [r EXCEPT !.bIsFinal = v].Intent = r.Intent
            /\ [r EXCEPT !.bIsFinal = v].bIsFinal = v
<1>1. PICK A, B, C, D :
        r \in [Transcript : A, Entities : B, Intent : C, bIsFinal : D]
  BY ResultFields
<1> QED BY ONLY <1>1

LEMMA AmountsToTranscript ==
  ASSUME NEW messages \in SUBSET Messages, NEW m \in Messages,
         m.kind = "transcript", \A x \in messages : x.n < m.n,
         NEW r \in Results, AmountsTo(messages, KeyOfMessage(m), r)
  PROVE  AmountsTo(messages \union {m}, KeyOfMessage(m),
                   [r EXCEPT !.Transcript = Append(@, m.n)])
<1> DEFINE key == KeyOfMessage(m)
           all == messages \union {m}
           t   == r.Transcript
           new == Append(t, m.n)
<1>1. /\ About(all, key, "transcript") = About(messages, key, "transcript") \union {m}
      /\ \A kind \in {"entity", "intent", "segment_end"} :
             About(all, key, kind) = About(messages, key, kind)
  BY DEF About
<1>2. Finished(all, key[1]) <=> Finished(messages, key[1])
  BY DEF Finished
<1>3. t \in Seq(Numbers) /\ m.n \in Numbers /\ m.n \in Nat /\ \A i \in DOMAIN t : t[i] \in Nat
  BY MessageTypes, ResponsesAssumption DEF Results, Numbers
<1>4. /\ DOMAIN new = DOMAIN t \union {Len(t) + 1} /\ Len(t) + 1 \notin DOMAIN t
      /\ \A i \in DOMAIN t : new[i] = t[i]
      /\ new[Len(t) + 1] = m.n
  BY <1>3
<1> HIDE DEF new
<1>5. IsTranscript(t, About(messages, key, "transcript")) BY DEF AmountsTo
<1>6. {new[i] : i \in DOMAIN new} = {x.n : x \in About(all, key, "transcript")}
  <2>1. {new[i] : i \in DOMAIN new} = {t[i] : i \in DOMAIN t} \union {m.n}
    BY <1>4
  <2>2. {x.n : x \in About(all, key, "transcript")}
          = {x.n : x \in About(messages, key, "transcript")} \union {m.n}
    BY <1>1
  <2> QED BY <1>5, <2>1, <2>2 DEF IsTranscript
<1>7. ASSUME NEW i \in DOMAIN new, NEW j \in DOMAIN new, i < j
      PROVE  new[i] < new[j]
  <2>1. i \in DOMAIN t
    <3>1. DOMAIN t = 1..Len(t) /\ Len(t) \in Nat BY <1>3
    <3> HIDE DEF t
    <3> QED BY <1>4, <1>7, <3>1
  <2>2. CASE j \in DOMAIN t BY <1>4, <1>5, <1>7, <2>1, <2>2 DEF IsTranscript
  <2>3. CASE j = Len(t) + 1
    <3>1. PICK x \in About(messages, key, "transcript") : t[i] = x.n
      BY <1>5, <2>1 DEF IsTranscript
    <3>2. x.n < m.n BY <3>1 DEF About
    <3> QED BY <1>4, <2>1, <2>3, <3>1, <3>2
  <2> QED BY <1>4, <2>2, <2>3
<1> DEFINE s == [r EXCEPT !.Transcript = new]
<1>8. /\ s.Transcript = new /\ s.Entities = r.Entities
      /\ s.Intent = r.Intent /\ s.bIsFinal = r.bIsFinal
  BY ResultUpdate
<1> HIDE DEF s
<1>9. AmountsTo(all, key, s)
  <2>1. IsTranscript(new, About(all, key, "transcript"))
    BY <1>6, <1>7 DEF IsTranscript
  <2> QED BY <1>1, <1>2, <1>8, <2>1 DEF AmountsTo, Ended
<1> QED BY <1>9 DEF s, new, t

LEMMA AmountsToEntity ==
  ASSUME NEW messages \in SUBSET Messages, NEW m \in Messages,
         m.kind = "entity", \A x \in messages : x.n < m.n,
         NEW r \in Results, AmountsTo(messages, KeyOfMessage(m), r)
  PROVE  AmountsTo(messages \union {m}, KeyOfMessage(m),
                   [r EXCEPT !.Entities = WithEntity(@, m)])
<1> DEFINE key == KeyOfMessage(m)
           all == messages \union {m}
           new == WithEntity(r.Entities, m)
           old == About(messages, key, "entity")
<1>1. /\ About(all, key, "entity") = old \union {m}
      /\ \A kind \in {"transcript", "intent", "segment_end"} :
             About(all, key, kind) = About(messages, key, kind)
  BY DEF About
<1>2. Finished(all, key[1]) <=> Finished(messages, key[1])
  BY DEF Finished
<1>3. /\ DOMAIN new = DOMAIN r.Entities \union {m.type} /\ new[m.type] = m.n
      /\ \A t \in DOMAIN r.Entities : t # m.type => new[t] = r.Entities[t]
  BY DEF WithEntity, Put
<1>4. /\ DOMAIN r.Entities = {x.type : x \in old}
      /\ \A t \in DOMAIN r.Entities :
             IsLast(r.Entities[t], {x \in old : x.type = t})
  BY DEF AmountsTo, AreEntities
<1>5. \A x \in old : x.n < m.n /\ x.n \in Nat
  BY MessageTypes DEF About, Numbers
<1>6. m.n \in Nat BY MessageTypes DEF Numbers
<1> HIDE DEF new, old
<1>7. DOMAIN new = {x.type : x \in old \union {m}} BY <1>3, <1>4
<1>8. ASSUME NEW t \in DOMAIN new
      PROVE  IsLast(new[t], {x \in old \union {m} : x.type = t})
  <2>1. CASE t = m.type BY <1>3, <1>5, <1>6, <2>1 DEF IsLast
  <2>2. CASE t # m.type
    <3>1. {x \in old \union {m} : x.type = t} = {x \in old : x.type = t}
      BY <2>2
    <3> QED BY <1>3, <1>4, <2>2, <3>1
  <2> QED BY <2>1, <2>2
<1> DEFINE s == [r EXCEPT !.Entities = new]
<1>9. /\ s.Transcript = r.Transcript /\ s.Entities = new
      /\ s.Intent = r.Intent /\ s.bIsFinal = r.bIsFinal
  BY ResultUpdate
<1> HIDE DEF s
<1>10. AmountsTo(all, key, s)
  <2>1. AreEntities(new, old \union {m}) BY <1>7, <1>8 DEF AreEntities
  <2> QED BY <1>1, <1>2, <1>9, <2>1 DEF AmountsTo, Ended
<1> QED BY <1>10 DEF s, new

LEMMA AmountsToIntent ==
  ASSUME NEW messages \in SUBSET Messages, NEW m \in Messages,
         m.kind = "intent", \A x \in messages : x.n < m.n,
         NEW r \in Results, AmountsTo(messages, KeyOfMessage(m), r)
  PROVE  AmountsTo(messages \union {m}, KeyOfMessage(m), [r EXCEPT !.Intent = m.n])
<1> DEFINE key == KeyOfMessage(m)
           all == messages \union {m}
           s   == [r EXCEPT !.Intent = m.n]
<1>1. /\ About(all, key, "intent") = About(messages, key, "intent") \union {m}
      /\ \A kind \in {"transcript", "entity", "segment_end"} :
             About(all, key, kind) = About(messages, key, kind)
  BY DEF About
<1>2. Finished(all, key[1]) <=> Finished(messages, key[1])
  BY DEF Finished
<1>3. IsLast(m.n, About(all, key, "intent"))
  <2>1. \A x \in messages : x.n \in Nat BY MessageTypes DEF Numbers
  <2>2. m.n \in Nat BY MessageTypes DEF Numbers
  <2> QED BY <1>1, <2>1, <2>2 DEF IsLast, About
<1>4. /\ s.Transcript = r.Transcript /\ s.Entities = r.Entities
      /\ s.Intent = m.n /\ s.bIsFinal = r.bIsFinal
  BY ResultUpdate
<1> HIDE DEF s
<1>5. AmountsTo(all, key, s)
  <2>1. IsIntent(m.n, About(all, key, "intent")) BY <1>1, <1>3 DEF IsIntent
  <2> QED BY <1>1, <1>2, <1>4, <2>1 DEF AmountsTo, Ended
<1> QED BY <1>5 DEF s

LEMMA AmountsToSegmentEnd ==
  ASSUME NEW messages, NEW m, m.kind = "segment_end",
         NEW r \in Results, AmountsTo(messages, KeyOfMessage(m), r)
  PROVE  AmountsTo(messages \union {m}, KeyOfMessage(m), [r EXCEPT !.bIsFinal = TRUE])
<1> DEFINE key == KeyOfMessage(m)
           all == messages \union {m}
           s   == [r EXCEPT !.bIsFinal = TRUE]
<1>1. /\ m \in About(all, key, "segment_end")
      /\ \A kind \in {"transcript", "entity", "intent"} :
             About(all, key, kind) = About(messages, key, kind)
  BY DEF About
<1>2. /\ s.Transcript = r.Transcript /\ s.Entities = r.Entities
      /\ s.Intent = r.Intent /\ s.bIsFinal
  BY ResultUpdate
<1> HIDE DEF s
<1>3. AmountsTo(all, key, s)
  BY <1>1, <1>2 DEF AmountsTo, Ended
<1> QED BY <1>3 DEF s

LEMMA AmountsToFinished ==
  ASSUME NEW messages, NEW m, m.kind = "finished", NEW key, m.context = key[1],
         NEW r \in Results, AmountsTo(messages, key, r)
  PROVE  AmountsTo(messages \union {m}, key, [r EXCEPT !.bIsFinal = TRUE])
<1> DEFINE all == messages \union {m}
           s   == [r EXCEPT !.bIsFinal = TRUE]
<1>1. \A kind \in {"transcript", "entity", "intent"} :
          About(all, key, kind) = About(messages, key, kind)
  BY DEF About
<1>2. /\ s.Transcript = r.Transcript /\ s.Entities = r.Entities
      /\ s.Intent = r.Intent /\ s.bIsFinal
  BY ResultUpdate
<1>3. Finished(all, key[1]) BY DEF Finished
<1> HIDE DEF s
<1>4. AmountsTo(all, key, s)
  BY <1>1, <1>2, <1>3 DEF AmountsTo
<1> QED BY <1>4 DEF s

(***************************************************************************)
(* The inductive invariant.  OrderInv: what is in the queue is newer than  *)
(* what was read, and keeps the server's protocol.  ResultInv: Responses   *)
(* has the segments that were mentioned and not forgotten, each as all     *)
(* that was read amounts to and, unless changed since, as it was told;     *)
(* what was forgotten has been told; what is about to be told was not told *)
(* as final.  ContextInv: what a Tick is to forget has finished in this    *)
(* connection or belongs to an earlier one.                                *)
(***************************************************************************)
Newer(m, before) == before.n < m.n /\ MayFollow(m, before)

OrderInv ==
    /\ \A before \in read, i \in DOMAIN queue : Newer(queue[i], before)
    /\ \A i, j \in DOMAIN queue : i < j => Newer(queue[j], queue[i])
    /\ \A m \in Sent : m.n <= count /\ m.context \notin left

Kept(key) == Finished(read, key[1]) => key[1] \in FinishedContexts

ResultInv(key) ==
    /\ key \in DOMAIN Responses <=> Mentioned(read, key) /\ Kept(key)
    /\ key \in DOMAIN Responses => AmountsTo(read, key, Responses[key])
    /\ key \in DOMAIN Responses \ ChangedKeys => told[key] = Responses[key]
    /\ key \in DOMAIN Responses \intersect ChangedKeys => ~told[key].bIsFinal
    /\ Mentioned(read, key) /\ key \notin DOMAIN Responses =>
           AmountsTo(read, key, told[key])
    /\ ~Mentioned(read, key) => told[key] = Nothing

IndexInv ==
    /\ \A key \in Keys :
           key \in DOMAIN Responses <=> key \in Find(ContextToKeys, key[1], {})
    /\ \A c \in DOMAIN ContextToKeys : \A key \in ContextToKeys[c] : key[1] = c
    /\ phase = "idle" => ChangedKeys = {} /\ FinishedContexts = {}

ContextInv ==
    /\ \A c \in FinishedContexts : Finished(read, c) \/ c \in left
    /\ \A m \in read :
           m.kind = "finished" /\ m.error => m.context \in errors \union Errors

Inv ==
    /\ TypeOK /\ OrderInv /\ IndexInv /\ ContextInv
    /\ \A key \in Keys : ResultInv(key)

(***************************************************************************)
(* Types.                                                                  *)
(***************************************************************************)
ResultTypes ==
    /\ DOMAIN Responses \subseteq Keys
    /\ \A key \in DOMAIN Responses : Responses[key] \in Results
    /\ DOMAIN ContextToKeys \subseteq Contexts
    /\ \A c \in DOMAIN ContextToKeys : ContextToKeys[c] \subseteq Keys
    /\ ChangedKeys \subseteq Keys
    /\ FinishedContexts \subseteq Contexts /\ Errors \subseteq Contexts

LEMMA NothingIsResult == Nothing \in Results
<1> DEFINE e == <<>>
<1>1. e \in [{} -> Numbers] OBVIOUS
<1>2. <<>> \in UNION {[T -> Numbers] : T \in SUBSET EntityTypes} BY <1>1
<1>3. <<>> \in Seq(Numbers) OBVIOUS
<1> QED BY <1>2, <1>3 DEF Nothing, Results, None

LEMMA FoundIsResult ==
  ASSUME TypeOK, NEW m
  PROVE  Found(m) \in Results
BY NothingIsResult DEF Found, Find, TypeOK

(* What the four kinds of messages on a segment make of its response.      *)
LEMMA ChangedIsResult ==
  ASSUME ResponsesAssumption, NEW r \in Results, NEW m \in Messages
  PROVE  /\ [r EXCEPT !.Transcript = Append(@, m.n)] \in Results
         /\ m.kind = "entity" => [r EXCEPT !.Entities = WithEntity(@, m)] \in Results
         /\ [r EXCEPT !.Intent = m.n] \in Results
         /\ [r EXCEPT !.bIsFinal = TRUE] \in Results
<1>1. m.n \in Numbers /\ (m.kind = "entity" => m.type \in EntityTypes)
  BY MessageTypes
<1>2. r.Transcript \in Seq(Numbers) BY DEF Results
<1>3. Append(r.Transcript, m.n) \in Seq(Numbers) BY <1>1, <1>2
<1>4. [r EXCEPT !.Transcript = Append(@, m.n)] \in Results
  BY <1>3 DEF Results
<1>5. [r EXCEPT !.Intent = m.n] \in Results BY <1>1 DEF Results
<1>6. [r EXCEPT !.bIsFinal = TRUE] \in Results BY DEF Results
<1>7. ASSUME m.kind = "entity"
      PROVE  [r EXCEPT !.Entities = WithEntity(@, m)] \in Results
  <2>1. PICK T \in SUBSET EntityTypes : r.Entities \in [T -> Numbers]
    BY DEF Results
  <2>2. WithEntity(r.Entities, m) \in [T \union {m.type} -> Numbers]
    BY <1>1, <1>7, <2>1 DEF WithEntity, Put
  <2>3. T \union {m.type} \in SUBSET EntityTypes BY <1>1, <1>7
  <2>4. WithEntity(r.Entities, m) \in
            UNION {[U -> Numbers] : U \in SUBSET EntityTypes}
    BY <2>2, <2>3
  <2> QED BY <2>4 DEF Results
<1> QED BY <1>4, <1>5, <1>6, <1>7

LEMMA TypesAtChange ==
  ASSUME TypeOK, NEW m \in Messages, OnSegment(m), NEW r \in Results, Change(m, r)
  PROVE  ResultTypes'
<1>1. KeyOfMessage(m) \in Keys /\ m.context \in Contexts BY MessageTypes
<1>2. Find(ContextToKeys, m.context, {}) \subseteq Keys BY DEF Find, TypeOK
<1>3. Responses' = Put(Responses, KeyOfMessage(m), r)
  BY DEF Change
<1>4. ContextToKeys' = Put(ContextToKeys, m.context,
          Find(ContextToKeys, m.context, {}) \union {KeyOfMessage(m)})
  BY DEF Change
<1>5. /\ ChangedKeys' = ChangedKeys \union {KeyOfMessage(m)}
      /\ FinishedContexts' = FinishedContexts /\ Errors' = Errors
  BY DEF Change, Announced
<1> DEFINE key == KeyOfMessage(m)
           keys == Find(ContextToKeys, m.context, {}) \union {key}
<1>6. keys \subseteq Keys BY <1>1, <1>2
<1> HIDE DEF keys, key
<1>7. /\ DOMAIN Responses' \subseteq Keys
      /\ \A k \in DOMAIN Responses' : Responses'[k] \in Results
  BY <1>1, <1>3 DEF Put, TypeOK, key
<1>8. /\ DOMAIN ContextToKeys' \subseteq Contexts
      /\ \A c \in DOMAIN ContextToKeys' : ContextToKeys'[c] \subseteq Keys
  BY <1>1, <1>4, <1>6 DEF Put, TypeOK, keys, key
<1> QED BY <1>1, <1>5, <1>7, <1>8 DEF ResultTypes, TypeOK

(* A read handles the message at the head of the queue.                    *)
LEMMA HeadIsMessage ==
  ASSUME TypeOK, queue # <<>>
  PROVE  /\ Head(queue) \in Messages /\ Head(queue) = queue[1] /\ 1 \in DOMAIN queue
         /\ Tail(queue) \in Seq(Messages)
         /\ \A i \in DOMAIN Tail(queue) :
                i + 1 \in DOMAIN queue /\ Tail(queue)[i] = queue[i + 1]
<1>1. queue \in Seq(Messages) BY DEF TypeOK
<1> QED BY <1>1

LEMMA TypesAtRead ==
  ASSUME ResponsesAssumption, TypeOK, Read
  PROVE  TypeOK'
<1> DEFINE m == Head(queue)
<1>1. m \in Messages /\ Tail(queue) \in Seq(Messages)
  BY HeadIsMessage DEF Read
<1>2. Found(m) \in Results BY FoundIsResult
<1> HIDE DEF m
<1>3. ResultTypes'
  <2>1. CASE HandleTranscript(m)
    BY <1>1, <1>2, <2>1, ChangedIsResult, TypesAtChange DEF HandleTranscript, OnSegment
  <2>2. CASE HandleEntity(m)
    BY <1>1, <1>2, <2>2, ChangedIsResult, TypesAtChange DEF HandleEntity, OnSegment
  <2>3. CASE HandleIntent(m)
    BY <1>1, <1>2, <2>3, ChangedIsResult, TypesAtChange DEF HandleIntent, OnSegment
  <2>4. CASE HandleSegmentEnd(m)
    BY <1>1, <1>2, <2>4, ChangedIsResult, TypesAtChange
       DEF HandleSegmentEnd, OnSegment
  <2>5. CASE HandleFinished(m)
    <3>1. OpenKeys(m.context) \subseteq DOMAIN Responses BY DEF OpenKeys
    <3>2. m.context \in Contexts BY <1>1, MessageTypes
    <3>3. \A r \in Results : [r EXCEPT !.bIsFinal = TRUE] \in Results
      BY <1>1, ChangedIsResult
    <3> QED BY <2>5, <3>1, <3>2, <3>3 DEF HandleFinished, ResultTypes, TypeOK
  <2>6. CASE HandleTentative(m)
    BY <2>6 DEF HandleTentative, resultVars, todoVars, ResultTypes, TypeOK
  <2> QED BY <2>1, <2>2, <2>3, <2>4, <2>5, <2>6 DEF Read, m
<1>4. reads' \in 0..MaxReads BY ResponsesAssumption DEF Read, TypeOK
<1>5. queue' \in Seq(Messages) /\ read' \subseteq Messages
  BY <1>1 DEF Read, TypeOK, m
<1> QED BY <1>3, <1>4, <1>5
        DEF Read, ResultTypes, TypeOK, toldVars, serverVars

LEMMA TypeInit == ASSUME ResponsesAssumption, Init PROVE TypeOK
<1>1. 0 \in 0..MaxReads /\ 0 \in 0..MaxMessages BY ResponsesAssumption
<1>2. told \in [Keys -> Results] BY NothingIsResult DEF Init
<1>3. queue \in Seq(Messages) BY DEF Init
<1>4. DOMAIN Responses = {} /\ DOMAIN ContextToKeys = {} BY DEF Init
<1> QED BY <1>1, <1>2, <1>3, <1>4 DEF Init, TypeOK

LEMMA TypeStep ==
  ASSUME ResponsesAssumption, TypeOK, [Next]_vars
  PROVE  TypeOK'
<1> USE DEF TypeOK, resultVars, tickVars, todoVars, toldVars, serverVars
<1>1. CASE Tick BY <1>1, ResponsesAssumption DEF Tick
<1>2. CASE Read BY <1>2, TypesAtRead
<1>3. CASE EndReads BY <1>3, ResponsesAssumption DEF EndReads
<1>4. ASSUME NEW key \in ChangedKeys, Broadcast(key) PROVE TypeOK'
  BY <1>4 DEF Broadcast
<1>5. CASE Forget BY <1>5 DEF Forget, Drop
<1>6. ASSUME NEW c \in Errors, BroadcastError(c) PROVE TypeOK'
  BY <1>6 DEF BroadcastError
<1>7. CASE Connect
  <2>1. {m.context : m \in Sent} \subseteq Contexts
    <3>1. Sent \subseteq Messages BY DEF Sent
    <3> QED BY <3>1, MessageTypes
  <2> QED BY <1>7, <2>1, NothingIsResult DEF Connect
<1>8. CASE ClientFails BY <1>8 DEF ClientFails
<1>9. CASE Server BY <1>9, ResponsesAssumption DEF Server
<1>10. CASE UNCHANGED vars BY <1>10 DEF vars
<1> QED BY <1>1, <1>2, <1>3, <1>4, <1>5, <1>6, <1>7, <1>8, <1>9, <1>10 DEF Next

(***************************************************************************)
(* The order of the messages.                                              *)
(***************************************************************************)
LEMMA OrderAtRead == ASSUME TypeOK, OrderInv, Read PROVE OrderInv'
<1> DEFINE m == Head(queue)
           t == Tail(queue)
<1>1. /\ m = queue[1] /\ 1 \in DOMAIN queue
      /\ \A i \in DOMAIN t : i + 1 \in DOMAIN queue /\ t[i] = queue[i + 1]
  BY HeadIsMessage DEF Read
<1>2. queue' = t /\ read' = read \union {m} /\ UNCHANGED <<count, left>>
  BY DEF Read, serverVars
<1>3. DOMAIN t \subseteq Nat \ {0}
  <2>1. t \in Seq(Messages) BY HeadIsMessage DEF Read
  <2> QED BY <2>1
<1> HIDE DEF m, t
<1>4. ASSUME NEW before \in read', NEW i \in DOMAIN t
      PROVE  Newer(t[i], before)
  <2>1. i + 1 \in DOMAIN queue /\ t[i] = queue[i + 1] /\ 1 < i + 1
    BY <1>1, <1>3
  <2> QED BY <1>1, <1>2, <2>1 DEF OrderInv
<1>5. ASSUME NEW i \in DOMAIN t, NEW j \in DOMAIN t, i < j
      PROVE  Newer(t[j], t[i])
  <2>1. i + 1 < j + 1 BY <1>3, <1>5
  <2> QED BY <1>1, <2>1 DEF OrderInv
<1>6. Sent' \subseteq Sent BY <1>1, <1>2 DEF Sent
<1> QED BY <1>2, <1>4, <1>5, <1>6 DEF OrderInv

LEMMA OrderAtServer ==
  ASSUME ResponsesAssumption, TypeOK, OrderInv, Server
  PROVE  OrderInv'
<1>1. PICK m \in Messages :
          /\ m.n = count + 1 /\ m.context \notin left
          /\ \A before \in Sent : MayFollow(m, before)
          /\ queue' = Append(queue, m)
  BY DEF Server
<1>2. count \in Nat /\ count' = count + 1 /\ UNCHANGED <<read, left>>
  BY DEF Server, TypeOK
<1>3. queue \in Seq(Messages) BY DEF TypeOK
<1>4. /\ DOMAIN queue' = DOMAIN queue \union {Len(queue) + 1}
      /\ \A i \in DOMAIN queue : queue'[i] = queue[i]
      /\ queue'[Len(queue) + 1] = m
  BY <1>1, <1>3
<1>5. DOMAIN queue = 1..Len(queue) /\ Len(queue) \in Nat BY <1>3
<1>6. \A before \in Sent : before.n \in Nat /\ Newer(m, before)
  <2>1. \A before \in Sent : before \in Messages BY <1>3 DEF Sent, TypeOK
  <2>2. \A before \in Sent : before.n \in Nat BY <2>1, MessageTypes DEF Numbers
  <2> QED BY <1>1, <1>2, <2>2 DEF OrderInv, Newer
<1>7. ASSUME NEW before \in read', NEW i \in DOMAIN queue'
      PROVE  Newer(queue'[i], before)
  <2>1. CASE i \in DOMAIN queue BY <1>2, <1>4, <2>1 DEF OrderInv
  <2>2. CASE i = Len(queue) + 1 BY <1>2, <1>4, <1>6, <2>2 DEF Sent
  <2> QED BY <1>4, <2>1, <2>2
<1>8. ASSUME NEW i \in DOMAIN queue', NEW j \in DOMAIN queue', i < j
      PROVE  Newer(queue'[j], queue'[i])
  <2>1. i \in DOMAIN queue BY <1>4, <1>5, <1>8
  <2>2. CASE j \in DOMAIN queue BY <1>4, <1>8, <2>1, <2>2 DEF OrderInv
  <2>3. CASE j = Len(queue) + 1 BY <1>4, <1>6, <2>1, <2>3 DEF Sent
  <2> QED BY <1>4, <2>2, <2>3
<1>9. Sent' = Sent \union {m} BY <1>2, <1>4 DEF Sent
<1>10. \A x \in Sent' : x.n <= count' /\ x.context \notin left'
  BY <1>1, <1>2, <1>6, <1>9 DEF OrderInv
<1> QED BY <1>7, <1>8, <1>10 DEF OrderInv

LEMMA OrderStep ==
  ASSUME ResponsesAssumption, TypeOK, OrderInv, [Next]_vars
  PROVE  OrderInv'
<1> USE DEF resultVars, tickVars, todoVars, toldVars, serverVars
<1>1. CASE UNCHANGED <<queue, read, left, count>> BY <1>1 DEF OrderInv, Sent
<1>2. CASE Read BY <1>2, OrderAtRead
<1>3. CASE Server BY <1>3, OrderAtServer
<1>4. CASE Connect
  <2>1. DOMAIN queue' = {} /\ read' = {} BY <1>4 DEF Connect
  <2> QED BY <2>1 DEF OrderInv, Sent
<1>5. ASSUME NEW key \in ChangedKeys, Broadcast(key) PROVE OrderInv'
  BY <1>1, <1>5 DEF Broadcast
<1>6. ASSUME NEW c \in Errors, BroadcastError(c) PROVE OrderInv'
  BY <1>1, <1>6 DEF BroadcastError
<1> QED BY <1>1, <1>2, <1>3, <1>4, <1>5, <1>6
        DEF Next, vars, Tick, EndReads, Forget, ClientFails

(***************************************************************************)
(* The index, by a message on a segment and by the other steps.            *)
(***************************************************************************)
LEMMA IndexAtChange ==
  ASSUME TypeOK, IndexInv, NEW m \in Messages, OnSegment(m), NEW r, Change(m, r)
  PROVE  /\ \A key \in Keys :
                key \in DOMAIN Responses' <=> key \in Find(ContextToKeys', key[1], {})
         /\ \A c \in DOMAIN ContextToKeys' : \A key \in ContextToKeys'[c] : key[1] = c
<1> DEFINE new == KeyOfMessage(m)
           old == Find(ContextToKeys, m.context, {})
<1>1. new \in Keys /\ new[1] = m.context BY MessageTypes DEF KeyOfMessage
<1>2. \A key \in old : key[1] = m.context BY DEF Find, IndexInv
<1>3. DOMAIN Responses' = DOMAIN Responses \union {new}
  BY PutIsFunction DEF Change
<1>4. /\ DOMAIN ContextToKeys' = DOMAIN ContextToKeys \union {m.context}
      /\ ContextToKeys'[m.context] = old \union {new}
      /\ \A c \in DOMAIN ContextToKeys :
             c # m.context => ContextToKeys'[c] = ContextToKeys[c]
  BY DEF Change, Put
<1> HIDE DEF new
<1>5. ASSUME NEW key \in Keys
      PROVE  key \in DOMAIN Responses' <=> key \in Find(ContextToKeys', key[1], {})
  <2>1. CASE key[1] = m.context
    <3>1. Find(ContextToKeys', key[1], {}) = old \union {new}
      BY <1>4, <2>1 DEF Find
    <3>2. key \in DOMAIN Responses <=> key \in old BY <2>1 DEF IndexInv
    <3> QED BY <1>3, <3>1, <3>2
  <2>2. CASE key[1] # m.context
    <3>1. Find(ContextToKeys', key[1], {}) = Find(ContextToKeys, key[1], {})
      BY <1>4, <2>2 DEF Find
    <3> QED BY <1>1, <1>3, <2>2, <3>1 DEF IndexInv
  <2> QED BY <2>1, <2>2
<1>6. ASSUME NEW c \in DOMAIN ContextToKeys', NEW key \in ContextToKeys'[c]
      PROVE  key[1] = c
  <2>1. CASE c = m.context BY <1>1, <1>2, <1>4, <1>6, <2>1
  <2>2. CASE c # m.context BY <1>4, <1>6, <2>2 DEF IndexInv
  <2> QED BY <2>1, <2>2
<1> QED BY <1>5, <1>6

LEMMA IndexAtForget ==
  ASSUME TypeOK, IndexInv, Forget
  PROVE  /\ IndexInv'
         /\ \A key \in Keys : key \in DOMAIN Responses' <=>
                key \in DOMAIN Responses /\ key[1] \notin FinishedContexts
<1>1. /\ DOMAIN Responses' = DOMAIN Responses \ Forgotten
      /\ DOMAIN ContextToKeys' = DOMAIN ContextToKeys \ FinishedContexts
      /\ \A c \in DOMAIN ContextToKeys' : ContextToKeys'[c] = ContextToKeys[c]
  BY DEF Forget, Drop
<1>2. ASSUME NEW key \in Keys
      PROVE  key \in Forgotten <=>
                 key[1] \in FinishedContexts /\ key \in DOMAIN Responses
  <2>1. \A c : key \in Find(ContextToKeys, c, {}) => key[1] = c
    BY DEF Find, IndexInv
  <2> QED BY <2>1 DEF Forgotten, IndexInv
<1>3. ASSUME NEW key \in Keys
      PROVE  key \in DOMAIN Responses' <=> key \in Find(ContextToKeys', key[1], {})
  <2>1. CASE key[1] \in FinishedContexts
    BY <1>1, <1>2, <2>1 DEF Find
  <2>2. CASE key[1] \notin FinishedContexts
    <3>1. Find(ContextToKeys', key[1], {}) = Find(ContextToKeys, key[1], {})
      BY <1>1, <2>2 DEF Find
    <3> QED BY <1>1, <1>2, <2>2, <3>1 DEF IndexInv
  <2> QED BY <2>1, <2>2
<1>4. \A c \in DOMAIN ContextToKeys' : \A key \in ContextToKeys'[c] : key[1] = c
  BY <1>1 DEF IndexInv
<1>5. ChangedKeys' = {} /\ FinishedContexts' = {} BY DEF Forget
<1> QED BY <1>1, <1>2, <1>3, <1>4, <1>5 DEF IndexInv

LEMMA IndexStep == ASSUME TypeOK, IndexInv, [Next]_vars PROVE IndexInv'
<1> USE DEF resultVars, tickVars, todoVars, toldVars, serverVars
<1>1. CASE Read
  <2> DEFINE m == Head(queue)
  <2>1. m \in Messages BY <1>1, HeadIsMessage DEF Read
  <2>2. phase' = "read" BY <1>1 DEF Read
  <2> HIDE DEF m
  <2>3. ASSUME NEW r, OnSegment(m), Change(m, r) PROVE IndexInv'
    BY <2>1, <2>2, <2>3, IndexAtChange DEF IndexInv
  <2>4. CASE HandleTranscript(m) BY <2>3, <2>4 DEF HandleTranscript, OnSegment
  <2>5. CASE HandleEntity(m) BY <2>3, <2>5 DEF HandleEntity, OnSegment
  <2>6. CASE HandleIntent(m) BY <2>3, <2>6 DEF HandleIntent, OnSegment
  <2>7. CASE HandleSegmentEnd(m) BY <2>3, <2>7 DEF HandleSegmentEnd, OnSegment
  <2>8. CASE HandleFinished(m) BY <2>2, <2>8 DEF HandleFinished, IndexInv
  <2>9. CASE HandleTentative(m) BY <2>2, <2>9 DEF HandleTentative, IndexInv
  <2> QED BY <1>1, <2>4, <2>5, <2>6, <2>7, <2>8, <2>9 DEF Read, m
<1>2. CASE Forget BY <1>2, IndexAtForget
<1>3. CASE Connect
  <2>1. DOMAIN Responses' = {} /\ DOMAIN ContextToKeys' = {} BY <1>3 DEF Connect
  <2> QED BY <1>3, <2>1 DEF Connect, IndexInv, Find
<1>4. CASE Tick BY <1>4 DEF Tick, IndexInv
<1>5. CASE EndReads BY <1>5 DEF EndReads, IndexInv
<1>6. ASSUME NEW key \in ChangedKeys, Broadcast(key) PROVE IndexInv'
  BY <1>6 DEF Broadcast, IndexInv
<1>7. ASSUME NEW c \in Errors, BroadcastError(c) PROVE IndexInv'
  BY <1>7 DEF BroadcastError, IndexInv
<1>8. CASE ClientFails BY <1>8 DEF ClientFails, IndexInv
<1>9. CASE Server BY <1>9 DEF Server, IndexInv
<1>10. CASE UNCHANGED vars BY <1>10 DEF vars, IndexInv
<1> QED BY <1>1, <1>2, <1>3, <1>4, <1>5, <1>6, <1>7, <1>8, <1>9, <1>10 DEF Next

(***************************************************************************)
(* The responses.                                                          *)
(***************************************************************************)
(* By the protocol the next message is about a segment that is open, which *)
(* is therefore as nobody has been told that it is final.                  *)
LEMMA NextMessage ==
  ASSUME TypeOK, OrderInv, queue # <<>>
  PROVE  /\ \A before \in read : Newer(Head(queue), before)
         /\ ~Finished(read, Head(queue).context)
<1>1. Head(queue) = queue[1] /\ 1 \in DOMAIN queue BY HeadIsMessage
<1> QED BY <1>1 DEF OrderInv, Newer, MayFollow, Finished

LEMMA SegmentIsOpen ==
  ASSUME TypeOK, OrderInv, queue # <<>>, OnSegment(Head(queue)),
         ResultInv(KeyOfMessage(Head(queue)))
  PROVE  /\ AmountsTo(read, KeyOfMessage(Head(queue)), Found(Head(queue)))
         /\ ~told[KeyOfMessage(Head(queue))].bIsFinal
<1> DEFINE m   == Head(queue)
           key == KeyOfMessage(m)
<1>1. key[1] = m.context BY DEF KeyOfMessage
<1>2. ~Finished(read, key[1]) BY <1>1, NextMessage
<1>3. ~Ended(read, key)
  BY NextMessage DEF Ended, About, Newer, MayFollow
<1>4. Found(m) = IF key \in DOMAIN Responses THEN Responses[key] ELSE Nothing
  BY DEF Found, Find
<1>5. ResultInv(key) OBVIOUS
<1> HIDE DEF key, m
<1>6. CASE key \in DOMAIN Responses
  <2>1. AmountsTo(read, key, Responses[key]) BY <1>5, <1>6 DEF ResultInv
  <2>2. ~Responses[key].bIsFinal BY <1>2, <1>3, <2>1 DEF AmountsTo
  <2>3. ~told[key].bIsFinal BY <1>5, <1>6, <2>2 DEF ResultInv
  <2> QED BY <1>4, <1>6, <2>1, <2>3 DEF key, m
<1>7. CASE key \notin DOMAIN Responses
  <2>1. ~Mentioned(read, key) BY <1>2, <1>5, <1>7 DEF ResultInv, Kept
  <2>2. AmountsTo(read, key, Nothing) BY <1>2, <2>1, AmountsToNothing
  <2>3. told[key] = Nothing BY <1>5, <2>1 DEF ResultInv
  <2>4. ~Nothing.bIsFinal BY DEF Nothing
  <2> QED BY <1>4, <1>7, <2>2, <2>3, <2>4 DEF key, m
<1> QED BY <1>6, <1>7

LEMMA ResultAtChange ==
  ASSUME TypeOK, OrderInv, Read, NEW m \in Messages, m = Head(queue), OnSegment(m),
         NEW r, AmountsTo(read \union {m}, KeyOfMessage(m), r), Change(m, r),
         ResultInv(KeyOfMessage(m)), NEW key \in Keys, ResultInv(key)
  PROVE  ResultInv(key)'
<1> DEFINE new == KeyOfMessage(m)
<1>1. /\ read' = read \union {m} /\ told' = told
      /\ FinishedContexts' = FinishedContexts /\ ChangedKeys' = ChangedKeys \union {new}
  BY DEF Read, toldVars, Change, Announced
<1>2. /\ DOMAIN Responses' = DOMAIN Responses \union {new} /\ Responses'[new] = r
      /\ \A k \in DOMAIN Responses : k # new => Responses'[k] = Responses[k]
  <2>1. Responses' = Put(Responses, new, r) BY DEF Change
  <2> QED BY <2>1 DEF Put
<1>3. \A c : Finished(read', c) <=> Finished(read, c)
  BY <1>1 DEF Finished, OnSegment
<1>4. Kept(key)' <=> Kept(key) BY <1>1, <1>3 DEF Kept
<1>5. CASE key = new
  <2>1. ~told[key].bIsFinal BY <1>5, SegmentIsOpen DEF Read
  <2>2. Mentioned(read', key) BY <1>1, <1>5 DEF Mentioned
  <2>3. ~Finished(read, key[1])
    <3>1. key[1] = m.context BY <1>5 DEF KeyOfMessage
    <3> QED BY <3>1, NextMessage DEF Read
  <2>4. Kept(key)' BY <1>4, <2>3 DEF Kept
  <2>5. AmountsTo(read', key, Responses'[key]) BY <1>1, <1>2, <1>5
  <2>6. key \in DOMAIN Responses' /\ key \in ChangedKeys' BY <1>1, <1>2, <1>5
  <2> HIDE DEF new
  <2> QED BY <1>1, <2>1, <2>2, <2>4, <2>5, <2>6 DEF ResultInv
<1>6. CASE key # new
  <2>1. Mentioned(read', key) <=> Mentioned(read, key)
    BY <1>1, <1>6, AmountsToOther DEF OnSegment
  <2>2. \A q : AmountsTo(read', key, q) <=> AmountsTo(read, key, q)
    BY <1>1, <1>6, AmountsToOther DEF OnSegment
  <2>3. /\ key \in DOMAIN Responses' <=> key \in DOMAIN Responses
        /\ key \in DOMAIN Responses => Responses'[key] = Responses[key]
        /\ key \in ChangedKeys' <=> key \in ChangedKeys
    BY <1>1, <1>2, <1>6
  <2> HIDE DEF new
  <2> QED BY <1>1, <1>4, <2>1, <2>2, <2>3 DEF ResultInv
<1> QED BY <1>5, <1>6

LEMMA ResultAtFinished ==
  ASSUME TypeOK, OrderInv, IndexInv, Read, NEW m \in Messages, m = Head(queue),
         HandleFinished(m), NEW key \in Keys, ResultInv(key)
  PROVE  ResultInv(key)'
<1>1. /\ m.kind = "finished" /\ read' = read \union {m} /\ told' = told
      /\ FinishedContexts' = FinishedContexts \union {m.context}
      /\ ChangedKeys' = ChangedKeys \union OpenKeys(m.context)
      /\ DOMAIN Responses' = DOMAIN Responses
      /\ \A k \in DOMAIN Responses : Responses'[k] =
             IF k \in OpenKeys(m.context)
             THEN [Responses[k] EXCEPT !.bIsFinal = TRUE] ELSE Responses[k]
  BY DEF Read, toldVars, HandleFinished
<1>2. Mentioned(read', key) <=> Mentioned(read, key)
  BY <1>1 DEF Mentioned, OnSegment
<1>3. ~Finished(read, m.context) BY NextMessage DEF Read
<1>4. Kept(key)' <=> Kept(key)
  BY <1>1, <1>3 DEF Kept, Finished
<1>5. key \in OpenKeys(m.context) <=>
          key[1] = m.context /\ key \in DOMAIN Responses /\ ~Responses[key].bIsFinal
  <2>1. key \in Find(ContextToKeys, m.context, {}) <=>
            key[1] = m.context /\ key \in DOMAIN Responses
    BY DEF IndexInv, Find
  <2> QED BY <2>1 DEF OpenKeys
<1>6. CASE key[1] = m.context
  <2>1. ASSUME key \in DOMAIN Responses
        PROVE  AmountsTo(read', key, Responses'[key])
    <3>1. Responses[key] \in Results /\ AmountsTo(read, key, Responses[key])
      BY <2>1 DEF ResultInv, TypeOK
    <3>2. AmountsTo(read', key, [Responses[key] EXCEPT !.bIsFinal = TRUE])
      BY <1>1, <1>6, <3>1, AmountsToFinished
    <3>3. Responses[key].bIsFinal =>
              Responses[key] = [Responses[key] EXCEPT !.bIsFinal = TRUE]
      BY <3>1 DEF Results
    <3> QED BY <1>1, <1>5, <1>6, <2>1, <3>2, <3>3
  <2>2. key \in DOMAIN Responses' \ ChangedKeys' => told'[key] = Responses'[key]
    BY <1>1, <1>5 DEF ResultInv
  <2>3. key \in DOMAIN Responses' \intersect ChangedKeys' => ~told'[key].bIsFinal
    BY <1>1, <1>5 DEF ResultInv
  <2>4. Mentioned(read, key) => key \in DOMAIN Responses
    BY <1>3, <1>6 DEF ResultInv, Kept
  <2> QED BY <1>1, <1>2, <1>4, <2>1, <2>2, <2>3, <2>4 DEF ResultInv
<1>7. CASE key[1] # m.context
  <2>1. \A q : AmountsTo(read', key, q) <=> AmountsTo(read, key, q)
    BY <1>1, <1>7, AmountsToOther DEF OnSegment
  <2>2. /\ key \in DOMAIN Responses => Responses'[key] = Responses[key]
        /\ key \in ChangedKeys' <=> key \in ChangedKeys
    BY <1>1, <1>5, <1>7
  <2> QED BY <1>1, <1>2, <1>4, <2>1, <2>2 DEF ResultInv
<1> QED BY <1>6, <1>7

LEMMA ResultAtRead ==
  ASSUME ResponsesAssumption, TypeOK, OrderInv, IndexInv, Read,
         \A k \in Keys : ResultInv(k), NEW key \in Keys
  PROVE  ResultInv(key)'
<1> DEFINE m   == Head(queue)
           new == KeyOfMessage(m)
<1>1. m \in Messages BY HeadIsMessage DEF Read
<1>2. Found(m) \in Results BY FoundIsResult
<1>3. read \in SUBSET Messages /\ \A x \in read : x.n < m.n
  BY NextMessage DEF Newer, TypeOK, Read
<1>4. OnSegment(m) => new \in Keys /\ ResultInv(new) /\ AmountsTo(read, new, Found(m))
  BY <1>1, MessageTypes, SegmentIsOpen DEF Read
<1>5. ASSUME NEW r, OnSegment(m), AmountsTo(read \union {m}, new, r), Change(m, r)
      PROVE  ResultInv(key)'
  BY <1>1, <1>4, <1>5, ResultAtChange
<1> HIDE DEF m, new
<1>6. CASE HandleTranscript(m)
  <2>1. m.kind = "transcript" /\ OnSegment(m) BY <1>6 DEF HandleTranscript, OnSegment
  <2> QED BY <1>1, <1>2, <1>3, <1>4, <1>5, <1>6, <2>1, AmountsToTranscript
          DEF HandleTranscript, new
<1>7. CASE HandleEntity(m)
  <2>1. m.kind = "entity" /\ OnSegment(m) BY <1>7 DEF HandleEntity, OnSegment
  <2> QED BY <1>1, <1>2, <1>3, <1>4, <1>5, <1>7, <2>1, AmountsToEntity
          DEF HandleEntity, new
<1>8. CASE HandleIntent(m)
  <2>1. m.kind = "intent" /\ OnSegment(m) BY <1>8 DEF HandleIntent, OnSegment
  <2> QED BY <1>1, <1>2, <1>3, <1>4, <1>5, <1>8, <2>1, AmountsToIntent
          DEF HandleIntent, new
<1>9. CASE HandleSegmentEnd(m)
  <2>1. m.kind = "segment_end" /\ OnSegment(m)
    BY <1>9 DEF HandleSegmentEnd, OnSegment
  <2> QED BY <1>1, <1>2, <1>4, <1>5, <1>9, <2>1, AmountsToSegmentEnd
          DEF HandleSegmentEnd, new
<1>10. CASE HandleFinished(m) BY <1>1, <1>10, ResultAtFinished DEF m
<1>11. CASE HandleTentative(m)
  <2>1. read' = read \union {m} /\ told' = told BY DEF Read, toldVars, m
  <2>2. /\ m.kind = "tentative" /\ Responses' = Responses
        /\ ChangedKeys' = ChangedKeys /\ FinishedContexts' = FinishedContexts
    BY <1>11 DEF HandleTentative, resultVars, todoVars
  <2>3. Mentioned(read', key) <=> Mentioned(read, key)
    BY <2>1, <2>2, AmountsToOther DEF OnSegment
  <2>4. \A q : AmountsTo(read', key, q) <=> AmountsTo(read, key, q)
    BY <2>1, <2>2, AmountsToOther DEF OnSegment
  <2>5. Kept(key)' <=> Kept(key) BY <2>1, <2>2 DEF Kept, Finished
  <2> QED BY <2>1, <2>2, <2>3, <2>4, <2>5 DEF ResultInv
<1> QED BY <1>6, <1>7, <1>8, <1>9, <1>10, <1>11 DEF Read, m

LEMMA ResultStep ==
  ASSUME ResponsesAssumption, TypeOK, OrderInv, IndexInv, ContextInv, [Next]_vars,
         \A k \in Keys : ResultInv(k), NEW key \in Keys
  PROVE  ResultInv(key)'
<1> USE DEF resultVars, tickVars, todoVars, toldVars, serverVars
<1>1. CASE UNCHANGED <<read, Responses, ChangedKeys, FinishedContexts, told>>
  BY <1>1 DEF ResultInv, Kept
<1>2. CASE Read BY <1>2, ResultAtRead
<1>3. ASSUME NEW k \in ChangedKeys, Broadcast(k) PROVE ResultInv(key)'
  <2>1. /\ read' = read /\ Responses' = Responses
        /\ FinishedContexts' = FinishedContexts /\ ChangedKeys' = ChangedKeys \ {k}
    BY <1>3 DEF Broadcast
  <2>2. told \in [Keys -> Results] /\ k \in Keys BY DEF TypeOK
  <2>3. told'[key] = IF key = k /\ key \in DOMAIN Responses
                     THEN Responses[key] ELSE told[key]
    BY <1>3, <2>2 DEF Broadcast
  <2>4. Kept(key)' <=> Kept(key) BY <2>1 DEF Kept
  <2> QED BY <2>1, <2>3, <2>4 DEF ResultInv
<1>4. CASE Forget
  <2>1. /\ read' = read /\ told' = told /\ ChangedKeys = {} /\ ChangedKeys' = {}
        /\ FinishedContexts' = {}
    BY <1>4 DEF Forget
  <2>2. key \in DOMAIN Responses' <=>
            key \in DOMAIN Responses /\ key[1] \notin FinishedContexts
    BY <1>4, IndexAtForget
  <2>3. key \in DOMAIN Responses' => Responses'[key] = Responses[key]
    BY <1>4 DEF Forget, Drop
  <2>4. Kept(key)' <=> ~Finished(read, key[1]) BY <2>1 DEF Kept
  <2>5. key[1] \in FinishedContexts /\ Mentioned(read, key) => Finished(read, key[1])
    <3>1. ASSUME NEW m \in read, OnSegment(m), KeyOfMessage(m) = key
          PROVE  key[1] \notin left
      BY <3>1 DEF OrderInv, Sent, KeyOfMessage
    <3> QED BY <3>1 DEF ContextInv, Mentioned
  <2> QED BY <2>1, <2>2, <2>3, <2>4, <2>5 DEF ResultInv, Kept
<1>5. CASE Connect
  <2>1. /\ read' = {} /\ DOMAIN Responses' = {} /\ told'[key] = Nothing
    BY <1>5 DEF Connect
  <2>2. ~Mentioned(read', key) BY <2>1 DEF Mentioned
  <2> QED BY <2>1, <2>2 DEF ResultInv
<1>6. ASSUME NEW c \in Errors, BroadcastError(c) PROVE ResultInv(key)'
  BY <1>1, <1>6 DEF BroadcastError
<1> QED BY <1>1, <1>2, <1>3, <1>4, <1>5, <1>6
        DEF Next, vars, Tick, EndReads, ClientFails, Server

LEMMA ContextStep == ASSUME TypeOK, ContextInv, [Next]_vars PROVE ContextInv'
<1> USE DEF resultVars, tickVars, todoVars, toldVars, serverVars
<1>1. CASE UNCHANGED <<read, FinishedContexts, left, errors, Errors>>
  BY <1>1 DEF ContextInv, Finished
<1>2. CASE Read
  <2> DEFINE m == Head(queue)
  <2>1. read' = read \union {m} /\ UNCHANGED <<left, errors>> BY <1>2 DEF Read
  <2>2. \A c : Finished(read, c) => Finished(read', c) BY <2>1 DEF Finished
  <2> HIDE DEF m
  <2>3. CASE m.kind = "finished" /\ HandleFinished(m)
    BY <2>1, <2>2, <2>3 DEF HandleFinished, ContextInv, Finished
  <2>4. CASE m.kind # "finished" /\ UNCHANGED <<FinishedContexts, Errors>>
    BY <2>1, <2>2, <2>4 DEF ContextInv
  <2> QED
    BY <1>2, <2>3, <2>4
       DEF Read, m, HandleTranscript, HandleEntity, HandleIntent,
           HandleSegmentEnd, HandleFinished, HandleTentative, Change
<1>3. CASE Forget BY <1>3 DEF Forget, ContextInv
<1>4. CASE Connect
  <2>1. ASSUME NEW c \in FinishedContexts PROVE c \in left'
    BY <1>4, <2>1 DEF Connect, ContextInv, Finished, Sent
  <2> QED BY <1>4, <2>1 DEF Connect, ContextInv
<1>5. ASSUME NEW c \in Errors, BroadcastError(c) PROVE ContextInv'
  BY <1>5 DEF BroadcastError, ContextInv
<1>6. ASSUME NEW key \in ChangedKeys, Broadcast(key) PROVE ContextInv'
  BY <1>1, <1>6 DEF Broadcast
<1> QED BY <1>1, <1>2, <1>3, <1>4, <1>5, <1>6
        DEF Next, vars, Tick, EndReads, ClientFails, Server

(***************************************************************************)
(* The invariant and what follows from it.                                 *)
(***************************************************************************)
LEMMA InvInit == ASSUME ResponsesAssumption, Init PROVE Inv
<1>1. DOMAIN Responses = {} /\ DOMAIN ContextToKeys = {} /\ DOMAIN queue = {}
  BY DEF Init
<1>2. OrderInv /\ IndexInv /\ ContextInv
  BY <1>1 DEF Init, OrderInv, IndexInv, ContextInv, Sent, Find
<1>3. \A key \in Keys : ResultInv(key)
  BY <1>1 DEF Init, ResultInv, Mentioned
<1> QED BY <1>2, <1>3, TypeInit DEF Inv

LEMMA InvAlways == ASSUME ResponsesAssumption PROVE Spec => []Inv
<1>1. Init => Inv BY InvInit
<1>2. Inv /\ [Next]_vars => Inv'
  BY TypeStep, OrderStep, IndexStep, ContextStep, ResultStep DEF Inv
<1> QED BY <1>1, <1>2, PTL DEF Spec

(* The results' variables keep their types.                                *)
THEOREM ResultTypesCorrect == ASSUME ResponsesAssumption PROVE Spec => []TypeOK
<1>1. Inv => TypeOK BY DEF Inv
<1> QED BY <1>1, InvAlways, PTL

(* However responses are split into Ticks and contexts interleave, the     *)
(* application has been told what all that was read amounts to.            *)
THEOREM ToldWhatWasRead == ASSUME ResponsesAssumption PROVE Spec => []ToldIsAssembled
<1>1. ASSUME Inv PROVE ToldIsAssembled
  <2>1. ASSUME NEW key \in Keys \ ChangedKeys, Mentioned(read, key)
        PROVE  AmountsTo(read, key, told[key])
    <3>1. ResultInv(key) BY <1>1 DEF Inv
    <3> QED BY <2>1, <3>1 DEF ResultInv
  <2> QED BY <1>1, <2>1 DEF Inv, ContextInv, ToldIsAssembled
<1> QED BY <1>1, InvAlways, PTL

(* Nothing is kept of a finished context or an earlier connection, and     *)
(* what is kept is indexed under its context.                              *)
THEOREM FinishedIsForgotten == ASSUME ResponsesAssumption PROVE Spec => []NothingKept
<1>1. ASSUME Inv PROVE NothingKept
  <2>1. ASSUME NEW key \in DOMAIN Responses
        PROVE  Mentioned(read, key) /\ Kept(key)
    <3>1. key \in Keys BY <1>1 DEF Inv, TypeOK
    <3>2. ResultInv(key) BY <1>1, <3>1 DEF Inv
    <3> QED BY <3>2 DEF ResultInv
  <2> QED BY <1>1, <2>1 DEF Inv, IndexInv, NothingKept, Kept
<1> QED BY <1>1, InvAlways, PTL

(* What was told as final is not broadcast again.                          *)
THEOREM FinalIsToldOnce == ASSUME ResponsesAssumption PROVE Spec => FinalToldOnce
<1>1. ASSUME Inv, [Next]_vars
      PROVE  [\A key \in (ChangedKeys \ ChangedKeys') \intersect DOMAIN Responses :
                  ~told[key].bIsFinal]_vars
  <2>1. ASSUME NEW key \in ChangedKeys \intersect DOMAIN Responses
        PROVE  ~told[key].bIsFinal
    <3>1. key \in Keys BY <1>1 DEF Inv, TypeOK
    <3>2. ResultInv(key) BY <1>1, <3>1 DEF Inv
    <3> QED BY <2>1, <3>2 DEF ResultInv
  <2> QED BY <2>1
<1> QED BY <1>1, InvAlways, PTL DEF Spec, FinalToldOnce
=============================================================================
