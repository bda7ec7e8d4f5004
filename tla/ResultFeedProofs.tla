-------------------------- MODULE ResultFeedProofs --------------------------
(* SpeechlyResponses implements ResultFeed, for any contexts, segments and *)
(* entity types, any number of messages and of reads per Tick.             *)
EXTENDS SpeechlyResponsesProofs

(***************************************************************************)
(* Growth of a response.                                                   *)
(***************************************************************************)
LEMMA ResultParts ==
  ASSUME ResponsesAssumption, NEW r \in Results
  PROVE  /\ r.Transcript \in Seq(Nat) /\ r.Intent \in Nat /\ r.bIsFinal \in BOOLEAN
         /\ DOMAIN r.Entities \subseteq EntityTypes
         /\ \A t \in DOMAIN r.Entities : r.Entities[t] \in Nat
<1>1. Numbers \subseteq Nat BY ResponsesAssumption DEF Numbers
<1>2. r.Transcript \in Seq(Numbers) BY DEF Results
<1>3. r.Transcript \in Seq(Nat)
  <2> DEFINE s == r.Transcript
  <2>1. s \in Seq(Numbers) BY <1>2
  <2>2. Len(s) \in Nat /\ DOMAIN s = 1..Len(s) /\ s \in [1..Len(s) -> Numbers]
    BY <2>1
  <2> HIDE DEF s
  <2>3. s \in [1..Len(s) -> Nat] BY <1>1, <2>2
  <2>4. s \in Seq(Nat) BY <2>2, <2>3
  <2> QED BY <2>4 DEF s
<1>4. PICK T \in SUBSET EntityTypes : r.Entities \in [T -> Numbers]
  BY DEF Results
<1>5. r.Intent \in Nat /\ r.bIsFinal \in BOOLEAN
  <2>1. CASE r.Intent \in Numbers
    <3>1. r.Intent \in Nat BY <2>1, ResponsesAssumption DEF Numbers
    <3> QED BY <3>1 DEF Results
  <2>2. CASE r.Intent = None BY <2>2 DEF Results, None
  <2> QED BY <2>1, <2>2 DEF Results
<1>6. \A t \in DOMAIN r.Entities : t \in EntityTypes /\ r.Entities[t] \in Nat
  BY <1>1, <1>4
<1> QED BY <1>3, <1>5, <1>6

LEMMA GrowsReflexive ==
  ASSUME ResponsesAssumption, NEW r \in Results
  PROVE  Feed!Grows(r, r)
<1>1. Len(r.Transcript) \in Nat BY ResultParts
<1> QED BY <1>1, ResultParts DEF Feed!Grows, Feed!Extends

LEMMA GrowsTransitive ==
  ASSUME ResponsesAssumption, NEW r \in Results, NEW s \in Results, NEW t \in Results,
         Feed!Grows(r, s), Feed!Grows(s, t)
  PROVE  Feed!Grows(r, t)
<1> DEFINE a == r.Transcript  b == s.Transcript  c == t.Transcript
<1>1. /\ Len(a) \in Nat /\ Len(b) \in Nat /\ Len(c) \in Nat
      /\ DOMAIN a = 1..Len(a) /\ DOMAIN b = 1..Len(b)
  <2>1. a \in Seq(Nat) /\ b \in Seq(Nat) /\ c \in Seq(Nat) BY ResultParts
  <2> HIDE DEF a, b, c
  <2> QED BY <2>1
<1>2. Feed!Extends(b, a) /\ Feed!Extends(c, b) BY DEF Feed!Grows
<1> HIDE DEF a, b, c
<1>3. Feed!Extends(c, a) BY <1>1, <1>2 DEF Feed!Extends
<1>4. /\ DOMAIN r.Entities \subseteq DOMAIN t.Entities
      /\ \A e \in DOMAIN r.Entities : r.Entities[e] <= t.Entities[e]
  <2>1. DOMAIN r.Entities \subseteq DOMAIN s.Entities BY DEF Feed!Grows
  <2>2. DOMAIN s.Entities \subseteq DOMAIN t.Entities BY DEF Feed!Grows
  <2>3. ASSUME NEW e \in DOMAIN r.Entities
        PROVE  r.Entities[e] <= t.Entities[e]
    <3>1. r.Entities[e] \in Nat /\ s.Entities[e] \in Nat /\ t.Entities[e] \in Nat
      BY <2>1, <2>2, ResultParts
    <3>2. r.Entities[e] <= s.Entities[e] /\ s.Entities[e] <= t.Entities[e]
      BY <2>1 DEF Feed!Grows
    <3> QED BY <3>1, <3>2
  <2> QED BY <2>1, <2>2, <2>3
<1>5. r.Intent <= t.Intent
  <2>1. r.Intent \in Nat /\ s.Intent \in Nat /\ t.Intent \in Nat BY ResultParts
  <2>2. r.Intent <= s.Intent /\ s.Intent <= t.Intent BY DEF Feed!Grows
  <2> QED BY <2>1, <2>2
<1>6. r.bIsFinal => t.bIsFinal BY DEF Feed!Grows
<1> QED BY <1>3, <1>4, <1>5, <1>6 DEF Feed!Grows, a, c

LEMMA GrowsWhenFinal ==
  ASSUME ResponsesAssumption, NEW r \in Results
  PROVE  Feed!Grows(r, [r EXCEPT !.bIsFinal = TRUE])
<1> DEFINE s == [r EXCEPT !.bIsFinal = TRUE]
<1>1. /\ s.Transcript = r.Transcript /\ s.Entities = r.Entities
      /\ s.Intent = r.Intent /\ s.bIsFinal
  BY DEF Results
<1> HIDE DEF s
<1>2. Feed!Grows(r, s) BY <1>1, GrowsReflexive DEF Feed!Grows
<1> QED BY <1>2 DEF s

(* What the newest message makes of a response that all before it amount   *)
(* to has grown: the value or intent it replaces is an older one.          *)
LEMMA GrowsByMessage ==
  ASSUME ResponsesAssumption, NEW messages \in SUBSET Messages, NEW m \in Messages,
         \A x \in messages : x.n < m.n,
         NEW r \in Results, AmountsTo(messages, KeyOfMessage(m), r)
  PROVE  /\ Feed!Grows(r, [r EXCEPT !.Transcript = Append(@, m.n)])
         /\ m.kind = "entity" => Feed!Grows(r, [r EXCEPT !.Entities = WithEntity(@, m)])
         /\ Feed!Grows(r, [r EXCEPT !.Intent = m.n])
         /\ Feed!Grows(r, [r EXCEPT !.bIsFinal = TRUE])
<1>1. /\ m.n \in Nat /\ Feed!Grows(r, r)
      /\ \A x \in messages : x.n \in Nat /\ x.n <= m.n
  BY MessageTypes, GrowsReflexive DEF Numbers
<1>2. Feed!Grows(r, [r EXCEPT !.Transcript = Append(@, m.n)])
  <2> DEFINE t   == r.Transcript
             new == Append(t, m.n)
             s   == [r EXCEPT !.Transcript = new]
  <2>1. t \in Seq(Nat) BY ResultParts
  <2>2. Len(t) <= Len(new) /\ \A i \in DOMAIN t : new[i] = t[i]
    <3> HIDE DEF t
    <3> QED BY <1>1, <2>1
  <2>3. /\ s.Transcript = new /\ s.Entities = r.Entities
        /\ s.Intent = r.Intent /\ s.bIsFinal = r.bIsFinal
    BY DEF Results
  <2> HIDE DEF new, s
  <2>4. Feed!Grows(r, s) BY <1>1, <2>2, <2>3 DEF Feed!Grows, Feed!Extends
  <2> QED BY <2>4 DEF s, new
<1>3. ASSUME m.kind = "entity"
      PROVE  Feed!Grows(r, [r EXCEPT !.Entities = WithEntity(@, m)])
  <2> DEFINE e   == r.Entities
             new == WithEntity(e, m)
             s   == [r EXCEPT !.Entities = new]
  <2>1. ASSUME NEW t \in DOMAIN e PROVE e[t] <= m.n /\ e[t] \in Nat
    <3>1. PICK x \in About(messages, KeyOfMessage(m), "entity") : x.n = e[t]
      BY DEF AmountsTo, AreEntities, IsLast
    <3> QED BY <1>1, <3>1 DEF About
  <2>2. /\ DOMAIN e \subseteq DOMAIN new
        /\ \A t \in DOMAIN e : e[t] <= new[t]
    <3> HIDE DEF e
    <3> QED BY <2>1 DEF WithEntity, Put
  <2>3. /\ s.Transcript = r.Transcript /\ s.Entities = new
        /\ s.Intent = r.Intent /\ s.bIsFinal = r.bIsFinal
    BY DEF Results
  <2> HIDE DEF new, s
  <2>4. Feed!Grows(r, s) BY <1>1, <2>2, <2>3 DEF Feed!Grows
  <2> QED BY <2>4 DEF s, new
<1>4. Feed!Grows(r, [r EXCEPT !.Intent = m.n])
  <2> DEFINE s == [r EXCEPT !.Intent = m.n]
  <2>1. r.Intent <= m.n
    <3>1. CASE About(messages, KeyOfMessage(m), "intent") = {}
      BY <1>1, <3>1 DEF AmountsTo, IsIntent, None
    <3>2. CASE About(messages, KeyOfMessage(m), "intent") # {}
      <4>1. PICK x \in About(messages, KeyOfMessage(m), "intent") : x.n = r.Intent
        BY <3>2 DEF AmountsTo, IsIntent, IsLast
      <4> QED BY <1>1, <4>1 DEF About
    <3> QED BY <3>1, <3>2
  <2>2. /\ s.Transcript = r.Transcript /\ s.Entities = r.Entities
        /\ s.Intent = m.n /\ s.bIsFinal = r.bIsFinal
    BY DEF Results
  <2> HIDE DEF s
  <2>3. Feed!Grows(r, s) BY <1>1, <2>1, <2>2 DEF Feed!Grows
  <2> QED BY <2>3 DEF s
<1>5. Feed!Grows(r, [r EXCEPT !.bIsFinal = TRUE]) BY GrowsWhenFinal
<1> QED BY <1>2, <1>3, <1>4, <1>5

(***************************************************************************)
(* The strengthening of the invariant.  GrowInv: what is assembled for a   *)
(* segment has grown from what was told of it, and its context has had no  *)
(* error.  ErrorInv: an error still to be told was not told before, and a  *)
(* context with an error has finished or is of an earlier connection.      *)
(***************************************************************************)
GrowInv(key) ==
    key \in DOMAIN Responses =>
        Feed!Grows(told[key], Responses[key]) /\ key[1] \notin errors

ErrorInv ==
    /\ Errors \intersect errors = {}
    /\ \A c \in Errors \union errors : Finished(read, c) \/ c \in left

FeedInv == Inv /\ ErrorInv /\ \A key \in Keys : GrowInv(key)

(* A context of which a message was read, or is read next, is not of an    *)
(* earlier connection; if there was an error, it has finished.             *)
LEMMA MentionedIsHere ==
  ASSUME OrderInv, NEW key, Mentioned(read, key)
  PROVE  key[1] \notin left
BY DEF OrderInv, Sent, Mentioned, KeyOfMessage

LEMMA NextHasNoError ==
  ASSUME TypeOK, OrderInv, ErrorInv, queue # <<>>
  PROVE  Head(queue).context \notin Errors \union errors
<1>1. Head(queue) \in Sent BY HeadIsMessage DEF Sent
<1>2. Head(queue).context \notin left BY <1>1 DEF OrderInv
<1> QED BY <1>2, NextMessage DEF ErrorInv

LEMMA ErrorStep ==
  ASSUME TypeOK, OrderInv, ErrorInv, [Next]_vars
  PROVE  ErrorInv'
<1> USE DEF resultVars, tickVars, todoVars, toldVars, serverVars
<1>1. CASE UNCHANGED <<read, left, errors, Errors>>
  BY <1>1 DEF ErrorInv, Finished
<1>2. CASE Read
  <2> DEFINE m == Head(queue)
  <2>1. read' = read \union {m} /\ UNCHANGED <<left, errors>> BY <1>2 DEF Read
  <2>2. m.context \notin Errors \union errors BY <1>2, NextHasNoError DEF Read
  <2> HIDE DEF m
  <2>3. \A c : Finished(read, c) => Finished(read', c) BY <2>1 DEF Finished
  <2>4. CASE HandleFinished(m)
    <3>1. Finished(read', m.context) BY <2>1, <2>4 DEF Finished, HandleFinished
    <3>2. Errors' \subseteq Errors \union {m.context} BY <2>4 DEF HandleFinished
    <3> QED BY <2>1, <2>2, <2>3, <3>1, <3>2 DEF ErrorInv
  <2>5. CASE UNCHANGED Errors BY <2>1, <2>3, <2>5 DEF ErrorInv
  <2> QED
    BY <1>2, <2>4, <2>5
       DEF Read, m, HandleTranscript, HandleEntity, HandleIntent,
           HandleSegmentEnd, HandleTentative, Change
<1>3. ASSUME NEW c \in Errors, BroadcastError(c) PROVE ErrorInv'
  BY <1>3 DEF BroadcastError, ErrorInv, Finished
<1>4. CASE Connect
  <2>1. ASSUME NEW c \in Errors PROVE c \in left'
    BY <1>4, <2>1 DEF Connect, ErrorInv, Finished, Sent
  <2> QED BY <1>4, <2>1 DEF Connect, ErrorInv
<1>5. ASSUME NEW key \in ChangedKeys, Broadcast(key) PROVE ErrorInv'
  BY <1>1, <1>5 DEF Broadcast
<1> QED BY <1>1, <1>2, <1>3, <1>4, <1>5
        DEF Next, vars, Tick, EndReads, Forget, ClientFails, Server

LEMMA GrowAtChange ==
  ASSUME ResponsesAssumption, Inv, ErrorInv, Read,
         NEW m \in Messages, m = Head(queue), OnSegment(m),
         NEW r \in Results, Feed!Grows(Found(m), r), Change(m, r),
         GrowInv(KeyOfMessage(m)), NEW key \in Keys, GrowInv(key)
  PROVE  GrowInv(key)'
<1> DEFINE new == KeyOfMessage(m)
<1>1. told' = told /\ errors' = errors BY DEF Read, toldVars
<1>2. /\ DOMAIN Responses' = DOMAIN Responses \union {new} /\ Responses'[new] = r
      /\ \A k \in DOMAIN Responses : k # new => Responses'[k] = Responses[k]
  <2>1. Responses' = Put(Responses, new, r) BY DEF Change
  <2> QED BY <2>1 DEF Put
<1>3. new \in Keys /\ new[1] = m.context BY MessageTypes DEF KeyOfMessage
<1>4. TypeOK /\ OrderInv /\ ResultInv(new) BY <1>3 DEF Inv
<1>5. new[1] \notin errors BY <1>3, <1>4, NextHasNoError DEF Read
<1>6. Feed!Grows(told[new], Found(m))
  <2>1. CASE new \in DOMAIN Responses BY <2>1 DEF Found, Find, GrowInv
  <2>2. CASE new \notin DOMAIN Responses
    <3>1. ~Finished(read, new[1]) BY <1>3, <1>4, NextMessage DEF Read
    <3>2. told[new] = Nothing BY <1>4, <2>2, <3>1 DEF ResultInv, Kept
    <3> QED BY <2>2, <3>2, GrowsReflexive, NothingIsResult DEF Found, Find
  <2> QED BY <2>1, <2>2
<1>7. told[new] \in Results /\ Found(m) \in Results
  BY <1>3, <1>4, FoundIsResult DEF TypeOK
<1>8. Feed!Grows(told[new], r) BY <1>6, <1>7, GrowsTransitive
<1> HIDE DEF new
<1> QED BY <1>1, <1>2, <1>5, <1>8 DEF GrowInv

LEMMA GrowAtRead ==
  ASSUME ResponsesAssumption, Inv, ErrorInv, Read,
         \A k \in Keys : GrowInv(k), NEW key \in Keys
  PROVE  GrowInv(key)'
<1> DEFINE m == Head(queue)
<1>1. TypeOK /\ OrderInv /\ m \in Messages BY HeadIsMessage DEF Inv, Read
<1>2. Found(m) \in Results BY <1>1, FoundIsResult
<1>3. read \in SUBSET Messages /\ \A x \in read : x.n < m.n
  BY <1>1, NextMessage DEF Newer, TypeOK, Read
<1>4. OnSegment(m) => KeyOfMessage(m) \in Keys BY <1>1, MessageTypes
<1>5. OnSegment(m) => AmountsTo(read, KeyOfMessage(m), Found(m))
  BY <1>1, <1>4, SegmentIsOpen DEF Inv, Read
<1>6. ASSUME NEW r \in Results, OnSegment(m), Feed!Grows(Found(m), r), Change(m, r)
      PROVE  GrowInv(key)'
  BY <1>1, <1>4, <1>6, GrowAtChange
<1> HIDE DEF m
<1>7. CASE HandleTranscript(m)
  <2>1. OnSegment(m) BY <1>7 DEF HandleTranscript, OnSegment
  <2> QED BY <1>1, <1>2, <1>3, <1>5, <1>6, <1>7, <2>1, ChangedIsResult,
             GrowsByMessage DEF HandleTranscript
<1>8. CASE HandleEntity(m)
  <2>1. OnSegment(m) /\ m.kind = "entity" BY <1>8 DEF HandleEntity, OnSegment
  <2> QED BY <1>1, <1>2, <1>3, <1>5, <1>6, <1>8, <2>1, ChangedIsResult,
             GrowsByMessage DEF HandleEntity
<1>9. CASE HandleIntent(m)
  <2>1. OnSegment(m) BY <1>9 DEF HandleIntent, OnSegment
  <2> QED BY <1>1, <1>2, <1>3, <1>5, <1>6, <1>9, <2>1, ChangedIsResult,
             GrowsByMessage DEF HandleIntent
<1>10. CASE HandleSegmentEnd(m)
  <2>1. OnSegment(m) BY <1>10 DEF HandleSegmentEnd, OnSegment
  <2> QED BY <1>1, <1>2, <1>3, <1>5, <1>6, <1>10, <2>1, ChangedIsResult,
             GrowsByMessage DEF HandleSegmentEnd
<1>11. CASE HandleFinished(m)
  <2>1. told' = told /\ errors' = errors BY DEF Read, toldVars
  <2>2. /\ DOMAIN Responses' = DOMAIN Responses
        /\ key \in DOMAIN Responses =>
               Responses'[key] \in {Responses[key],
                                    [Responses[key] EXCEPT !.bIsFinal = TRUE]}
    BY <1>11 DEF HandleFinished
  <2>3. ASSUME key \in DOMAIN Responses
        PROVE  Feed!Grows(told[key], Responses'[key])
    <3>1. /\ told[key] \in Results /\ Responses[key] \in Results
          /\ Feed!Grows(told[key], Responses[key])
      BY <1>1, <2>3 DEF TypeOK, GrowInv
    <3>2. [Responses[key] EXCEPT !.bIsFinal = TRUE] \in Results
      BY <1>1, <3>1, ChangedIsResult
    <3>3. Feed!Grows(Responses[key], [Responses[key] EXCEPT !.bIsFinal = TRUE])
      BY <3>1, GrowsWhenFinal
    <3>4. Feed!Grows(told[key], [Responses[key] EXCEPT !.bIsFinal = TRUE])
      BY <3>1, <3>2, <3>3, GrowsTransitive
    <3> QED BY <2>2, <2>3, <3>1, <3>4
  <2> QED BY <2>1, <2>2, <2>3 DEF GrowInv
<1>12. CASE HandleTentative(m)
  BY <1>12 DEF HandleTentative, resultVars, toldVars, Read, GrowInv
<1> QED BY <1>7, <1>8, <1>9, <1>10, <1>11, <1>12 DEF Read, m

LEMMA GrowStep ==
  ASSUME ResponsesAssumption, Inv, ErrorInv, [Next]_vars,
         \A k \in Keys : GrowInv(k), NEW key \in Keys
  PROVE  GrowInv(key)'
<1> USE DEF resultVars, tickVars, todoVars, toldVars, serverVars
<1>1. CASE UNCHANGED <<Responses, told, errors>> BY <1>1 DEF GrowInv
<1>2. CASE Read BY <1>2, GrowAtRead
<1>3. ASSUME NEW k \in ChangedKeys, Broadcast(k) PROVE GrowInv(key)'
  <2>1. TypeOK BY DEF Inv
  <2>2. Responses' = Responses /\ errors' = errors BY <1>3 DEF Broadcast
  <2>3. told'[key] = IF key = k /\ key \in DOMAIN Responses
                     THEN Responses[key] ELSE told[key]
    BY <1>3, <2>1 DEF Broadcast, TypeOK
  <2>4. key \in DOMAIN Responses => Feed!Grows(Responses[key], Responses[key])
    BY <2>1, GrowsReflexive DEF TypeOK
  <2> QED BY <2>2, <2>3, <2>4 DEF GrowInv
<1>4. CASE Forget BY <1>4 DEF Forget, Drop, GrowInv
<1>5. CASE Connect
  <2>1. DOMAIN Responses' = {} BY <1>5 DEF Connect
  <2> QED BY <2>1 DEF GrowInv
<1>6. ASSUME NEW c \in Errors, BroadcastError(c) PROVE GrowInv(key)'
  <2>1. /\ Responses' = Responses /\ told' = told /\ errors' = errors \union {c}
        /\ phase = "idle"
    BY <1>6 DEF BroadcastError
  <2>2. ASSUME key \in DOMAIN Responses PROVE key[1] # c
    <3>1. Mentioned(read, key) /\ Kept(key) BY <2>2 DEF Inv, ResultInv
    <3>2. FinishedContexts = {} BY <2>1 DEF Inv, IndexInv
    <3>3. key[1] \notin left BY <3>1, MentionedIsHere DEF Inv
    <3> QED BY <3>1, <3>2, <3>3 DEF Kept, ErrorInv
  <2> QED BY <2>1, <2>2 DEF GrowInv
<1> QED BY <1>1, <1>2, <1>3, <1>4, <1>5, <1>6
        DEF Next, vars, Tick, EndReads, ClientFails, Server

LEMMA FeedInvAlways == ASSUME ResponsesAssumption PROVE Spec => []FeedInv
<1>1. ASSUME Init PROVE FeedInv
  <2>1. DOMAIN Responses = {} BY <1>1 DEF Init
  <2> QED BY <1>1, <2>1, InvInit DEF Init, FeedInv, ErrorInv, GrowInv
<1>2. FeedInv /\ [Next]_vars => FeedInv'
  <2>1. ASSUME Inv, [Next]_vars PROVE Inv'
    BY <2>1, TypeStep, OrderStep, IndexStep, ContextStep, ResultStep DEF Inv
  <2>2. ASSUME FeedInv, [Next]_vars, NEW key \in Keys PROVE GrowInv(key)'
    BY <2>2, GrowStep DEF FeedInv
  <2> QED BY <2>1, <2>2, ErrorStep DEF FeedInv, Inv
<1> QED BY <1>1, <1>2, PTL DEF Spec

(***************************************************************************)
(* The steps, as steps of the feed.                                        *)
(***************************************************************************)
LEMMA BroadcastTells ==
  ASSUME FeedInv, NEW key \in ChangedKeys, Broadcast(key)
  PROVE  Feed!Tell(key) \/ UNCHANGED <<told, errors>>
<1>1. errors' = errors /\ key \in Keys /\ told \in [Keys -> Results]
  BY DEF Broadcast, FeedInv, Inv, TypeOK
<1>2. CASE key \notin DOMAIN Responses BY <1>1, <1>2 DEF Broadcast
<1>3. CASE key \in DOMAIN Responses
  <2>1. told' = [told EXCEPT ![key] = Responses[key]] /\ told'[key] = Responses[key]
    BY <1>1, <1>3 DEF Broadcast
  <2>2. GrowInv(key) /\ ResultInv(key) BY <1>1 DEF FeedInv, Inv
  <2>3. ~told[key].bIsFinal BY <1>3, <2>2 DEF ResultInv
  <2> QED BY <1>1, <1>3, <2>1, <2>2, <2>3 DEF Feed!Tell, GrowInv
<1> QED BY <1>2, <1>3

LEMMA BroadcastErrorTells ==
  ASSUME FeedInv, NEW c \in Errors, BroadcastError(c)
  PROVE  Feed!TellError(c)
<1>1. /\ TypeOK /\ OrderInv /\ ErrorInv /\ FinishedContexts = {} /\ ChangedKeys = {}
  BY DEF FeedInv, Inv, IndexInv, BroadcastError
<1>2. ASSUME NEW s \in Segments, told[<<c, s>>] # Nothing
      PROVE  told[<<c, s>>].bIsFinal
  <2> DEFINE key == <<c, s>>
  <2>1. key \in Keys /\ key[1] = c BY <1>1 DEF Keys, TypeOK
  <2>2. ResultInv(key) BY <2>1 DEF FeedInv, Inv
  <2> HIDE DEF key
  <2>3. Mentioned(read, key) BY <1>2, <2>2 DEF ResultInv, key
  <2>4. Finished(read, key[1])
    BY <1>1, <2>1, <2>3, MentionedIsHere DEF ErrorInv
  <2>5. AmountsTo(read, key, told[key])
    BY <1>1, <2>2, <2>3, <2>4 DEF ResultInv, Kept
  <2> QED BY <2>4, <2>5 DEF AmountsTo, key
<1> QED BY <1>1, <1>2
        DEF BroadcastError, Feed!TellError, Feed!Concluded, ErrorInv, Nothing,
            Feed!Nothing, None

(* What the application is told is a ResultFeed: responses that only grow  *)
(* until they are final, and an error of a context once, at its end.       *)
THEOREM ResultsImplementFeed == ASSUME ResponsesAssumption PROVE Spec => ImplementsFeed
<1> USE DEF resultVars, tickVars, todoVars, toldVars, serverVars
<1>1. Init => Feed!Init
  BY DEF Init, Feed!Init, Keys, Feed!Keys, Nothing, Feed!Nothing, None
<1>2. ASSUME FeedInv, [Next]_vars
      PROVE  [Feed!Next]_<<told, errors>>
  <2>1. ASSUME NEW key \in ChangedKeys, Broadcast(key)
        PROVE  [Feed!Next]_<<told, errors>>
    <3>1. key \in Feed!Keys
      BY <1>2 DEF FeedInv, Inv, TypeOK, Keys, Feed!Keys
    <3> QED BY <1>2, <2>1, <3>1, BroadcastTells DEF Feed!Next
  <2>2. ASSUME NEW c \in Errors, BroadcastError(c)
        PROVE  [Feed!Next]_<<told, errors>>
    <3>1. c \in Contexts BY <1>2 DEF FeedInv, Inv, TypeOK
    <3> QED BY <1>2, <2>2, <3>1, BroadcastErrorTells DEF Feed!Next
  <2>3. CASE Connect
    <3>1. Feed!Restart
      BY <2>3 DEF Connect, Feed!Restart, Keys, Feed!Keys, Nothing, Feed!Nothing, None
    <3> QED BY <3>1 DEF Feed!Next
  <2>4. CASE UNCHANGED <<told, errors>> BY <2>4
  <2> QED BY <1>2, <2>1, <2>2, <2>3, <2>4
          DEF Next, vars, Tick, Read, EndReads, Forget, ClientFails, Server
<1> QED BY <1>1, <1>2, FeedInvAlways, PTL DEF Spec, ImplementsFeed, Feed!Spec
=============================================================================
