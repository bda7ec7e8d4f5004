------------------------- MODULE SpeechlyResponses -------------------------
(***************************************************************************)
(* The results USpeechly::Tick assembles (Speechly.cpp): the responses of  *)
(* the server are read from the client's queue, collected per segment in   *)
(* Responses and broadcast to the application, whose handlers run within   *)
(* the Tick and may call Connect there.  What Tick does to the recording   *)
(* is in module Speechly.                                                  *)
(*                                                                         *)
(* A message has the number it was sent with; this number stands for the   *)
(* word, value or intent it carries.  The key of a segment, the text       *)
(* "<context>-<segment>", is the pair it is printed from and can be parsed *)
(* back to.  A Bug... operator is a faulty variant of the definition after *)
(* it.                                                                     *)
(***************************************************************************)
EXTENDS Naturals, Sequences

CONSTANTS
    Contexts, Segments, EntityTypes,
    MaxReads,       \* responses a Tick reads at most (10 in the code)
    MaxMessages     \* bound on the messages the server sends

ASSUME ResponsesAssumption ==
    MaxReads \in Nat \ {0} /\ MaxMessages \in Nat

VARIABLES
    up,             \* connected: Tick goes on and Read returns responses
    queue,          \* the client's ResponseQueue
    Responses, ContextToKeys,
    phase,          \* what Tick is doing: "read", "broadcast", or "idle"
    reads,          \* Tick: MaxReads
    ChangedKeys, FinishedContexts, Errors,      \* Tick: what is still to do
    told,           \* per segment, the response last broadcast
    errors,         \* the contexts an error was broadcast for
    read,           \* the messages read since Connect
    left,           \* contexts of earlier connections
    count           \* number of messages sent

resultVars == <<Responses, ContextToKeys>>
tickVars   == <<phase, reads>>
todoVars   == <<ChangedKeys, FinishedContexts, Errors>>
toldVars   == <<told, errors>>
serverVars == <<left, count>>
vars == <<up, queue, resultVars, tickVars, todoVars, toldVars, read, serverVars>>

Keys == Contexts \X Segments
None == 0
Nothing == [Transcript |-> <<>>, Entities |-> <<>>, Intent |-> None,
            bIsFinal |-> FALSE]

Numbers  == 1..MaxMessages
Messages ==
    [kind : {"transcript", "intent", "segment_end"}, context : Contexts,
     segment : Segments, n : Numbers]
    \union [kind : {"entity"}, context : Contexts, segment : Segments,
            type : EntityTypes, n : Numbers]
    \union [kind : {"finished"}, context : Contexts, error : BOOLEAN, n : Numbers]
    \union [kind : {"tentative"}, context : Contexts, n : Numbers]

Init ==
    /\ up = FALSE /\ queue = <<>>
    /\ Responses = <<>> /\ ContextToKeys = <<>>
    /\ phase = "idle" /\ reads = 0
    /\ ChangedKeys = {} /\ FinishedContexts = {} /\ Errors = {}
    /\ told = [key \in Keys |-> Nothing] /\ errors = {}
    /\ read = {} /\ left = {} /\ count = 0

-----------------------------------------------------------------------------
(* Handling one response.                                                  *)
Find(map, key, default) == IF key \in DOMAIN map THEN map[key] ELSE default
Put(map, key, value) ==
    [k \in DOMAIN map \union {key} |-> IF k = key THEN value ELSE map[k]]
Drop(map, keys) == [k \in DOMAIN map \ keys |-> map[k]]

KeyOfMessage(m) == <<m.context, m.segment>>

BugAnnounced(m) == IF m.kind = "segment_end" THEN {} ELSE {KeyOfMessage(m)}
Announced(m) == {KeyOfMessage(m)}

(* KeyOfMessage, ChangedKeys.Add and FindOrAdd, which value-initialises;   *)
(* then the response found is changed in place.                            *)
BugFound(m) == Nothing
Found(m) == Find(Responses, KeyOfMessage(m), Nothing)

Change(m, response) ==
    LET key == KeyOfMessage(m)
        c   == m.context
    IN  /\ Responses' = Put(Responses, key, response)
        /\ ContextToKeys' =
               Put(ContextToKeys, c, Find(ContextToKeys, c, {}) \union {key})
        /\ ChangedKeys' = ChangedKeys \union Announced(m)
        /\ UNCHANGED <<FinishedContexts, Errors>>

HandleTranscript(m) ==
    /\ m.kind = "transcript"
    /\ Change(m, [Found(m) EXCEPT !.Transcript = Append(@, m.n)])

BugWithEntity(entities, m) == Put(entities, m.n, m.type)
WithEntity(entities, m) == Put(entities, m.type, m.n)

HandleEntity(m) ==              \* a map: one value for each entity type
    /\ m.kind = "entity"
    /\ Change(m, [Found(m) EXCEPT !.Entities = WithEntity(@, m)])

HandleIntent(m) ==
    /\ m.kind = "intent"
    /\ Change(m, [Found(m) EXCEPT !.Intent = m.n])

HandleSegmentEnd(m) ==
    /\ m.kind = "segment_end"
    /\ Change(m, [Found(m) EXCEPT !.bIsFinal = TRUE])

(* The end of a context makes final what was not.                          *)
BugOpenKeys(c) == Find(ContextToKeys, c, {}) \intersect DOMAIN Responses
OpenKeys(c) ==
    {key \in Find(ContextToKeys, c, {}) \intersect DOMAIN Responses :
        ~Responses[key].bIsFinal}

HandleFinished(m) ==
    LET open == OpenKeys(m.context)
    IN  /\ m.kind = "finished"
        /\ Responses' = [key \in DOMAIN Responses |->
               IF key \in open THEN [Responses[key] EXCEPT !.bIsFinal = TRUE]
               ELSE Responses[key]]
        /\ ChangedKeys' = ChangedKeys \union open
        /\ FinishedContexts' = FinishedContexts \union {m.context}
        /\ Errors' = IF m.error THEN Errors \union {m.context} ELSE Errors
        /\ UNCHANGED ContextToKeys

HandleTentative(m) ==           \* nothing is done with the tentative ones
    m.kind = "tentative" /\ UNCHANGED <<resultVars, todoVars>>

-----------------------------------------------------------------------------
(* One Tick: it reads, broadcasts what has changed, forgets what has       *)
(* finished and broadcasts the errors, a step for each.  The sets are      *)
(* iterated in any order.                                                  *)
Tick ==
    /\ phase = "idle" /\ Errors = {} /\ up
    /\ phase' = "read" /\ reads' = MaxReads
    /\ UNCHANGED <<up, queue, resultVars, todoVars, toldVars, read, serverVars>>

Read ==
    /\ phase = "read" /\ reads > 0 /\ up /\ queue # <<>>
    /\ reads' = reads - 1
    /\ queue' = Tail(queue) /\ read' = read \union {Head(queue)}
    /\ \/ HandleTranscript(Head(queue)) \/ HandleEntity(Head(queue))
       \/ HandleIntent(Head(queue))     \/ HandleSegmentEnd(Head(queue))
       \/ HandleFinished(Head(queue))   \/ HandleTentative(Head(queue))
    /\ UNCHANGED <<up, phase, toldVars, serverVars>>

EndReads ==                     \* Read fails on a client that failed
    /\ phase = "read" /\ (reads = 0 \/ queue = <<>> \/ ~up)
    /\ phase' = "broadcast" /\ reads' = 0
    /\ UNCHANGED <<up, queue, resultVars, todoVars, toldVars, read, serverVars>>

Broadcast(key) ==               \* if it is still there
    /\ phase = "broadcast" /\ key \in ChangedKeys
    /\ ChangedKeys' = ChangedKeys \ {key}
    /\ told' = IF key \in DOMAIN Responses
               THEN [told EXCEPT ![key] = Responses[key]] ELSE told
    /\ UNCHANGED <<up, queue, resultVars, tickVars, FinishedContexts, Errors>>
    /\ UNCHANGED <<errors, read, serverVars>>

BugForgotten == {}
Forgotten == UNION {Find(ContextToKeys, c, {}) : c \in FinishedContexts}

Forget ==
    /\ phase = "broadcast" /\ ChangedKeys = {}
    /\ phase' = "idle"
    /\ Responses' = Drop(Responses, Forgotten)
    /\ ContextToKeys' = Drop(ContextToKeys, FinishedContexts)
    /\ FinishedContexts' = {}
    /\ UNCHANGED <<up, queue, reads, ChangedKeys, Errors, toldVars, read>>
    /\ UNCHANGED serverVars

BroadcastError(c) ==
    /\ phase = "idle" /\ c \in Errors
    /\ Errors' = Errors \ {c} /\ errors' = errors \union {c}
    /\ UNCHANGED <<up, queue, resultVars, tickVars, ChangedKeys>>
    /\ UNCHANGED <<FinishedContexts, told, read, serverVars>>

(* Connect drops the client, its queue, and what was assembled so far.  It *)
(* may be called between Ticks or by a handler, in which case the Tick     *)
(* goes on with its own sets.                                              *)
Sent == read \union {queue[i] : i \in DOMAIN queue}

Connect ==
    /\ phase # "read"
    /\ up' = TRUE /\ queue' = <<>>
    /\ Responses' = <<>> /\ ContextToKeys' = <<>>
    /\ told' = [key \in Keys |-> Nothing] /\ errors' = {} /\ read' = {}
    /\ left' = left \union {m.context : m \in Sent}
    /\ UNCHANGED <<tickVars, todoVars, count>>

ClientFails ==
    /\ up /\ up' = FALSE
    /\ UNCHANGED <<queue, resultVars, tickVars, todoVars, toldVars, read>>
    /\ UNCHANGED serverVars

-----------------------------------------------------------------------------
(* The server, by its protocol: nothing on a context after its `finished', *)
(* and nothing on a segment after its `segment_end' (the client would not  *)
(* discard it, as slu.proto asks).  The contexts that WLUSync makes up are *)
(* such contexts too.                                                      *)
OnSegment(m) == m.kind \notin {"finished", "tentative"}

MayFollow(m, before) ==
    /\ before.kind = "finished" => before.context # m.context
    /\ before.kind = "segment_end" /\ OnSegment(m) =>
           KeyOfMessage(before) # KeyOfMessage(m)

Server ==
    /\ up /\ count < MaxMessages                            \* bound
    /\ count' = count + 1
    /\ \E m \in {msg \in Messages : msg.n = count'} :
          /\ m.context \notin left
          /\ \A before \in Sent : MayFollow(m, before)
          /\ queue' = Append(queue, m)
    /\ UNCHANGED <<up, resultVars, tickVars, todoVars, toldVars, read, left>>

Next ==
    \/ Tick \/ Read \/ EndReads \/ \E key \in ChangedKeys : Broadcast(key)
    \/ Forget \/ \E c \in Errors : BroadcastError(c)
    \/ Connect \/ ClientFails \/ Server
Spec == Init /\ [][Next]_vars

-----------------------------------------------------------------------------
(* The variables are of their types.                                       *)
Results ==
    [Transcript : Seq(Numbers), Entities : UNION {[T -> Numbers] :
     T \in SUBSET EntityTypes}, Intent : Numbers \union {None},
     bIsFinal : BOOLEAN]

TypeOK ==
    /\ up \in BOOLEAN /\ count \in 0..MaxMessages
    /\ queue \in Seq(Messages) /\ read \subseteq Messages
    /\ DOMAIN Responses \subseteq Keys
    /\ \A key \in DOMAIN Responses : Responses[key] \in Results
    /\ DOMAIN ContextToKeys \subseteq Contexts
    /\ \A c \in DOMAIN ContextToKeys : ContextToKeys[c] \subseteq Keys
    /\ phase \in {"read", "broadcast", "idle"} /\ reads \in 0..MaxReads
    /\ ChangedKeys \subseteq Keys
    /\ FinishedContexts \subseteq Contexts /\ Errors \subseteq Contexts
    /\ told \in [Keys -> Results]
    /\ errors \subseteq Contexts /\ left \subseteq Contexts

(* The response a segment amounts to, by all messages that were read about *)
(* it, with no notion of a Tick: its words in order, the last value of     *)
(* each entity and the last intent; final once it, or its context, is.     *)
About(messages, key, kind) ==
    {m \in messages : m.kind = kind /\ KeyOfMessage(m) = key}
Mentioned(messages, key) ==
    \E m \in messages : OnSegment(m) /\ KeyOfMessage(m) = key
Finished(messages, c) == \E m \in messages : m.kind = "finished" /\ m.context = c
Ended(messages, key)  == About(messages, key, "segment_end") # {}

IsLast(n, messages) ==
    (\E m \in messages : m.n = n) /\ \A m \in messages : m.n <= n

IsTranscript(t, words) ==
    /\ {t[i] : i \in DOMAIN t} = {m.n : m \in words}
    /\ \A i, j \in DOMAIN t : i < j => t[i] < t[j]
AreEntities(e, entities) ==
    /\ DOMAIN e = {m.type : m \in entities}
    /\ \A t \in DOMAIN e : IsLast(e[t], {m \in entities : m.type = t})
IsIntent(n, intents) == IF intents = {} THEN n = None ELSE IsLast(n, intents)
AmountsTo(messages, key, r) ==
    /\ IsTranscript(r.Transcript, About(messages, key, "transcript"))
    /\ AreEntities(r.Entities, About(messages, key, "entity"))
    /\ IsIntent(r.Intent, About(messages, key, "intent"))
    /\ r.bIsFinal <=> Ended(messages, key) \/ Finished(messages, key[1])

(* However the responses are split into Ticks and contexts interleave, the *)
(* application has last been told what all of them together amount to, and *)
(* of every error, but for what the Tick under way has still to broadcast. *)
ToldIsAssembled ==
    /\ \A key \in Keys \ ChangedKeys :
           Mentioned(read, key) => AmountsTo(read, key, told[key])
    /\ \A m \in read :
           m.kind = "finished" /\ m.error => m.context \in errors \union Errors

(* Nothing is kept of a finished context after the Tick, nor of an earlier *)
(* connection, and whatever is kept is indexed under its context, so that  *)
(* it will be dropped with it.                                             *)
NothingKept ==
    /\ \A key \in DOMAIN Responses :
           /\ Mentioned(read, key)
           /\ Finished(read, key[1]) => key[1] \in FinishedContexts
    /\ \A key \in Keys :
           key \in DOMAIN Responses <=> key \in Find(ContextToKeys, key[1], {})
    /\ phase = "idle" => ChangedKeys = {} /\ FinishedContexts = {}

(* A segment that was told as final is not broadcast again, in particular  *)
(* not when its context finishes.                                          *)
FinalToldOnce ==
    [][\A key \in (ChangedKeys \ ChangedKeys') \intersect DOMAIN Responses :
           ~told[key].bIsFinal]_vars

(* What the application is told is a ResultFeed: a response only grows     *)
(* from one broadcast to the next, even over Ticks that end halfway, and   *)
(* is not heard of again once it is final; the error of a context comes    *)
(* once, when all its segments were told as final, and nothing follows it, *)
(* also when a handler calls Connect amid the Tick.                        *)
Feed == INSTANCE ResultFeed
ImplementsFeed == Feed!Spec

-----------------------------------------------------------------------------
(* What slu.proto says of a client and this one does not do.               *)

(* SLUFinished: "The client is expected to discard any non-finalised       *)
(* segments".                                                              *)
OpenSegmentsDiscarded ==
    \A key \in Keys :
        Mentioned(read, key) /\ told[key].bIsFinal => Ended(read, key)
=============================================================================
