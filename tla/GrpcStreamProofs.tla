-------------------------- MODULE GrpcStreamProofs --------------------------
(***************************************************************************)
(* Theorems about GrpcStream, for any number of calls and messages.        *)
(***************************************************************************)
EXTENDS GrpcStream, FiniteSetTheorems, SequenceTheorems, TLAPS

(* The two ends of a sequence.                                             *)
LEMMA SeqTail ==
  ASSUME NEW T, NEW s \in Seq(T), s # <<>>
  PROVE  /\ Head(s) \in T /\ Head(s) = s[1] /\ 1 \in DOMAIN s
         /\ Tail(s) \in Seq(T) /\ Len(Tail(s)) = Len(s) - 1
         /\ \A i \in DOMAIN Tail(s) : i + 1 \in DOMAIN s /\ Tail(s)[i] = s[i + 1]
OBVIOUS

LEMMA SeqAppend ==
  ASSUME NEW T, NEW s \in Seq(T), NEW e \in T
  PROVE  /\ Append(s, e) \in Seq(T) /\ Len(Append(s, e)) = Len(s) + 1
         /\ DOMAIN Append(s, e) = DOMAIN s \union {Len(s) + 1}
         /\ \A i \in DOMAIN s : Append(s, e)[i] = s[i]
         /\ Append(s, e)[Len(s) + 1] = e
         /\ Len(s) + 1 \notin DOMAIN s
OBVIOUS

(* What the batches of an op set are made of.                              *)
OpsOf(set) ==
    CASE set = "meta_ops"   -> {"RECV_INITIAL_METADATA"}
      [] set = "read_ops"   -> {"RECV_INITIAL_METADATA", "RECV_MESSAGE"}
      [] set = "write_ops"  -> {"SEND_INITIAL_METADATA", "SEND_MESSAGE",
                                "SEND_CLOSE"}
      [] set = "finish_ops" -> {"RECV_INITIAL_METADATA", "RECV_STATUS"}
Idle(set) ==
    /\ set \notin InFlight
    /\ \A i \in DOMAIN finished : finished[i].set # set

(* An op set is in one place: idle, in the core or in the queue.           *)
Places ==
    \A i \in DOMAIN finished :
        /\ finished[i].set \notin InFlight
        /\ \A j \in DOMAIN finished :
               finished[j].set = finished[i].set => i = j

(* An idle op set has nothing left but its message, a busy one the call    *)
(* and the tag it was last used for.                                       *)
SetsInv ==
    \A set \in OpSets :
        /\ ops[set] \subseteq OpsOf(set) /\ batches[set] \subseteq OpsOf(set)
        /\ batches[set] \subseteq given
        /\ Idle(set) => ops[set] \subseteq {"RECV_MESSAGE"}
        /\ ~Idle(set) => /\ Contract!OpSet(asked[set].kind) = set
                         /\ asked[set].tag = return_tag[set]
        /\ return_tag[set] <= calls
        /\ set \in InFlight /\ asked[set].kind = "finish" =>
               "RECV_STATUS" \in batches[set]

(* What the core was given once, a call of that kind asked for.            *)
OnceInv ==
    /\ "SEND_INITIAL_METADATA" \in given => "open" \in begun
    /\ "SEND_CLOSE" \in given => begun \intersect Contract!Last # {}
    /\ "RECV_STATUS" \in given => "finish" \in begun
    /\ "RECV_INITIAL_METADATA" \in given => initial_metadata_received
    /\ initial_metadata_received =>
           begun \intersect {"meta", "read", "finish"} # {}

(* The context and every batch that has not come back hold the call.       *)
RefsInv ==
    /\ IsFiniteSet(InFlight)
    /\ refs = (IF context THEN 1 ELSE 0) + Cardinality(InFlight) + Len(finished)

SentInv == \A i \in DOMAIN sent : sent[i] <= calls

StreamInv == Places /\ SetsInv /\ OnceInv

(* A call, whichever it is: what it adds to the idle op set it works with. *)
Called(kind, added) ==
    /\ kind \in Contract!Kinds /\ MayCall(kind) /\ Perform(kind, added)
    /\ added \subseteq OpsOf(Contract!OpSet(kind)) /\ added # {}
    /\ "SEND_INITIAL_METADATA" \in added => kind = "open"
    /\ "SEND_CLOSE" \in added => kind \in Contract!Last
    /\ "RECV_STATUS" \in added <=> kind = "finish"
    /\ "RECV_INITIAL_METADATA" \in added =>
           kind = "meta" \/ ~initial_metadata_received
    /\ "SEND_MESSAGE" \in added => send_buf' = calls + 1
    /\ send_buf' \in {send_buf, calls + 1}
    /\ initial_metadata_received' =
           (initial_metadata_received \/ kind \in {"meta", "read", "finish"})

Call == \/ StartCall \/ ReadInitialMetadata \/ Read \/ Write \/ WriteLast
        \/ WritesDone \/ Finish
Begins == \E kind \in Contract!Kinds, added \in SUBSET CoreOps : Called(kind, added)

LEMMA OpSetTypes ==
  ASSUME NEW kind \in Contract!Kinds
  PROVE  /\ Contract!OpSet(kind) \in OpSets
         /\ OpsOf(Contract!OpSet(kind)) \subseteq CoreOps
BY DEF Contract!Kinds, Contract!Writes, Contract!OpSet, OpSets, OpsOf, CoreOps,
   Once

(* The seven calls differ in what they add.                                *)
LEMMA CallBegins == ASSUME TypeOK, Call PROVE Begins
<1> USE DEF Called, OpsOf, CoreOps, Once, Contract!Kinds, Contract!Writes,
        Contract!Last, Contract!OpSet, TypeOK
<1>1. CASE StartCall
  <2>1. Called("open", {"SEND_INITIAL_METADATA"})
    BY <1>1 DEF StartCall, SendInitialMetadata
  <2> QED BY <2>1 DEF Begins
<1>2. CASE ReadInitialMetadata
  <2>1. Called("meta", {"RECV_INITIAL_METADATA"})
    BY <1>2 DEF ReadInitialMetadata, RecvInitialMetadata
  <2> QED BY <2>1 DEF Begins
<1>3. CASE Read
  <2>1. Called("read", Metadata \union {"RECV_MESSAGE"})
    BY <1>3 DEF Read, Metadata, RecvInitialMetadata, RecvMessage
  <2>2. Metadata \union {"RECV_MESSAGE"} \in SUBSET CoreOps
    BY DEF Metadata, RecvInitialMetadata
  <2> QED BY <2>1, <2>2 DEF Begins
<1>4. CASE Write
  <2>1. Called("write", {"SEND_MESSAGE"})
    BY <1>4 DEF Write, SendMessage
  <2> QED BY <2>1 DEF Begins
<1>5. CASE WriteLast
  <2>1. Called("write_last", {"SEND_MESSAGE", "SEND_CLOSE"})
    <3>1. SendMessage \union ClientSendClose = {"SEND_MESSAGE", "SEND_CLOSE"}
      BY DEF SendMessage, ClientSendClose
    <3> QED BY <1>5, <3>1 DEF WriteLast
  <2> QED BY <2>1 DEF Begins
<1>6. CASE WritesDone
  <2>1. Called("writes_done", {"SEND_CLOSE"})
    BY <1>6 DEF WritesDone, ClientSendClose
  <2> QED BY <2>1 DEF Begins
<1>7. CASE Finish
  <2>1. Called("finish", Metadata \union {"RECV_STATUS"})
    BY <1>7 DEF Finish, Metadata, RecvInitialMetadata, ClientRecvStatus
  <2>2. Metadata \union {"RECV_STATUS"} \in SUBSET CoreOps
    BY DEF Metadata, RecvInitialMetadata
  <2> QED BY <2>1, <2>2 DEF Begins
<1> QED BY <1>1, <1>2, <1>3, <1>4, <1>5, <1>6, <1>7 DEF Call

(* The contract lets a call begin only with an idle op set, which has      *)
(* nothing left in it but its message.                                     *)
LEMMA OpSetIdle ==
  ASSUME TypeOK, StreamInv, NEW kind \in Contract!Kinds, MayCall(kind)
  PROVE  /\ Idle(Contract!OpSet(kind))
         /\ ops[Contract!OpSet(kind)] \subseteq {"RECV_MESSAGE"}
<1> DEFINE set == Contract!OpSet(kind)
<1>0. set \in OpSets BY OpSetTypes
<1>1. \A op \in Contract!Unreturned : Contract!OpSet(op.kind) # set
  BY DEF MayCall, Contract!MayBegin
<1>2. set \notin InFlight
  <2> SUFFICES ASSUME set \in InFlight PROVE FALSE OBVIOUS
  <2>1. asked[set] \in Contract!Unreturned
    BY DEF Contract!Unreturned, Pending
  <2>2. Contract!OpSet(asked[set].kind) = set
    BY <1>0 DEF StreamInv, SetsInv, Idle
  <2> HIDE DEF set
  <2> QED BY <1>1, <2>1, <2>2
<1>3. ASSUME NEW i \in DOMAIN finished PROVE finished[i].set # set
  <2> SUFFICES ASSUME finished[i].set = set PROVE FALSE OBVIOUS
  <2>1. [kind |-> asked[set].kind, tag |-> return_tag[set]]
            \in Contract!Unreturned
    BY <1>3 DEF Contract!Unreturned, Ready
  <2>2. Contract!OpSet(asked[set].kind) = set
    BY <1>0, <1>3 DEF StreamInv, SetsInv, Idle
  <2> HIDE DEF set
  <2> QED BY <1>1, <2>1, <2>2
<1>4. Idle(set) BY <1>2, <1>3 DEF Idle
<1> QED BY <1>0, <1>4 DEF StreamInv, SetsInv

(***************************************************************************)
(* Types.  That references are counted in natural numbers follows from     *)
(* RefsInv.                                                                *)
(***************************************************************************)
LEMMA RefsNat ==
  ASSUME RefsInv', context' \in BOOLEAN, Len(finished') \in Nat PROVE refs' \in Nat
<1>1. Cardinality(InFlight') \in Nat BY FS_CardinalityType DEF RefsInv
<1> QED BY <1>1 DEF RefsInv

LEMMA TypesAtCall ==
  ASSUME StreamAssumption, TypeOK, NEW kind \in Contract!Kinds,
         NEW added \in SUBSET CoreOps, Called(kind, added), refs' \in Nat
  PROVE  TypeOK'
<1> DEFINE set == Contract!OpSet(kind)
<1>1. set \in OpSets BY OpSetTypes
<1>2. ops[set] \union added \in SUBSET CoreOps
  <2> HIDE DEF set
  <2> QED BY <1>1 DEF TypeOK
<1>3. calls + 1 \in 1..MaxCalls
  BY DEF Called, MayCall, TypeOK, StreamAssumption
<1>4. send_buf' \in 0..MaxCalls BY <1>3 DEF Called, TypeOK, StreamAssumption
<1>5. sent' \in Seq(0..MaxCalls)
  <2>1. sent' = Append(sent, send_buf') \/ sent' = sent
    BY DEF Called, Perform
  <2> DEFINE T == 0..MaxCalls
  <2>2. sent \in Seq(T) /\ send_buf' \in T BY <1>4 DEF TypeOK
  <2> HIDE DEF T
  <2>3. sent' \in Seq(T) BY <2>1, <2>2, SeqAppend
  <2> QED BY <2>3 DEF T
<1>6. call' \in {"none", "live", "dead"} BY DEF Called, Perform, TypeOK
<1>7. /\ initial_metadata_received' \in BOOLEAN /\ aborted' \in BOOLEAN
  BY DEF Called, Perform, TypeOK, Refused
<1>8. asked' \in [OpSets -> [kind : Contract!Kinds, tag : 0..MaxCalls]]
  BY <1>1, <1>3, StreamAssumption DEF Called, Perform, TypeOK
<1>9. owed' \subseteq 1..MaxCalls /\ begun' \subseteq Contract!Kinds
  BY <1>3 DEF Called, Perform, TypeOK
<1>10. return_tag' \in [OpSets -> 0..MaxCalls] /\ calls' \in 0..MaxCalls
  BY <1>1, <1>3, StreamAssumption DEF Called, Perform, TypeOK, OutputTag
<1>11. /\ ops' \in [OpSets -> SUBSET CoreOps]
       /\ batches' \in [OpSets -> SUBSET CoreOps] /\ given' \subseteq CoreOps
  BY <1>1, <1>2 DEF Called, Perform, TypeOK
<1>12. UNCHANGED <<Response, finished, inbox, arrived, context, cqShutdown, got>>
  BY DEF Called, Perform
<1> QED
  BY <1>4, <1>5, <1>6, <1>7, <1>8, <1>9, <1>10, <1>11, <1>12 DEF TypeOK

LEMMA TypesAtNextEvent ==
  ASSUME StreamAssumption, TypeOK, NextEvent, refs' \in Nat PROVE TypeOK'
<1> DEFINE f == Head(finished)
<1>1. f \in [set : OpSets, ok : BOOLEAN, msg : NoMessage..MaxMessages]
  BY SeqTail DEF NextEvent, TypeOK
<1>2. /\ ops' \in [OpSets -> SUBSET CoreOps]
      /\ send_buf' \in 0..MaxCalls
  <2>1. Kept(f.set) \subseteq CoreOps BY <1>1 DEF Kept, TypeOK
  <2> HIDE DEF f
  <2>2. ops' = [ops EXCEPT ![f.set] = Kept(f.set)]
    BY DEF NextEvent, FinalizeResult, f
  <2>3. send_buf' \in {send_buf, 0}
    BY DEF NextEvent, FinalizeResult
  <2> QED BY <1>1, <2>1, <2>2, <2>3, StreamAssumption DEF TypeOK
<1>3. Response' \in Garbled..MaxMessages
  <2>1. Response' = Response \/ (Response' = f.msg /\ f.msg # NoMessage)
    BY DEF NextEvent, FinalizeResult
  <2> HIDE DEF f
  <2> QED BY <1>1, <2>1, StreamAssumption DEF TypeOK, NoMessage, Garbled
<1>4. owed' \subseteq 1..MaxCalls /\ got' \in Nat
  <2>1. owed' \subseteq owed /\ got' \in {got, got + 1}
    BY DEF NextEvent, FinalizeResult
  <2> QED BY <2>1 DEF TypeOK
<1>5. finished' \in Seq([set : OpSets, ok : BOOLEAN, msg : NoMessage..MaxMessages])
  BY SeqTail DEF NextEvent, TypeOK
<1> QED
  BY <1>2, <1>3, <1>4, <1>5
     DEF TypeOK, NextEvent, FinalizeResult, serverVars

LEMMA TypesAtFinishBatch ==
  ASSUME StreamAssumption, TypeOK, NEW set \in OpSets, FinishBatch(set)
  PROVE  TypeOK'
<1>1. PICK ok \in BOOLEAN, msg \in NoMessage..MaxMessages :
          /\ (inbox' = Tail(inbox) /\ inbox # <<>>) \/ UNCHANGED inbox
          /\ finished' = Append(finished, [set |-> set, ok |-> ok, msg |-> msg])
  BY DEF FinishBatch
<1>2. finished' \in Seq([set : OpSets, ok : BOOLEAN, msg : NoMessage..MaxMessages])
  BY <1>1, SeqAppend DEF TypeOK
<1>3. inbox' \in Seq(0..MaxMessages)
  <2> DEFINE T == 0..MaxMessages
  <2>1. inbox \in Seq(T) BY DEF TypeOK
  <2> HIDE DEF T
  <2>2. inbox' \in Seq(T) BY <1>1, <2>1, SeqTail
  <2> QED BY <2>2 DEF T
<1>4. batches' \in [OpSets -> SUBSET CoreOps]
  BY DEF FinishBatch, TypeOK
<1> QED
  BY <1>2, <1>3, <1>4 DEF FinishBatch, TypeOK, setVars, callerVars

LEMMA TypesAtRest ==
  ASSUME StreamAssumption, TypeOK,
         ServerSends \/ CallDies \/ Shutdown \/ UNCHANGED vars
         \/ (ReleaseContext /\ refs' \in Nat)
  PROVE  TypeOK'
<1>1. CASE ServerSends
  <2>1. arrived' \in 0..MaxMessages
    BY <1>1, StreamAssumption DEF ServerSends, TypeOK
  <2>2. arrived + 1 \in 0..MaxMessages /\ 0 \in 0..MaxMessages
    BY <1>1, StreamAssumption DEF ServerSends, TypeOK
  <2>3. inbox' \in Seq(0..MaxMessages)
    <3> DEFINE T == 0..MaxMessages
    <3>1. inbox \in Seq(T) /\ arrived + 1 \in T /\ 0 \in T
      BY <2>2 DEF TypeOK
    <3>2. inbox' \in {Append(inbox, arrived + 1), Append(inbox, 0)}
      BY <1>1 DEF ServerSends, Garbled
    <3> HIDE DEF T
    <3>3. inbox' \in Seq(T) BY <3>1, <3>2, SeqAppend
    <3> QED BY <3>3 DEF T
  <2> QED
    BY <1>1, <2>1, <2>3
       DEF ServerSends, TypeOK, setVars, coreVars, callerVars
<1>2. CASE CallDies
  BY <1>2 DEF CallDies, TypeOK, setVars, coreVars, callerVars
<1>3. CASE Shutdown
  BY <1>3 DEF Shutdown, TypeOK, setVars, coreVars, serverVars
<1>4. CASE ReleaseContext /\ refs' \in Nat
  BY <1>4 DEF ReleaseContext, TypeOK, setVars, coreVars, serverVars
<1>5. CASE UNCHANGED vars
  BY <1>5 DEF TypeOK, vars, setVars, coreVars, serverVars, callerVars
<1> QED BY <1>1, <1>2, <1>3, <1>4, <1>5

(***************************************************************************)
(* Op sets: where they are and what is left in them.                       *)
(***************************************************************************)
LEMMA SetsAtCall ==
  ASSUME TypeOK, StreamInv, NEW kind \in Contract!Kinds,
         NEW added \in SUBSET CoreOps, Called(kind, added)
  PROVE  Places' /\ SetsInv' /\ InFlight' = InFlight \union {Contract!OpSet(kind)}
<1> DEFINE set == Contract!OpSet(kind)
<1>1. set \in OpSets BY OpSetTypes
<1>2. Idle(set) /\ ops[set] \subseteq {"RECV_MESSAGE"}
  BY OpSetIdle DEF Called
<1>3. added \subseteq OpsOf(set) /\ added # {} BY DEF Called
<1>4. /\ ops' = [ops EXCEPT ![set] = ops[set] \union added]
      /\ batches' = [batches EXCEPT ![set] = ops[set] \union added]
      /\ given' = given \union (ops[set] \union added)
      /\ return_tag' = [return_tag EXCEPT ![set] = calls + 1]
      /\ asked' = [asked EXCEPT ![set] = [kind |-> kind, tag |-> calls + 1]]
      /\ calls' = calls + 1 /\ finished' = finished
  BY DEF Called, Perform, OutputTag
<1>5. kind = "finish" => "RECV_STATUS" \in added
  BY DEF Called
<1>6. Contract!OpSet(kind) = set /\ ops[set] \subseteq OpsOf(set)
  BY <1>1 DEF StreamInv, SetsInv
<1> HIDE DEF set
<1>7. InFlight' = InFlight \union {set}
  BY <1>1, <1>3, <1>4 DEF InFlight, TypeOK
<1>8. Places'
  BY <1>2, <1>4, <1>7 DEF StreamInv, Places, Idle
<1>9. ASSUME NEW s \in OpSets, s # set PROVE
        /\ ops'[s] = ops[s] /\ batches'[s] = batches[s]
        /\ asked'[s] = asked[s] /\ return_tag'[s] = return_tag[s]
        /\ (s \in InFlight)' <=> s \in InFlight
        /\ Idle(s)' <=> Idle(s)
  BY <1>1, <1>4, <1>7, <1>9 DEF TypeOK, Idle
<1>10. ~Idle(set)' BY <1>7 DEF Idle
<1>11. SetsInv'
  <2> SUFFICES ASSUME NEW s \in OpSets PROVE
        /\ ops'[s] \subseteq OpsOf(s) /\ batches'[s] \subseteq OpsOf(s)
        /\ batches'[s] \subseteq given'
        /\ Idle(s)' => ops'[s] \subseteq {"RECV_MESSAGE"}
        /\ ~Idle(s)' => /\ Contract!OpSet(asked'[s].kind) = s
                        /\ asked'[s].tag = return_tag'[s]
        /\ return_tag'[s] <= calls'
        /\ (s \in InFlight)' /\ asked'[s].kind = "finish" =>
               "RECV_STATUS" \in batches'[s]
    BY DEF SetsInv, Contract!OpSet, Contract!Writes
  <2>1. CASE s = set
    <3>1. /\ ops'[s] = ops[set] \union added /\ batches'[s] = ops[set] \union added
          /\ asked'[s] = [kind |-> kind, tag |-> calls + 1]
          /\ return_tag'[s] = calls + 1
      BY <1>1, <1>4, <2>1 DEF TypeOK
    <3> QED BY <1>3, <1>4, <1>5, <1>6, <1>10, <2>1, <3>1 DEF TypeOK
  <2>2. CASE s # set
    BY <1>4, <1>9, <2>2 DEF StreamInv, SetsInv, TypeOK
  <2> QED BY <2>1, <2>2
<1> QED BY <1>7, <1>8, <1>11 DEF set

(* A finished batch moves its op set from the core to the queue.           *)
LEMMA SetFinishes ==
  ASSUME TypeOK, StreamInv, NEW set \in OpSets, FinishBatch(set)
  PROVE  /\ InFlight' = InFlight \ {set} /\ set \in InFlight
         /\ DOMAIN finished' = DOMAIN finished \union {Len(finished) + 1}
         /\ Len(finished) + 1 \notin DOMAIN finished
         /\ Len(finished') = Len(finished) + 1
         /\ \A i \in DOMAIN finished : finished'[i] = finished[i]
         /\ finished'[Len(finished) + 1].set = set
<1>1. PICK ok \in BOOLEAN, msg \in NoMessage..MaxMessages :
          finished' = Append(finished, [set |-> set, ok |-> ok, msg |-> msg])
  BY DEF FinishBatch
<1>2. InFlight' = InFlight \ {set} /\ set \in InFlight
  BY DEF FinishBatch, InFlight, TypeOK
<1> DEFINE f == [set |-> set, ok |-> ok, msg |-> msg]
           T == [set : OpSets, ok : BOOLEAN, msg : NoMessage..MaxMessages]
<1>3. f \in T /\ finished \in Seq(T) /\ f.set = set BY DEF TypeOK
<1>4. finished' = Append(finished, f) BY <1>1
<1> HIDE DEF f, T
<1> QED BY <1>2, <1>3, <1>4, SeqAppend

LEMMA SetsAtFinishBatch ==
  ASSUME TypeOK, StreamInv, NEW set \in OpSets, FinishBatch(set)
  PROVE  Places' /\ SetsInv'
<1> DEFINE n == Len(finished) + 1
<1>1. /\ InFlight' = InFlight \ {set} /\ set \in InFlight
      /\ DOMAIN finished' = DOMAIN finished \union {n}
      /\ n \notin DOMAIN finished
      /\ \A i \in DOMAIN finished : finished'[i] = finished[i]
      /\ finished'[n].set = set
  BY SetFinishes
<1> HIDE DEF n
<1>2. Places' BY <1>1 DEF StreamInv, Places
<1>3. ASSUME NEW s \in OpSets PROVE Idle(s)' <=> Idle(s)
  BY <1>1 DEF Idle
<1>4. ASSUME NEW s \in OpSets PROVE batches'[s] \subseteq batches[s]
  BY DEF FinishBatch, TypeOK
<1>5. ASSUME NEW s \in OpSets, (s \in InFlight)'
      PROVE  s \in InFlight /\ batches'[s] = batches[s]
  BY <1>1, <1>5 DEF FinishBatch, TypeOK
<1>6. UNCHANGED <<ops, return_tag, given, asked, calls>>
  BY DEF FinishBatch, setVars, callerVars
<1>7. SetsInv' BY <1>3, <1>4, <1>5, <1>6 DEF StreamInv, SetsInv
<1> QED BY <1>2, <1>7

(* Next makes the op set of the first finished batch idle again.           *)
LEMMA HeadSet ==
  ASSUME TypeOK, NextEvent
  PROVE  /\ Head(finished).set \in OpSets /\ Head(finished) = finished[1]
         /\ 1 \in DOMAIN finished
<1> DEFINE T == [set : OpSets, ok : BOOLEAN, msg : NoMessage..MaxMessages]
<1>1. finished \in Seq(T) /\ finished # <<>>
  BY DEF TypeOK, NextEvent
<1>2. /\ Head(finished) \in T /\ Head(finished) = finished[1]
      /\ 1 \in DOMAIN finished
  <2> HIDE DEF T
  <2> QED BY <1>1, SeqTail
<1> QED BY <1>2

LEMMA SetReturns ==
  ASSUME TypeOK, StreamInv, NextEvent, NEW set \in OpSets,
         set = Head(finished).set
  PROVE  /\ Len(finished) \in Nat /\ Len(finished') = Len(finished) - 1
         /\ UNCHANGED InFlight /\ Places' /\ Idle(set)'
         /\ \A s \in OpSets : s # set => (Idle(s)' <=> Idle(s)) /\ ops'[s] = ops[s]
         /\ ops'[set] \subseteq ops[set] \intersect {"RECV_MESSAGE"}
<1> DEFINE T == [set : OpSets, ok : BOOLEAN, msg : NoMessage..MaxMessages]
<1>1. finished \in Seq(T) /\ finished # <<>> /\ finished' = Tail(finished)
  BY DEF TypeOK, NextEvent
<1>2. set = finished[1].set /\ 1 \in DOMAIN finished
  BY HeadSet
<1>3. UNCHANGED InFlight BY DEF NextEvent, InFlight
<1>4. ops' = [ops EXCEPT ![set] = Kept(set)]
  BY DEF NextEvent, FinalizeResult
<1> HIDE DEF T
<1>5. Len(finished) \in Nat /\ DOMAIN finished = 1..Len(finished)
  BY <1>1
<1>6. /\ DOMAIN finished' = 1..(Len(finished) - 1)
      /\ \A i \in DOMAIN finished' : finished'[i] = finished[i + 1]
      /\ Len(finished') = Len(finished) - 1
  BY <1>1, <1>5, SeqTail
<1>7. \A i \in DOMAIN finished' : i \in Nat /\ i + 1 \in DOMAIN finished /\ i + 1 # 1
  BY <1>5, <1>6
<1>8. Places'
  BY <1>3, <1>5, <1>6, <1>7 DEF StreamInv, Places
<1>9. Idle(set)'
  <2>1. set \notin InFlight BY <1>2 DEF StreamInv, Places
  <2>2. ASSUME NEW i \in DOMAIN finished' PROVE finished'[i].set # set
    BY <1>2, <1>6, <1>7, <2>2 DEF StreamInv, Places
  <2> QED BY <1>3, <2>1, <2>2 DEF Idle
<1>10. ASSUME NEW s \in OpSets, s # set PROVE Idle(s)' <=> Idle(s)
  <2>1. \A j \in DOMAIN finished :
            j = 1 \/ \E i \in DOMAIN finished' : finished'[i] = finished[j]
    <3>1. \A j \in DOMAIN finished :
              j = 1 \/ (j - 1 \in DOMAIN finished' /\ (j - 1) + 1 = j)
      BY <1>5, <1>6
    <3> QED BY <1>6, <3>1
  <2> QED BY <1>2, <1>3, <1>6, <1>7, <1>10, <2>1 DEF Idle
<1>11. \A s \in OpSets : s # set => ops'[s] = ops[s]
  BY <1>4 DEF TypeOK
<1>12. ops'[set] \subseteq ops[set] \intersect {"RECV_MESSAGE"}
  BY <1>4 DEF TypeOK, Kept
<1> QED BY <1>3, <1>5, <1>6, <1>8, <1>9, <1>10, <1>11, <1>12

LEMMA SetsAtNextEvent ==
  ASSUME TypeOK, StreamInv, NextEvent PROVE Places' /\ SetsInv'
<1>1. UNCHANGED <<batches, return_tag, given, asked, calls>>
  BY DEF NextEvent, FinalizeResult
<1>2. PICK set \in OpSets : set = Head(finished).set BY HeadSet
<1>3. /\ UNCHANGED InFlight /\ Places' /\ Idle(set)'
      /\ \A s \in OpSets : s # set => (Idle(s)' <=> Idle(s)) /\ ops'[s] = ops[s]
      /\ ops'[set] \subseteq ops[set] \intersect {"RECV_MESSAGE"}
  BY <1>2, SetReturns
<1>4. ASSUME NEW s \in OpSets PROVE
        /\ ops'[s] \subseteq ops[s]
        /\ Idle(s)' => ops'[s] \subseteq {"RECV_MESSAGE"}
        /\ ~Idle(s)' => ~Idle(s)
        /\ (s \in InFlight)' <=> s \in InFlight
  <2>1. Idle(s) => ops[s] \subseteq {"RECV_MESSAGE"}
    BY DEF StreamInv, SetsInv
  <2>2. CASE s = set BY <1>3, <2>2
  <2>3. CASE s # set BY <1>3, <2>1, <2>3
  <2> QED BY <2>2, <2>3
<1>5. SetsInv' BY <1>1, <1>4 DEF StreamInv, SetsInv
<1> QED BY <1>3, <1>5

LEMMA SetsAtRest ==
  ASSUME StreamInv,
         ServerSends \/ CallDies \/ Shutdown \/ ReleaseContext \/ UNCHANGED vars
  PROVE  Places' /\ SetsInv' /\ UNCHANGED InFlight
<1>1. UNCHANGED <<ops, batches, finished, return_tag, given, asked, calls>>
  BY DEF ServerSends, CallDies, Shutdown, ReleaseContext, vars, setVars,
         coreVars, callerVars
<1> QED BY <1>1 DEF StreamInv, Places, SetsInv, InFlight, Idle

(***************************************************************************)
(* Operations that the core may be given once.                             *)
(***************************************************************************)
LEMMA OnceAtCall ==
  ASSUME TypeOK, StreamInv, NEW kind \in Contract!Kinds,
         NEW added \in SUBSET CoreOps, Called(kind, added)
  PROVE  OnceInv' /\ aborted' = aborted
<1> DEFINE set == Contract!OpSet(kind)
           batch == ops[set] \union added
<1>1. set \in OpSets /\ Idle(set) /\ ops[set] \subseteq {"RECV_MESSAGE"}
  BY OpSetTypes, OpSetIdle DEF Called
<1>2. /\ given' = given \union batch /\ begun' = begun \union {kind}
      /\ aborted' = (aborted \/ Refused(batch)
                         \/ (kind = "meta" /\ initial_metadata_received))
  BY DEF Called, Perform
<1>3. /\ kind = "open" => begun = {}
      /\ kind \in {"meta", "finish"} => kind \notin begun
      /\ kind = "meta" => begun \intersect {"read", "finish"} = {}
      /\ kind \in Contract!Last => begun \intersect (Contract!Last \union {"finish"}) = {}
  BY DEF Called, MayCall, Contract!MayBegin, Contract!Last, Contract!Writes
<1>4. /\ "SEND_INITIAL_METADATA" \in batch => kind = "open"
      /\ "SEND_CLOSE" \in batch => kind \in Contract!Last
      /\ "RECV_STATUS" \in batch => kind = "finish"
      /\ "RECV_INITIAL_METADATA" \in batch =>
             /\ kind = "meta" \/ ~initial_metadata_received
             /\ "RECV_INITIAL_METADATA" \in added
      /\ batch \subseteq ops[set] \union OpsOf(set)
  BY <1>1 DEF Called
<1>5. "RECV_INITIAL_METADATA" \in added => kind \in {"meta", "read", "finish"}
  BY DEF Called, OpsOf, Contract!OpSet, Contract!Writes, Contract!Kinds
<1>6. initial_metadata_received' =
          (initial_metadata_received \/ kind \in {"meta", "read", "finish"})
  BY DEF Called
<1> HIDE DEF batch
<1>7. OnceInv'
  BY <1>2, <1>4, <1>5, <1>6 DEF StreamInv, OnceInv, Contract!Last
<1>8. ~(kind = "meta" /\ initial_metadata_received)
  BY <1>3 DEF StreamInv, OnceInv
<1>9. batch \intersect given \intersect Once = {}
  BY <1>3, <1>4, <1>8 DEF StreamInv, OnceInv, Once, Contract!Last
<1>10. ASSUME NEW s \in InFlight PROVE batch \intersect batches[s] = {}
  <2>1. s # set /\ s \in OpSets BY <1>1 DEF Idle, InFlight
  <2>2. batches[s] \subseteq OpsOf(s) /\ batches[s] \subseteq given
    BY <2>1 DEF StreamInv, SetsInv
  <2>3. ops[set] \subseteq OpsOf(set) BY <1>1 DEF StreamInv, SetsInv
  <2>4. OpsOf(s) \intersect OpsOf(set) \subseteq Once
    BY <1>1, <2>1 DEF OpsOf, OpSets, Once
  <2> QED BY <1>4, <1>9, <2>2, <2>3, <2>4
<1>11. ~Refused(batch) BY <1>9, <1>10 DEF Refused
<1> QED BY <1>2, <1>7, <1>8, <1>11 DEF TypeOK

LEMMA OnceAtRest ==
  ASSUME StreamInv,
         \/ NextEvent \/ Shutdown \/ ReleaseContext \/ ServerSends \/ CallDies
         \/ UNCHANGED vars \/ \E set \in OpSets : FinishBatch(set)
  PROVE  OnceInv' /\ aborted' = aborted
<1>1. UNCHANGED <<given, begun, initial_metadata_received, aborted>>
  BY DEF NextEvent, FinalizeResult, Shutdown, ReleaseContext, ServerSends,
         CallDies, FinishBatch, vars, setVars, coreVars, callerVars
<1> QED BY <1>1 DEF StreamInv, OnceInv

(***************************************************************************)
(* References to the call.                                                 *)
(***************************************************************************)
LEMMA RefsStep ==
  ASSUME TypeOK, StreamInv, RefsInv, [Next]_vars PROVE RefsInv'
<1>1. Len(finished) \in Nat /\ Cardinality(InFlight) \in Nat
  BY FS_CardinalityType DEF TypeOK, RefsInv
<1>2. CASE Call
  <2>1. PICK kind \in Contract!Kinds, added \in SUBSET CoreOps : Called(kind, added)
    BY <1>2, CallBegins DEF Begins
  <2> DEFINE set == Contract!OpSet(kind)
  <2>2. set \notin InFlight /\ InFlight' = InFlight \union {set}
    BY <2>1, SetsAtCall, OpSetIdle DEF Idle, Called
  <2>3. refs' = refs + 1 /\ context' = context /\ finished' = finished
    BY <2>1 DEF Called, Perform, Referenced
  <2> HIDE DEF set
  <2>4. /\ IsFiniteSet(InFlight \union {set})
        /\ Cardinality(InFlight \union {set}) = Cardinality(InFlight) + 1
    BY <2>2, FS_AddElement DEF RefsInv
  <2> QED BY <1>1, <2>2, <2>3, <2>4 DEF RefsInv
<1>3. ASSUME NEW set \in OpSets, FinishBatch(set) PROVE RefsInv'
  <2>1. /\ InFlight' = InFlight \ {set} /\ set \in InFlight
        /\ Len(finished') = Len(finished) + 1
    BY <1>3, SetFinishes
  <2>2. refs' = refs /\ context' = context
    BY <1>3 DEF FinishBatch, callerVars
  <2>3. /\ IsFiniteSet(InFlight \ {set})
        /\ Cardinality(InFlight \ {set}) = Cardinality(InFlight) - 1
    BY <2>1, FS_RemoveElement DEF RefsInv
  <2> QED BY <1>1, <2>1, <2>2, <2>3 DEF RefsInv
<1>4. CASE NextEvent
  <2>1. UNCHANGED InFlight /\ Len(finished') = Len(finished) - 1
    BY <1>4, HeadSet, SetReturns
  <2>2. refs' = refs - 1 /\ context' = context
    BY <1>4 DEF NextEvent, FinalizeResult
  <2> QED BY <1>1, <2>1, <2>2 DEF RefsInv
<1>5. CASE ReleaseContext
  <2>1. UNCHANGED <<finished, InFlight>> BY <1>5 DEF ReleaseContext, coreVars, InFlight
  <2>2. refs' = refs - 1 /\ context /\ ~context' BY <1>5 DEF ReleaseContext
  <2> QED BY <1>1, <2>1, <2>2 DEF RefsInv
<1>6. CASE ServerSends \/ CallDies \/ Shutdown \/ UNCHANGED vars
  <2>1. UNCHANGED <<finished, refs, context, InFlight>>
    BY <1>6 DEF ServerSends, CallDies, Shutdown, vars, coreVars, callerVars, InFlight
  <2> QED BY <2>1 DEF RefsInv
<1> QED BY <1>2, <1>3, <1>4, <1>5, <1>6 DEF Next, Call

(***************************************************************************)
(* Messages.                                                               *)
(***************************************************************************)
LEMMA SentStep ==
  ASSUME StreamAssumption, TypeOK, StreamInv, SentInv, SentOnce, [Next]_vars
  PROVE  SentInv' /\ SentOnce'
<1>1. CASE Call
  <2>1. PICK kind \in Contract!Kinds, added \in SUBSET CoreOps : Called(kind, added)
    BY <1>1, CallBegins DEF Begins
  <2> DEFINE set == Contract!OpSet(kind)
  <2>2. ops[set] \subseteq {"RECV_MESSAGE"} BY <2>1, OpSetIdle DEF Called
  <2>3. \/ sent' = sent
        \/ sent' = Append(sent, calls + 1)
    <3>1. "SEND_MESSAGE" \in ops[set] \union added => send_buf' = calls + 1
      BY <2>1, <2>2 DEF Called
    <3> QED BY <2>1, <3>1 DEF Called, Perform
  <2>4. calls' = calls + 1 /\ calls \in Nat
    BY <2>1, StreamAssumption DEF Called, Perform, TypeOK
  <2>5. sent \in Seq(Nat)
    <3>1. \A i \in DOMAIN sent : sent[i] \in Nat
      BY StreamAssumption DEF TypeOK
    <3> QED BY <3>1 DEF TypeOK
  <2>6. DOMAIN sent = 1..Len(sent) /\ Len(sent) \in Nat BY <2>5
  <2>7. CASE sent' = sent BY <2>4, <2>5, <2>7 DEF SentInv, SentOnce
  <2>8. CASE sent' = Append(sent, calls + 1)
    <3>1. /\ DOMAIN sent' = DOMAIN sent \union {Len(sent) + 1}
          /\ \A i \in DOMAIN sent : sent'[i] = sent[i] /\ sent[i] \in Nat
          /\ sent'[Len(sent) + 1] = calls + 1
      BY <2>4, <2>5, <2>8, SeqAppend
    <3>2. SentInv' BY <2>4, <3>1 DEF SentInv
    <3>3. ASSUME NEW i \in DOMAIN sent', NEW j \in DOMAIN sent', i < j
          PROVE  sent'[i] < sent'[j]
      <4>1. i \in DOMAIN sent BY <2>6, <3>1, <3>3
      <4>2. CASE j \in DOMAIN sent BY <3>1, <3>3, <4>1, <4>2 DEF SentOnce
      <4>3. CASE j = Len(sent) + 1
        BY <2>4, <3>1, <4>1, <4>3 DEF SentInv
      <4> QED BY <3>1, <4>2, <4>3
    <3> QED BY <3>2, <3>3 DEF SentOnce
  <2> QED BY <2>3, <2>7, <2>8
<1>2. CASE ~Call
  <2>1. UNCHANGED <<sent, calls>>
    BY <1>2 DEF Next, Call, NextEvent, FinalizeResult, Shutdown, ReleaseContext,
       ServerSends, CallDies, FinishBatch, vars, coreVars, callerVars
  <2> QED BY <2>1 DEF SentInv, SentOnce
<1> QED BY <1>1, <1>2

(***************************************************************************)
(* The invariant and the theorems.                                         *)
(***************************************************************************)
Inv == TypeOK /\ StreamInv /\ RefsInv /\ SentInv /\ SentOnce /\ NeverAborts

LEMMA InvInit == ASSUME StreamAssumption, Init PROVE Inv
<1>1. InFlight = {} BY DEF Init, InFlight
<1>2. IsFiniteSet(InFlight) /\ Cardinality(InFlight) = 0
  BY <1>1, FS_EmptySet
<1>3. RefsInv BY <1>2 DEF Init, RefsInv
<1>4. asked \in [OpSets -> [kind : Contract!Kinds, tag : 0..MaxCalls]]
  BY StreamAssumption DEF Init, Contract!Kinds, Contract!Writes
<1>5. /\ ops \in [OpSets -> SUBSET CoreOps] /\ batches \in [OpSets -> SUBSET CoreOps]
      /\ return_tag \in [OpSets -> 0..MaxCalls] /\ Response \in Garbled..MaxMessages
  BY StreamAssumption DEF Init, Garbled
<1>6. /\ finished = <<>> /\ inbox = <<>> /\ sent = <<>>
      /\ {0} \subseteq 0..MaxCalls /\ 0 \in 0..MaxMessages
  BY StreamAssumption DEF Init
<1>7. TypeOK
  <2>1. /\ finished \in Seq([set : OpSets, ok : BOOLEAN, msg : NoMessage..MaxMessages])
        /\ inbox \in Seq(0..MaxMessages) /\ sent \in Seq(0..MaxCalls)
    BY <1>6
  <2>2. /\ send_buf \in 0..MaxCalls /\ refs \in Nat /\ given \subseteq CoreOps
        /\ arrived \in 0..MaxMessages /\ calls \in 0..MaxCalls /\ got \in Nat
        /\ owed \subseteq 1..MaxCalls /\ begun \subseteq Contract!Kinds
    BY <1>6 DEF Init
  <2> QED BY <1>4, <1>5, <2>1, <2>2 DEF Init, TypeOK
<1>8. StreamInv
  BY <1>1, StreamAssumption
     DEF Init, StreamInv, Places, SetsInv, OnceInv, Idle
<1> QED BY <1>3, <1>7, <1>8 DEF Init, Inv, SentInv, SentOnce, NeverAborts

LEMMA InvStep ==
  ASSUME StreamAssumption, Inv, [Next]_vars PROVE Inv'
<1> USE DEF Inv
<1>1. RefsInv' BY RefsStep
<1>2. SentInv' /\ SentOnce' BY SentStep
<1>3. CASE Call
  <2>1. PICK kind \in Contract!Kinds, added \in SUBSET CoreOps : Called(kind, added)
    BY <1>3, CallBegins DEF Begins
  <2>2. refs' \in Nat
    BY <2>1 DEF Called, Perform, Referenced, TypeOK
  <2>3. TypeOK' BY <2>1, <2>2, TypesAtCall
  <2>4. StreamInv' /\ aborted' = aborted
    BY <2>1, SetsAtCall, OnceAtCall DEF StreamInv
  <2> QED BY <1>1, <1>2, <2>3, <2>4 DEF NeverAborts
<1>4. ASSUME NEW set \in OpSets, FinishBatch(set) PROVE Inv'
  <2>1. TypeOK' BY <1>4, TypesAtFinishBatch
  <2>2. Places' /\ SetsInv' BY <1>4, SetsAtFinishBatch
  <2>3. OnceInv' /\ aborted' = aborted BY <1>4, OnceAtRest
  <2> QED BY <1>1, <1>2, <2>1, <2>2, <2>3 DEF StreamInv, NeverAborts
<1>5. CASE NextEvent
  <2> DEFINE T == [set : OpSets, ok : BOOLEAN, msg : NoMessage..MaxMessages]
  <2>1. context' \in BOOLEAN /\ Len(finished') \in Nat
    <3>1. finished \in Seq(T) /\ finished # <<>> /\ finished' = Tail(finished)
      BY <1>5 DEF NextEvent, TypeOK
    <3> HIDE DEF T
    <3>2. finished' \in Seq(T) BY <3>1, SeqTail
    <3> QED BY <1>5, <3>2 DEF NextEvent, TypeOK
  <2>2. refs' \in Nat BY <1>1, <2>1, RefsNat
  <2>3. TypeOK' BY <1>5, <2>2, TypesAtNextEvent
  <2>4. Places' /\ SetsInv' BY <1>5, SetsAtNextEvent
  <2>5. OnceInv' /\ aborted' = aborted BY <1>5, OnceAtRest
  <2> QED BY <1>1, <1>2, <2>3, <2>4, <2>5 DEF StreamInv, NeverAborts
<1>6. CASE ReleaseContext
  <2>1. context' \in BOOLEAN /\ Len(finished') \in Nat
    <3>1. context' = FALSE /\ finished' = finished
      BY <1>6 DEF ReleaseContext, coreVars
    <3>2. Len(finished) \in Nat BY DEF TypeOK
    <3> QED BY <3>1, <3>2
  <2>2. refs' \in Nat BY <1>1, <2>1, RefsNat
  <2>3. TypeOK' BY <1>6, <2>2, TypesAtRest
  <2>4. Places' /\ SetsInv' BY <1>6, SetsAtRest
  <2>5. OnceInv' /\ aborted' = aborted BY <1>6, OnceAtRest
  <2> QED BY <1>1, <1>2, <2>3, <2>4, <2>5 DEF StreamInv, NeverAborts
<1>7. CASE ServerSends \/ CallDies \/ Shutdown \/ UNCHANGED vars
  <2>1. TypeOK' BY <1>7, TypesAtRest
  <2>2. Places' /\ SetsInv' BY <1>7, SetsAtRest
  <2>3. OnceInv' /\ aborted' = aborted BY <1>7, OnceAtRest
  <2> QED BY <1>1, <1>2, <2>1, <2>2, <2>3 DEF StreamInv, NeverAborts
<1> QED BY <1>3, <1>4, <1>5, <1>6, <1>7 DEF Next, Call

LEMMA InvAlways == ASSUME StreamAssumption PROVE Spec => []Inv
<1>1. Init => Inv BY InvInit
<1>2. Inv /\ [Next]_vars => Inv' BY InvStep
<1> QED BY <1>1, <1>2, PTL DEF Spec

(* Every variable of the stream, its op sets and the queue keeps its type. *)
THEOREM StreamTypes == ASSUME StreamAssumption PROVE Spec => []TypeOK
<1>1. Inv => TypeOK BY DEF Inv
<1> QED BY <1>1, InvAlways, PTL

(* Whatever sequence of calls the contract allows, no batch is refused and *)
(* no assertion of the stream fails.                                       *)
THEOREM BatchesAreAccepted == ASSUME StreamAssumption PROVE Spec => []NeverAborts
<1>1. Inv => NeverAborts BY DEF Inv
<1> QED BY <1>1, InvAlways, PTL

(* Every message goes to the core once and in the order of the Writes.     *)
THEOREM MessagesGoOutOnce == ASSUME StreamAssumption PROVE Spec => []SentOnce
<1>1. Inv => SentOnce BY DEF Inv
<1> QED BY <1>1, InvAlways, PTL

(* The call, whose memory holds the op sets, outlives every batch.         *)
THEOREM CallOutlivesBatches == ASSUME StreamAssumption PROVE Spec => []OpSetsLive
<1>1. ASSUME Inv PROVE OpSetsLive
  <2>1. Len(finished) \in Nat /\ Cardinality(InFlight) \in Nat
    BY <1>1, FS_CardinalityType DEF Inv, TypeOK, RefsInv
  <2>2. InFlight # {} => Cardinality(InFlight) # 0
    BY <1>1, FS_EmptySet DEF Inv, RefsInv
  <2>3. finished # <<>> => Len(finished) # 0
    BY <1>1 DEF Inv, TypeOK
  <2> QED BY <1>1, <2>1, <2>2, <2>3 DEF Inv, RefsInv, OpSetsLive
<1> QED BY <1>1, InvAlways, PTL

(***************************************************************************)
(* The messages.  What a read will return is the next one, and behind it   *)
(* the inbox holds the rest, in order and none missing, among those that   *)
(* do not parse.                                                           *)
(***************************************************************************)
Carries(f) == f.msg > Garbled
Carried == \E i \in DOMAIN finished : Carries(finished[i])
Taken == IF Carried THEN got + 1 ELSE got

Following(queue, base, last) ==
    /\ base <= last
    /\ \A i \in DOMAIN queue : queue[i] = Garbled \/ queue[i] \in (base + 1)..last
    /\ \A i, j \in DOMAIN queue :
           i < j /\ queue[i] # Garbled /\ queue[j] # Garbled => queue[i] < queue[j]
    /\ \A n \in (base + 1)..last : \E i \in DOMAIN queue : queue[i] = n

MessageInv ==
    /\ \A i \in DOMAIN finished : finished[i].msg # NoMessage =>
           finished[i].set = "read_ops" /\ finished[i].ok
    /\ \A i \in DOMAIN finished : Carries(finished[i]) => finished[i].msg = got + 1
    /\ Following(inbox, Taken, arrived)

LEMMA FollowingAppend ==
  ASSUME NEW queue \in Seq(Nat), NEW base \in Nat, NEW last \in Nat,
         Following(queue, base, last)
  PROVE  /\ Following(Append(queue, last + 1), base, last + 1)
         /\ Following(Append(queue, Garbled), base, last)
<1>0. DOMAIN queue = 1..Len(queue) /\ Len(queue) \in Nat OBVIOUS
<1>1. ASSUME NEW e \in Nat
      PROVE  /\ DOMAIN Append(queue, e) = DOMAIN queue \union {Len(queue) + 1}
             /\ \A i \in DOMAIN queue : Append(queue, e)[i] = queue[i]
             /\ Append(queue, e)[Len(queue) + 1] = e
  BY SeqAppend
<1>2. Following(Append(queue, last + 1), base, last + 1)
  <2> DEFINE q == Append(queue, last + 1)
  <2>1. /\ DOMAIN q = DOMAIN queue \union {Len(queue) + 1}
        /\ \A i \in DOMAIN queue : q[i] = queue[i]
        /\ q[Len(queue) + 1] = last + 1
    BY <1>1
  <2> HIDE DEF q
  <2>2. \A i \in DOMAIN q : q[i] = Garbled \/ q[i] \in (base + 1)..(last + 1)
    BY <2>1 DEF Following
  <2>3. ASSUME NEW i \in DOMAIN q, NEW j \in DOMAIN q,
               i < j, q[i] # Garbled, q[j] # Garbled
        PROVE  q[i] < q[j]
    <3>1. i \in DOMAIN queue BY <1>0, <2>1, <2>3
    <3> QED BY <2>1, <2>3, <3>1 DEF Following
  <2>4. ASSUME NEW n \in (base + 1)..(last + 1) PROVE \E i \in DOMAIN q : q[i] = n
    <3>1. CASE n = last + 1 BY <2>1, <3>1
    <3>2. CASE n \in (base + 1)..last BY <2>1, <3>2 DEF Following
    <3> QED BY <3>1, <3>2
  <2>5. base <= last + 1 BY DEF Following
  <2>6. Following(q, base, last + 1) BY <2>2, <2>3, <2>4, <2>5 DEF Following
  <2> QED BY <2>6 DEF q
<1>3. Following(Append(queue, Garbled), base, last)
  <2> DEFINE q == Append(queue, Garbled)
  <2>1. /\ DOMAIN q = DOMAIN queue \union {Len(queue) + 1}
        /\ \A i \in DOMAIN queue : q[i] = queue[i]
        /\ q[Len(queue) + 1] = Garbled
    BY <1>1 DEF Garbled
  <2> HIDE DEF q
  <2>2. \A i \in DOMAIN q : q[i] = Garbled \/ q[i] \in (base + 1)..last
    BY <2>1 DEF Following
  <2>3. ASSUME NEW i \in DOMAIN q, NEW j \in DOMAIN q,
               i < j, q[i] # Garbled, q[j] # Garbled
        PROVE  q[i] < q[j]
    <3>1. i \in DOMAIN queue /\ j \in DOMAIN queue BY <2>1, <2>3
    <3> QED BY <2>1, <2>3, <3>1 DEF Following
  <2>4. ASSUME NEW n \in (base + 1)..last PROVE \E i \in DOMAIN q : q[i] = n
    <3>1. PICK i \in DOMAIN queue : queue[i] = n BY DEF Following
    <3> QED BY <2>1, <3>1
  <2>5. base <= last BY DEF Following
  <2>6. Following(q, base, last) BY <2>2, <2>3, <2>4, <2>5 DEF Following
  <2> QED BY <2>6 DEF q
<1> QED BY <1>2, <1>3

LEMMA FollowingTail ==
  ASSUME NEW queue \in Seq(Nat), queue # <<>>, NEW base \in Nat, NEW last \in Nat,
         Following(queue, base, last)
  PROVE  /\ Head(queue) = Garbled => Following(Tail(queue), base, last)
         /\ Head(queue) # Garbled => /\ Head(queue) = base + 1
                                     /\ Following(Tail(queue), base + 1, last)
<1> DEFINE t == Tail(queue)
<1>1. /\ Head(queue) \in Nat /\ Head(queue) = queue[1] /\ 1 \in DOMAIN queue
      /\ Len(t) = Len(queue) - 1 /\ t \in Seq(Nat)
      /\ \A i \in DOMAIN t : i + 1 \in DOMAIN queue /\ t[i] = queue[i + 1]
  BY SeqTail
<1>2. DOMAIN queue = 1..Len(queue) /\ DOMAIN t = 1..Len(t) /\ Len(queue) \in Nat
  BY <1>1
<1>3. ASSUME NEW k \in DOMAIN queue, k # 1
      PROVE  k - 1 \in DOMAIN t /\ t[k - 1] = queue[k]
  <2> HIDE DEF t
  <2>1. k \in 1..Len(queue) /\ k # 1 BY <1>2, <1>3
  <2>2. k - 1 \in 1..Len(t) /\ (k - 1) + 1 = k
    <3>1. Len(t) = Len(queue) - 1 BY <1>1
    <3> QED BY ONLY <1>2, <2>1, <3>1
  <2> QED BY <1>1, <1>2, <2>2
<1> HIDE DEF t
<1>0. \A i, j \in DOMAIN queue :
          i < j /\ queue[i] # Garbled /\ queue[j] # Garbled => queue[i] < queue[j]
  BY DEF Following
<1>4. ASSUME NEW i \in DOMAIN t, NEW j \in DOMAIN t,
             i < j, t[i] # Garbled, t[j] # Garbled
      PROVE  t[i] < t[j]
  <2>1. /\ i + 1 \in DOMAIN queue /\ t[i] = queue[i + 1]
        /\ j + 1 \in DOMAIN queue /\ t[j] = queue[j + 1]
    BY <1>1
  <2>2. i + 1 < j + 1 BY <1>2, <1>4
  <2> QED BY <1>0, <1>4, <2>1, <2>2
<1>5. CASE Head(queue) = Garbled
  <2>1. ASSUME NEW n \in (base + 1)..last PROVE \E i \in DOMAIN t : t[i] = n
    <3>1. PICK k \in DOMAIN queue : queue[k] = n BY DEF Following
    <3>2. k # 1 BY <1>1, <1>5, <3>1 DEF Garbled
    <3> QED BY <1>3, <3>1, <3>2
  <2>2. \A i \in DOMAIN t : t[i] = Garbled \/ t[i] \in (base + 1)..last
    BY <1>1 DEF Following
  <2> QED BY <1>4, <1>5, <2>1, <2>2 DEF Following, t
<1>6. CASE Head(queue) # Garbled
  <2>1. Head(queue) \in (base + 1)..last BY <1>1, <1>6 DEF Following
  <2>2. Head(queue) = base + 1
    <3>1. base + 1 \in (base + 1)..last BY <2>1
    <3>2. PICK k \in DOMAIN queue : queue[k] = base + 1 BY <3>1 DEF Following
    <3>3. CASE k = 1 BY <1>1, <3>2, <3>3
    <3>4. CASE k # 1
      <4>1. 1 < k BY <1>2, <3>4
      <4>2. base + 1 # Garbled BY DEF Garbled
      <4>3. queue[1] < queue[k]
        BY <1>0, <1>1, <1>6, <3>2, <4>1, <4>2
      <4> QED BY <1>1, <2>1, <3>2, <4>3
    <3> QED BY <3>3, <3>4
  <2>3. ASSUME NEW i \in DOMAIN t, t[i] # Garbled PROVE t[i] \in (base + 2)..last
    <3>1. i + 1 \in DOMAIN queue /\ t[i] = queue[i + 1] /\ 1 < i + 1
      BY <1>1, <1>2
    <3>2. queue[1] < queue[i + 1]
      BY <1>1, <1>6, <2>3, <3>1 DEF Following
    <3>3. queue[i + 1] \in (base + 1)..last BY <2>3, <3>1 DEF Following
    <3> QED BY <1>1, <2>2, <3>1, <3>2, <3>3
  <2>4. ASSUME NEW n \in (base + 2)..last PROVE \E i \in DOMAIN t : t[i] = n
    <3>1. PICK k \in DOMAIN queue : queue[k] = n BY DEF Following
    <3>2. k # 1 BY <1>1, <2>2, <3>1
    <3> QED BY <1>3, <3>1, <3>2
  <2>5. base + 1 <= last /\ (base + 1) + 1 = base + 2 BY <2>1
  <2>6. Following(t, base + 1, last)
    BY <1>4, <2>3, <2>4, <2>5 DEF Following
  <2> QED BY <1>6, <2>2, <2>6 DEF t
<1> QED BY <1>5, <1>6 DEF t

LEMMA MessageInit == ASSUME StreamAssumption, Init PROVE MessageInv
BY DEF Init, MessageInv, Carried, Taken, Following

(* The last read's event is the only one that carries a message.           *)
LEMMA MessageAtFinishBatch ==
  ASSUME StreamAssumption, TypeOK, StreamInv, MessageInv,
         NEW set \in OpSets, FinishBatch(set)
  PROVE  MessageInv'
<1> DEFINE T == [set : OpSets, ok : BOOLEAN, msg : NoMessage..MaxMessages]
<1>1. PICK ok \in BOOLEAN, msg \in NoMessage..MaxMessages :
          /\ \/ /\ "RECV_MESSAGE" \in batches[set] /\ ok
                /\ inbox # <<>> /\ msg = Head(inbox) /\ inbox' = Tail(inbox)
             \/ msg = NoMessage /\ UNCHANGED inbox
          /\ finished' = Append(finished, [set |-> set, ok |-> ok, msg |-> msg])
  BY DEF FinishBatch
<1>2. set \in InFlight /\ UNCHANGED <<got, arrived>>
  BY DEF FinishBatch, callerVars
<1> DEFINE e == [set |-> set, ok |-> ok, msg |-> msg]
<1>3. /\ DOMAIN finished' = DOMAIN finished \union {Len(finished) + 1}
      /\ \A i \in DOMAIN finished : finished'[i] = finished[i]
      /\ finished'[Len(finished) + 1] = e
  <2>1. finished \in Seq(T) /\ e \in T BY DEF TypeOK
  <2> HIDE DEF T, e
  <2>2. finished' = Append(finished, e) BY <1>1 DEF e
  <2> QED BY <2>1, <2>2, SeqAppend
<1>4. e.set = set /\ e.ok = ok /\ e.msg = msg OBVIOUS
<1> HIDE DEF e
<1>5. inbox \in Seq(Nat) /\ got \in Nat /\ arrived \in Nat
  <2>1. \A i \in DOMAIN inbox : inbox[i] \in Nat BY StreamAssumption DEF TypeOK
  <2> QED BY <2>1, StreamAssumption DEF TypeOK
<1>6. CASE msg = NoMessage /\ UNCHANGED inbox
  <2>1. Carried' <=> Carried BY <1>3, <1>4, <1>6 DEF Carried, Carries, NoMessage, Garbled
  <2>2. Taken' = Taken BY <1>2, <2>1 DEF Taken
  <2> QED
    BY <1>2, <1>3, <1>4, <1>6, <2>2
       DEF MessageInv, Carries, NoMessage, Garbled
<1>7. CASE /\ "RECV_MESSAGE" \in batches[set] /\ ok
           /\ inbox # <<>> /\ msg = Head(inbox) /\ inbox' = Tail(inbox)
  <2>1. set = "read_ops"
    <3>1. "RECV_MESSAGE" \in OpsOf(set) BY <1>7 DEF StreamInv, SetsInv
    <3> QED BY <3>1 DEF OpsOf, OpSets
  <2>2. \A i \in DOMAIN finished : finished[i].set # "read_ops"
    BY <1>2, <2>1 DEF StreamInv, Places
  <2>3. \A i \in DOMAIN finished : finished[i].msg = NoMessage
    BY <2>2 DEF MessageInv
  <2>4. ~Carried /\ Taken = got
    BY <2>3 DEF Carried, Carries, Taken, NoMessage, Garbled
  <2>5. Carried' <=> msg > Garbled
    BY <1>3, <1>4, <2>3 DEF Carried, Carries, NoMessage, Garbled
  <2>6. Following(inbox, got, arrived) BY <2>4 DEF MessageInv
  <2>7. /\ msg = Garbled => Following(inbox', got, arrived)
        /\ msg # Garbled => msg = got + 1 /\ Following(inbox', got + 1, arrived)
    BY <1>5, <1>7, <2>6, FollowingTail
  <2>8. msg > Garbled <=> msg # Garbled
    BY <1>5, <2>7 DEF Garbled
  <2>9. Following(inbox', Taken', arrived')
    BY <1>2, <2>5, <2>7, <2>8 DEF Taken
  <2>10. \A i \in DOMAIN finished' : finished'[i].msg # NoMessage =>
             finished'[i].set = "read_ops" /\ finished'[i].ok
    BY <1>3, <1>4, <1>7, <2>1, <2>3
  <2>11. \A i \in DOMAIN finished' : Carries(finished'[i]) =>
             finished'[i].msg = got' + 1
    BY <1>2, <1>3, <1>4, <2>3, <2>7, <2>8 DEF Carries, NoMessage, Garbled
  <2> QED BY <2>9, <2>10, <2>11 DEF MessageInv
<1> QED BY <1>1, <1>6, <1>7

LEMMA MessageAtNextEvent ==
  ASSUME StreamAssumption, TypeOK, StreamInv, MessageInv, NextEvent
  PROVE  /\ MessageInv'
         /\ got' # got => Response' = got'
<1> DEFINE T == [set : OpSets, ok : BOOLEAN, msg : NoMessage..MaxMessages]
           f == Head(finished)
<1>1. /\ f \in T /\ f = finished[1] /\ 1 \in DOMAIN finished
      /\ \A i \in DOMAIN finished' :
             i + 1 \in DOMAIN finished /\ finished'[i] = finished[i + 1]
      /\ Len(finished') = Len(finished) - 1 /\ Len(finished) \in Nat
      /\ DOMAIN finished = 1..Len(finished) /\ DOMAIN finished' = 1..Len(finished')
  <2>1. finished \in Seq(T) /\ finished # <<>> /\ finished' = Tail(finished)
    BY DEF NextEvent, TypeOK
  <2> HIDE DEF T
  <2>2. finished' \in Seq(T) BY <2>1, SeqTail
  <2> QED BY <2>1, <2>2, SeqTail
<1>2. /\ got' = IF f.set = "read_ops" /\ Status(f) THEN got + 1 ELSE got
      /\ Response' = IF f.msg = NoMessage \/ ~f.ok THEN Response ELSE f.msg
      /\ UNCHANGED <<inbox, arrived>>
  BY DEF NextEvent, FinalizeResult, serverVars
<1>3. f.msg \in NoMessage..MaxMessages /\ f.ok \in BOOLEAN BY <1>1
<1>4. f.msg # NoMessage => f.set = "read_ops" /\ f.ok BY <1>1 DEF MessageInv
<1>5. Carries(f) => f.msg = got + 1 BY <1>1 DEF MessageInv
<1> HIDE DEF f, T
<1>6. Carries(f) <=> f.set = "read_ops" /\ Status(f)
  BY <1>3, <1>4, StreamAssumption DEF Carries, Status, NoMessage, Garbled
<1>7. got \in Nat BY DEF TypeOK
<1>8. ASSUME NEW k \in DOMAIN finished, k # 1
      PROVE  k - 1 \in DOMAIN finished' /\ finished'[k - 1] = finished[k]
  <2>1. k - 1 \in 1..Len(finished') BY <1>1, <1>8
  <2>2. (k - 1) + 1 = k BY <1>1
  <2> QED BY <1>1, <2>1, <2>2
<1>9. CASE Carries(f)
  <2>1. got' = got + 1 /\ Response' = got + 1
    BY <1>2, <1>4, <1>5, <1>6, <1>7, <1>9 DEF Carries, NoMessage, Garbled
  <2>2. ASSUME NEW i \in DOMAIN finished' PROVE finished'[i].msg = NoMessage
    <3>1. i + 1 \in DOMAIN finished /\ finished'[i] = finished[i + 1] /\ i + 1 # 1
      BY <1>1
    <3>2. f.set = "read_ops" BY <1>6, <1>9
    <3>3. finished[i + 1].set # "read_ops"
      BY <1>1, <3>1, <3>2 DEF StreamInv, Places
    <3> QED BY <3>1, <3>3 DEF MessageInv
  <2>3. ~Carried' BY <2>2 DEF Carried, Carries, NoMessage, Garbled
  <2>4. Carried BY <1>1, <1>9 DEF Carried
  <2>5. Taken' = Taken BY <2>1, <2>3, <2>4 DEF Taken
  <2>6. MessageInv'
    BY <1>2, <2>2, <2>5 DEF MessageInv, Carries, NoMessage, Garbled
  <2> QED BY <2>1, <2>6
<1>10. CASE ~Carries(f)
  <2>1. got' = got BY <1>2, <1>6, <1>10
  <2>2. Carried' => Carried BY <1>1 DEF Carried
  <2>3. Carried => Carried'
    <3> SUFFICES ASSUME NEW k \in DOMAIN finished, Carries(finished[k])
                 PROVE  Carried'
      BY DEF Carried
    <3>1. k # 1 BY <1>1, <1>10
    <3> QED BY <1>8, <3>1 DEF Carried
  <2>4. Taken' = Taken BY <2>1, <2>2, <2>3 DEF Taken
  <2>5. MessageInv' BY <1>1, <1>2, <2>1, <2>4 DEF MessageInv
  <2> QED BY <2>1, <2>5
<1> QED BY <1>9, <1>10

LEMMA MessageStep ==
  ASSUME StreamAssumption, Inv, MessageInv, [Next]_vars
  PROVE  MessageInv' /\ (got' # got => Response' = got')
<1> USE DEF Inv
<1>1. CASE NextEvent BY <1>1, MessageAtNextEvent
<1>2. ASSUME NEW set \in OpSets, FinishBatch(set)
      PROVE  MessageInv' /\ got' = got
  BY <1>2, MessageAtFinishBatch DEF FinishBatch, callerVars
<1>3. CASE ServerSends
  <2>1. /\ UNCHANGED <<finished, got>>
        /\ \/ inbox' = Append(inbox, arrived + 1) /\ arrived' = arrived + 1
           \/ inbox' = Append(inbox, Garbled) /\ UNCHANGED arrived
    BY <1>3 DEF ServerSends, coreVars, callerVars
  <2>2. inbox \in Seq(Nat) /\ got \in Nat /\ arrived \in Nat /\ Taken \in Nat
    <3>1. \A i \in DOMAIN inbox : inbox[i] \in Nat
      BY StreamAssumption DEF TypeOK
    <3> QED BY <3>1, StreamAssumption DEF TypeOK, Taken
  <2>3. Taken' = Taken BY <2>1 DEF Taken, Carried
  <2>4. Following(inbox', Taken, arrived')
    BY <2>1, <2>2, FollowingAppend DEF MessageInv
  <2> QED BY <2>1, <2>3, <2>4 DEF MessageInv
<1>4. CASE Call \/ Shutdown \/ ReleaseContext \/ CallDies \/ UNCHANGED vars
  <2>1. UNCHANGED <<finished, got, inbox, arrived>>
    <3>1. CASE Call
      BY <3>1, CallBegins DEF Begins, Called, Perform
    <3>2. CASE ~Call
      BY <1>4, <3>2 DEF Shutdown, ReleaseContext, CallDies, vars, coreVars,
         serverVars, callerVars
    <3> QED BY <3>1, <3>2
  <2>2. Taken' = Taken BY <2>1 DEF Taken, Carried
  <2> QED BY <2>1, <2>2 DEF MessageInv
<1> QED BY <1>1, <1>2, <1>3, <1>4 DEF Next, Call

(* Reads return the messages that parse, each once and in the order they   *)
(* came: none is skipped with one that does not parse.                     *)
THEOREM ReadsComeInOrder == ASSUME StreamAssumption PROVE Spec => ReadsInOrder
<1>1. Init => MessageInv BY MessageInit
<1>2. Inv /\ MessageInv /\ [Next]_vars => MessageInv' BY MessageStep
<1>3. Inv /\ MessageInv /\ [Next]_vars => [got' # got => Response' = got']_vars
  BY MessageStep
<1> QED BY <1>1, <1>2, <1>3, InvAlways, PTL DEF Spec, ReadsInOrder

(***************************************************************************)
(* The contract.                                                           *)
(***************************************************************************)
LEMMA FunctionIsSeq ==
  ASSUME NEW T, NEW n \in Nat, NEW s \in [1..n -> T]
  PROVE  s \in Seq(T) /\ Len(s) = n
OBVIOUS

(* A sequence that has the elements of another one and one behind or       *)
(* before them.                                                            *)
LEMMA IsAppend ==
  ASSUME NEW T, NEW n \in Nat, NEW s \in [1..n -> T], NEW t \in [1..(n + 1) -> T],
         \A i \in 1..n : t[i] = s[i]
  PROVE  t = Append(s, t[n + 1])
<1>1. s \in Seq(T) /\ Len(s) = n BY FunctionIsSeq
<1>2. t \in Seq(T) /\ Len(t) = n + 1 BY FunctionIsSeq
<1>3. t[n + 1] \in T OBVIOUS
<1>4. /\ Append(s, t[n + 1]) \in Seq(T) /\ Len(Append(s, t[n + 1])) = n + 1
      /\ \A i \in 1..n : Append(s, t[n + 1])[i] = s[i]
      /\ Append(s, t[n + 1])[n + 1] = t[n + 1]
  BY <1>1, <1>3, AppendProperties
<1>5. ASSUME NEW i \in 1..(n + 1) PROVE Append(s, t[n + 1])[i] = t[i]
  <2>1. i \in 1..n \/ i = n + 1 OBVIOUS
  <2> QED BY <1>4, <2>1
<1> QED BY <1>2, <1>4, <1>5, SeqEqual

LEMMA IsTail ==
  ASSUME NEW T, NEW n \in Nat, NEW s \in [1..(n + 1) -> T], NEW t \in [1..n -> T],
         \A i \in 1..n : t[i] = s[i + 1]
  PROVE  t = Tail(s) /\ s # <<>>
<1>1. s \in Seq(T) /\ Len(s) = n + 1 /\ s # <<>>
  <2>1. s \in Seq(T) /\ Len(s) = n + 1 BY FunctionIsSeq
  <2> QED BY <2>1
<1>2. t \in Seq(T) /\ Len(t) = n BY FunctionIsSeq
<1>3. /\ Tail(s) \in Seq(T) /\ Len(Tail(s)) = n
      /\ \A i \in 1..n : Tail(s)[i] = s[i + 1]
  BY <1>1, HeadTailProperties
<1> QED BY <1>1, <1>2, <1>3, SeqEqual

LEMMA CallBeginsContract ==
  ASSUME TypeOK, StreamInv, NEW kind \in Contract!Kinds,
         NEW added \in SUBSET CoreOps, Called(kind, added)
  PROVE  Contract!Begin(kind, calls + 1) /\ Contract!Next
<1> DEFINE set == Contract!OpSet(kind)
           op == [kind |-> kind, tag |-> calls + 1]
<1>1. set \in OpSets /\ Idle(set) /\ InFlight' = InFlight \union {set}
  BY OpSetTypes, OpSetIdle, SetsAtCall DEF Called
<1>2. /\ asked' = [asked EXCEPT ![set] = op]
      /\ return_tag' = [return_tag EXCEPT ![set] = calls + 1]
      /\ UNCHANGED <<finished, cqShutdown>> /\ begun' = begun \union {kind}
      /\ call' = IF kind = "open" THEN "live" ELSE call
  BY DEF Called, Perform, OutputTag
<1>3. \A s \in OpSets : ~Idle(s) => asked[s].tag <= calls /\ return_tag[s] <= calls
  BY DEF StreamInv, SetsInv
<1>4. Contract!MayBegin(kind) BY DEF Called, MayCall
<1> HIDE DEF set
<1>5. \A s \in OpSets : s # set => asked'[s] = asked[s] /\ return_tag'[s] = return_tag[s]
  BY <1>2 DEF TypeOK
<1>6. \A s \in InFlight : s \in OpSets /\ s # set /\ ~Idle(s)
  BY <1>1 DEF InFlight, Idle
<1>7. asked'[set] = op BY <1>1, <1>2 DEF TypeOK
<1>8. Pending' = Pending \union {op}
  <2>1. \A s \in InFlight : asked'[s] = asked[s] BY <1>5, <1>6
  <2> HIDE DEF op
  <2> QED BY <1>1, <1>7, <2>1 DEF Pending
<1>9. ASSUME NEW i \in DOMAIN finished PROVE
          finished[i].set \in OpSets /\ finished[i].set # set /\ ~Idle(finished[i].set)
  <2>1. finished[i].set \in OpSets
    <3> DEFINE T == [set : OpSets, ok : BOOLEAN, msg : NoMessage..MaxMessages]
    <3>1. finished \in Seq(T) BY DEF TypeOK
    <3> HIDE DEF T
    <3>2. finished[i] \in T BY <3>1
    <3> QED BY <3>2 DEF T
  <2> QED BY <1>1, <2>1 DEF Idle
<1>10. Ready' = Ready
  BY <1>2, <1>5, <1>9 DEF Ready, Status
<1>11. \A o \in Pending : o.tag # calls + 1
  BY <1>3, <1>6 DEF Pending, TypeOK
<1>12. \A i \in DOMAIN Ready : Ready[i].tag # calls + 1
  BY <1>3, <1>9 DEF Ready, TypeOK
<1>13. Contract!Begin(kind, calls + 1)
  BY <1>2, <1>4, <1>8, <1>10, <1>11, <1>12
     DEF Contract!Begin, Contract!Unreturned
<1>14. op \in Pending' \ Pending BY <1>8, <1>11
<1> QED BY <1>13, <1>14 DEF Contract!Next

LEMMA FinishEndsContract ==
  ASSUME TypeOK, StreamInv, NEW set \in OpSets, FinishBatch(set)
  PROVE  Contract!Next
<1>1. PICK ok \in BOOLEAN, msg \in NoMessage..MaxMessages :
          /\ ok \/ call = "dead"
          /\ "RECV_STATUS" \in batches[set] => ok /\ call = "dead"
          /\ finished' = Append(finished, [set |-> set, ok |-> ok, msg |-> msg])
  BY DEF FinishBatch
<1> DEFINE f == [set |-> set, ok |-> ok, msg |-> msg]
           op == asked[set]
           T == [set : OpSets, ok : BOOLEAN, msg : NoMessage..MaxMessages]
           n == Len(finished)
           e == [kind |-> op.kind, tag |-> op.tag, ok |-> Status(f)]
<1>2. InFlight' = InFlight \ {set} /\ set \in InFlight
  BY SetFinishes
<1>3. UNCHANGED <<asked, return_tag, call, begun, cqShutdown>>
  BY DEF FinishBatch, setVars, callerVars
<1>4. \A s \in InFlight : s \in OpSets /\ Contract!OpSet(asked[s].kind) = s
                          /\ asked[s].tag = return_tag[s]
  BY DEF InFlight, StreamInv, SetsInv, Idle
<1>5. Pending' = Pending \ {op} /\ op \in Pending
  <2>1. \A s \in InFlight : asked[s] = op => s = set
    BY <1>2, <1>4
  <2>2. asked' = asked BY <1>3
  <2> QED BY <1>2, <2>1, <2>2 DEF Pending
<1>6. f \in T /\ finished \in Seq(T) /\ f.set = set /\ f.ok = ok BY DEF TypeOK
<1>7. finished' = Append(finished, f) BY <1>1
<1>8. Ready' = Append(Ready, e)
  <2> HIDE DEF f, T
  <2>1. /\ n \in Nat /\ DOMAIN finished = 1..n /\ DOMAIN finished' = 1..(n + 1)
        /\ \A i \in 1..n : finished'[i] = finished[i]
        /\ finished'[n + 1] = f
    BY <1>6, <1>7
  <2>2. Ready' = [i \in 1..(n + 1) |->
                     [kind |-> asked[finished'[i].set].kind,
                      tag  |-> return_tag[finished'[i].set],
                      ok   |-> Status(finished'[i])]]
    BY <1>3, <2>1 DEF Ready, Status
  <2>3. Ready = [i \in 1..n |-> [kind |-> asked[finished[i].set].kind,
                                 tag  |-> return_tag[finished[i].set],
                                 ok   |-> Status(finished[i])]]
    BY <2>1 DEF Ready
  <2>4. \A i \in 1..n : i \in 1..(n + 1) /\ finished'[i] = finished[i]
    BY <2>1
  <2>5. \A i \in 1..n : Ready'[i] = Ready[i]
    BY <2>2, <2>3, <2>4
  <2>6. Ready'[n + 1] = e
    BY <1>2, <1>4, <1>6, <2>1, <2>2
  <2> DEFINE U == {Ready'[i] : i \in 1..(n + 1)}
  <2>7. Ready' \in [1..(n + 1) -> U] BY <2>2
  <2>8. Ready \in [1..n -> U]
    <3>1. \A i \in 1..n : Ready[i] \in U BY <2>4, <2>5
    <3> HIDE DEF U
    <3> QED BY <2>3, <3>1
  <2> HIDE DEF e, n, U
  <2>9. Ready' = Append(Ready, Ready'[n + 1])
    BY <2>1, <2>5, <2>7, <2>8, IsAppend
  <2> QED BY <2>6, <2>9
<1>9. Contract!MayEnd(op.kind, Status(f))
  <2>1. op.kind = "finish" => set = "finish_ops" /\ "RECV_STATUS" \in batches[set]
    BY <1>2, <1>4 DEF StreamInv, SetsInv, Contract!OpSet, Contract!Writes
  <2>2. op.kind = "read" <=> set = "read_ops"
    BY <1>2, <1>4
       DEF TypeOK, Contract!Kinds, Contract!OpSet, Contract!Writes
  <2>3. set # "read_ops" => Status(f) = ok BY <1>6 DEF Status
  <2> QED BY <1>1, <2>1, <2>2, <2>3 DEF Contract!MayEnd
<1>10. Contract!End(op, Status(f))
  BY <1>3, <1>5, <1>8, <1>9 DEF Contract!End
<1>11. Status(f) \in BOOLEAN BY <1>6 DEF Status
<1> QED BY <1>5, <1>10, <1>11 DEF Contract!Next

LEMMA NextReturnsContract ==
  ASSUME TypeOK, StreamInv, NextEvent PROVE Contract!Next
<1>1. UNCHANGED <<asked, return_tag, batches, call, begun, cqShutdown>>
  BY DEF NextEvent, FinalizeResult, serverVars
<1>2. Pending' = Pending BY <1>1 DEF Pending, InFlight
<1>3. PICK n \in Nat :
          /\ DOMAIN finished' = 1..n /\ DOMAIN finished = 1..(n + 1)
          /\ \A i \in 1..n : finished'[i] = finished[i + 1] /\ i + 1 \in 1..(n + 1)
  <2> DEFINE T == [set : OpSets, ok : BOOLEAN, msg : NoMessage..MaxMessages]
             n == Len(finished) - 1
  <2>1. finished \in Seq(T) /\ finished # <<>> /\ finished' = Tail(finished)
    BY DEF TypeOK, NextEvent
  <2> HIDE DEF T
  <2>2. n \in Nat /\ DOMAIN finished' = 1..n /\ DOMAIN finished = 1..(n + 1)
    BY <2>1
  <2>3. \A i \in 1..n : finished'[i] = finished[i + 1] /\ i + 1 \in 1..(n + 1)
    BY <2>1
  <2> QED BY <2>2, <2>3
<1>4. Ready' = [i \in 1..n |-> [kind |-> asked[finished'[i].set].kind,
                                tag  |-> return_tag[finished'[i].set],
                                ok   |-> Status(finished'[i])]]
  BY <1>1, <1>3 DEF Ready, Status
<1>5. Ready = [i \in 1..(n + 1) |-> [kind |-> asked[finished[i].set].kind,
                                     tag  |-> return_tag[finished[i].set],
                                     ok   |-> Status(finished[i])]]
  BY <1>3 DEF Ready
<1>6. \A i \in 1..n : Ready'[i] = Ready[i + 1]
  BY <1>3, <1>4, <1>5
<1>7. Ready' = Tail(Ready) /\ Ready # <<>>
  <2> DEFINE U == {Ready[i] : i \in 1..(n + 1)}
  <2>1. Ready \in [1..(n + 1) -> U] BY <1>5
  <2>2. Ready' \in [1..n -> U]
    <3>1. \A i \in 1..n : Ready'[i] \in U BY <1>3, <1>6
    <3> HIDE DEF U
    <3> QED BY <1>4, <3>1
  <2> HIDE DEF U
  <2> QED BY <1>6, <2>1, <2>2, IsTail
<1>8. Contract!Return BY <1>1, <1>2, <1>7 DEF Contract!Return
<1> QED BY <1>8 DEF Contract!Next

LEMMA ContractKept ==
  ASSUME Inv, [Next]_vars PROVE [Contract!Next]_(Contract!contractVars)
<1> USE DEF Inv
<1>1. CASE Call
  BY <1>1, CallBegins, CallBeginsContract DEF Begins
<1>2. ASSUME NEW set \in OpSets, FinishBatch(set) PROVE Contract!Next
  BY <1>2, FinishEndsContract
<1>3. CASE NextEvent BY <1>3, NextReturnsContract
<1>4. CASE ServerSends \/ CallDies \/ Shutdown \/ ReleaseContext \/ UNCHANGED vars
  <2>1. UNCHANGED <<Pending, Ready>>
    <3>1. UNCHANGED <<batches, finished, asked, return_tag>>
      BY <1>4 DEF ServerSends, CallDies, Shutdown, ReleaseContext, vars, setVars,
         coreVars, callerVars
    <3> QED BY <3>1 DEF Pending, InFlight, Ready, Status
  <2>2. CASE CallDies
    <3>1. Contract!Die BY <2>1, <2>2 DEF CallDies, callerVars, Contract!Die
    <3> QED BY <3>1 DEF Contract!Next
  <2>3. CASE Shutdown
    <3>1. Contract!Shutdown
      BY <2>1, <2>3 DEF Shutdown, serverVars, Contract!Shutdown
    <3> QED BY <3>1 DEF Contract!Next
  <2>4. CASE ServerSends \/ ReleaseContext \/ UNCHANGED vars
    BY <2>1, <2>4 DEF ServerSends, ReleaseContext, vars, serverVars, callerVars,
       Contract!contractVars
  <2> QED BY <1>4, <2>2, <2>3, <2>4
<1> QED BY <1>1, <1>2, <1>3, <1>4 DEF Next, Call

(* Seen through tags and statuses, every behaviour of the stream and its   *)
(* op sets is one of the contract: a tag comes back once, for the call     *)
(* that gave it, and with ok only as the contract allows.                  *)
THEOREM StreamKeepsContract ==
  ASSUME StreamAssumption PROVE Spec => ImplementsContract
<1>1. Init => Contract!Init
  BY DEF Init, Contract!Init, Pending, Ready, InFlight
<1>2. Inv /\ [Next]_vars => [Contract!Next]_(Contract!contractVars)
  BY ContractKept
<1> QED BY <1>1, <1>2, InvAlways, PTL DEF Spec, ImplementsContract, Contract!Spec
=============================================================================
