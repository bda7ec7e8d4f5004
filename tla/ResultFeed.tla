----------------------------- MODULE ResultFeed -----------------------------
(***************************************************************************)
(* What USpeechly promises the application about its results, with none of *)
(* the queue, the Ticks or the maps they come from: the response of a      *)
(* segment is told again only when it has grown, until it is final; an     *)
(* error of a context is told once and is the last that is heard of it.    *)
(* SpeechlyResponses implements this.                                      *)
(***************************************************************************)
EXTENDS Naturals, Sequences

CONSTANTS Contexts, Segments

VARIABLES
    told,           \* per segment, the response last told
    errors          \* the contexts an error was told of

Keys == Contexts \X Segments
Nothing == [Transcript |-> <<>>, Entities |-> <<>>, Intent |-> 0,
            bIsFinal |-> FALSE]

(* Words are only added, behind the ones there are; a value or an intent   *)
(* is only replaced by a later one.                                        *)
Extends(s, t) == Len(t) <= Len(s) /\ \A i \in DOMAIN t : s[i] = t[i]
Grows(before, after) ==
    /\ Extends(after.Transcript, before.Transcript)
    /\ DOMAIN before.Entities \subseteq DOMAIN after.Entities
    /\ \A t \in DOMAIN before.Entities : before.Entities[t] <= after.Entities[t]
    /\ before.Intent <= after.Intent
    /\ before.bIsFinal => after.bIsFinal

Init == told = [key \in Keys |-> Nothing] /\ errors = {}

Tell(key) ==
    /\ ~told[key].bIsFinal /\ key[1] \notin errors
    /\ told' = [told EXCEPT ![key] = told'[key]]
    /\ Grows(told[key], told'[key])
    /\ UNCHANGED errors

Concluded(c) == \A s \in Segments : told[<<c, s>>] = Nothing \/ told[<<c, s>>].bIsFinal

TellError(c) ==
    /\ c \notin errors /\ Concluded(c)
    /\ errors' = errors \union {c}
    /\ UNCHANGED told

Restart == told' = [key \in Keys |-> Nothing] /\ errors' = {}

Next ==
    \/ \E key \in Keys : Tell(key)
    \/ \E c \in Contexts : TellError(c)
    \/ Restart

Spec == Init /\ [][Next]_<<told, errors>>
=============================================================================
