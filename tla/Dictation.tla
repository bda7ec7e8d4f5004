----------------------------- MODULE Dictation -----------------------------
(***************************************************************************)
(* What the session promises the server, with none of the threads, the     *)
(* lock or the buffer: one utterance at a time, each a context of its own. *)
(* Its audio may be kept back at first; once some is sent, all that was    *)
(* recorded is, and each new chunk before the next one is recorded.  So    *)
(* when the utterance ends the server has had all of it or nothing.        *)
(* Speechly implements this.                                               *)
(***************************************************************************)
EXTENDS Naturals

VARIABLES
    up,             \* there is a working connection
    context,        \* the context that is open on it, or 0
    latest,         \* the last one that was opened on it, or 0
    recorded,       \* chunks recorded of the open context
    sent            \* how many of them were sent

vars == <<up, context, latest, recorded, sent>>

Silent == context' = 0 /\ recorded' = 0 /\ sent' = 0
Init == up = FALSE /\ context = 0 /\ latest = 0 /\ recorded = 0 /\ sent = 0

Connect == up' = TRUE /\ latest' = 0 /\ Silent
Fail == up' = FALSE /\ latest' = 0 /\ Silent

(* Recording may begin before the context does.                            *)
Begin ==
    /\ up /\ context = 0
    /\ latest' > latest /\ context' = latest'
    /\ recorded' >= 0 /\ sent' = 0
    /\ UNCHANGED up

WholeOrNothing == sent \in {0, recorded}

Record ==
    /\ context # 0 /\ WholeOrNothing
    /\ recorded' = recorded + 1
    /\ UNCHANGED <<up, context, latest, sent>>

Send ==
    /\ context # 0 /\ sent < recorded
    /\ sent' = recorded
    /\ UNCHANGED <<up, context, latest, recorded>>

End ==
    /\ context # 0 /\ WholeOrNothing
    /\ Silent
    /\ UNCHANGED <<up, latest>>

Next == Connect \/ Fail \/ Begin \/ Record \/ Send \/ End
Spec == Init /\ [][Next]_vars
=============================================================================
