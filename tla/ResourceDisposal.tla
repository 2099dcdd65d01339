--------------------------- MODULE ResourceDisposal ---------------------------
(***************************************************************************)
(* What the resource record of a file analysis promises, whoever writes    *)
(* it: a verdict is passed once; nothing remote is touched after it, so    *)
(* that a person may act on it; "cleaned" is the truth about the remote    *)
(* side; and a document the knowledge base has taken over is not deleted.  *)
(***************************************************************************)
CONSTANT Executions

VARIABLES
    session,  \* the remote session of an execution: none, open, closed
    document, \* its remote document: none, temporary, permanent, deleted
    verdict   \* open, cleaned, quarantined

vars == <<session, document, verdict>>

Init ==
    /\ session  = [e \in Executions |-> "none"]
    /\ document = [e \in Executions |-> "none"]
    /\ verdict  = [e \in Executions |-> "open"]

Open(e) ==
    /\ verdict[e] = "open" /\ session[e] = "none"
    /\ session' = [session EXCEPT ![e] = "open"]
    /\ UNCHANGED <<document, verdict>>

Upload(e) ==
    /\ verdict[e] = "open" /\ session[e] = "open" /\ document[e] = "none"
    /\ document' = [document EXCEPT ![e] = "temporary"]
    /\ UNCHANGED <<session, verdict>>

Adopt(e) ==
    /\ verdict[e] = "open" /\ session[e] = "open" /\ document[e] = "temporary"
    /\ document' = [document EXCEPT ![e] = "permanent"]
    /\ UNCHANGED <<session, verdict>>

\* a close whose outcome is not known may have done either half
Close(e) ==
    /\ verdict[e] = "open" /\ session[e] = "open"
    /\ session' \in {session, [session EXCEPT ![e] = "closed"]}
    /\ \/ document' = document
       \/ document[e] = "temporary" /\ document' = [document EXCEPT ![e] = "deleted"]
    /\ UNCHANGED verdict

Clean(e) ==
    /\ verdict[e] = "open"
    /\ session[e] = "closed" /\ document[e] # "temporary"
    /\ verdict' = [verdict EXCEPT ![e] = "cleaned"]
    /\ UNCHANGED <<session, document>>

Quarantine(e) ==
    /\ verdict[e] = "open"
    /\ verdict' = [verdict EXCEPT ![e] = "quarantined"]
    /\ UNCHANGED <<session, document>>

Next ==
    \E e \in Executions :
        Open(e) \/ Upload(e) \/ Adopt(e) \/ Close(e) \/ Clean(e) \/ Quarantine(e)

Spec == Init /\ [][Next]_vars
===============================================================================
