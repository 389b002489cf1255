----------------------------- MODULE AuditedCall -----------------------------
(***************************************************************************)
(* What a governed API promises of each call: the audit record is durable  *)
(* before the reply leaves, there is one, and the reply is what it says.   *)
(* A call whose record cannot be written ends without an answer.           *)
(***************************************************************************)
CONSTANT Calls

VARIABLES record,  \* the outcome recorded for each call
          reply    \* what the caller of each call got

Outcome == {"SUCCESS", "DENIED", "FAILED"}

ReplyTo(outcome) == IF outcome = "SUCCESS" THEN "answer" ELSE "error"

CallInit ==
    /\ record = [c \in Calls |-> "none"]
    /\ reply = [c \in Calls |-> "none"]

\* The record is committed, before there is a reply.
Settle(c, outcome) ==
    /\ record[c] = "none" /\ reply[c] = "none"
    /\ record' = [record EXCEPT ![c] = outcome]
    /\ UNCHANGED reply

Reply(c) ==
    /\ record[c] # "none" /\ reply[c] = "none"
    /\ reply' = [reply EXCEPT ![c] = ReplyTo(record[c])]
    /\ UNCHANGED record

\* The caller is turned away before the call begins, its record cannot be
\* written, or the reply is lost after its record was.
GiveUp(c) ==
    /\ reply[c] = "none"
    /\ reply' = [reply EXCEPT ![c] = "unanswered"]
    /\ UNCHANGED record

CallNext == \E c \in Calls : (\E outcome \in Outcome : Settle(c, outcome)) \/ Reply(c) \/ GiveUp(c)

CallSpec == CallInit /\ [][CallNext]_<<record, reply>>
=============================================================================
