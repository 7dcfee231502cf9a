--------------------------- MODULE UpdateContract ---------------------------
(***************************************************************************)
(* What a system update promises to the users of the console: business is  *)
(* open or closed; while it is closed and nothing is decided the data may  *)
(* be migrated, damaged and restored; one decision is taken, behind closed *)
(* doors, for the new or the old release; business opens only on data that *)
(* hold every acknowledged write, in the schema of the release that the    *)
(* decision names.                                                         *)
(***************************************************************************)
EXTENDS Naturals

CONSTANTS
    NewSchema,  \* schema of a committed update
    OldSchema   \* schema of the installation before it

VARIABLES
    open,      \* clients may write
    decision,  \* "none", "commit_decided" or "restore_decided"
    content,   \* schema and number of writes in the business data
    promised   \* writes acknowledged to clients

contractVars == <<open, decision, content, promised>>

CommittedSchema == IF decision = "commit_decided" THEN NewSchema ELSE OldSchema

ContractInit ==
    /\ open = TRUE
    /\ decision = "none"
    /\ content = [schema |-> OldSchema, writes |-> 0]
    /\ promised = 0

\* A write is answered; one admitted before the doors closed still may be.
Write ==
    /\ content' = [content EXCEPT !.writes = @ + 1]
    /\ promised' = promised + 1
    /\ UNCHANGED <<open, decision>>

Close ==
    /\ open /\ open' = FALSE
    /\ UNCHANGED <<decision, content, promised>>

\* Migrations, switches and restorations of an undecided update.
Work ==
    /\ ~open /\ decision = "none"
    /\ content' # content
    /\ UNCHANGED <<open, decision, promised>>

Decide ==
    /\ ~open /\ decision = "none"
    /\ decision' \in {"commit_decided", "restore_decided"}
    /\ UNCHANGED <<open, content, promised>>

Reopen ==
    /\ ~open /\ open' = TRUE
    /\ content = [schema |-> CommittedSchema, writes |-> promised]
    /\ UNCHANGED <<decision, content, promised>>

ContractNext == Write \/ Close \/ Work \/ Decide \/ Reopen

Contract == ContractInit /\ [][ContractNext]_contractVars
=============================================================================
