------------------------------- MODULE Audits -------------------------------
(***************************************************************************)
(* The audit log.  A device reports a connection when it is requested,     *)
(* established and closed, and the reports are put together in one row;    *)
(* somebody may add a note to it.  File transfers and alarms, which are    *)
(* treated alike, have a row each.  Reports get lost, late, doubled and    *)
(* sent again, with the same nonce; a nightly job deletes old rows.        *)
(***************************************************************************)
EXTENDS Naturals, FiniteSets

CONSTANTS Links,        \* connections of a device, by conn_id
          Nonces,       \* reports of file transfers and alarms
          Reporters,    \* requests being handled at the same time
          MaxRows,      \* rows that are inserted in each table
          MaxRequests,   \* requests a behaviour has
          MaxCleanups,
          Nothing,      \* an id that is not used yet, no row
          Removed       \* an id whose row was deleted

Kinds == {"open", "established", "close"}
RowIds == 1..MaxRows

VARIABLES connections, \* connection_audits
          audits,      \* file_audits, or alarm_audits: the nonce of each row
          handling,    \* requests in flight
          requests,    \* how many there were
          cleanups,
          answers,     \* history: the rows that file reports were answered with,
          done,        \* the connection reports that succeeded,
          overlapped   \* and the connections two requests were about at once

tables == <<connections, audits>>
vars == <<tables, handling, requests, cleanups, answers, done, overlapped>>

\* last: the report whose nonce the row has
Connection == [link: Links, times: SUBSET Kinds, note: BOOLEAN, last: Kinds]

AuditAssumption ==
    /\ {MaxRows, MaxRequests, MaxCleanups} \subseteq Nat
    /\ Nothing # Removed /\ {Nothing, Removed} \cap (Connection \cup Nonces) = {}

Idle == [op |-> "idle"]

Init ==
    /\ connections = [i \in RowIds |-> Nothing]
    /\ audits = [i \in RowIds |-> Nothing]
    /\ handling = [q \in Reporters |-> Idle]
    /\ requests = 0 /\ cleanups = 0
    /\ answers = {} /\ done = [c \in Links |-> {}] /\ overlapped = {}

Here(table) == {i \in RowIds : table[i] \notin {Nothing, Removed}}
FreshId(table) == {i \in RowIds : table[i] = Nothing /\ \A j \in 1..i - 1 : table[j] # Nothing}

Arrives(q) == handling[q] = Idle /\ requests < MaxRequests /\ requests' = requests + 1
Handles(q, h) == handling' = [handling EXCEPT ![q] = h]
About(c) == {q \in Reporters : handling[q].op = "connection" /\ handling[q].link = c}

-----------------------------------------------------------------------------
RowsOf(c) == {i \in Here(connections) : connections[i].link = c}

(* upsertConnectionAudit, addConnectionNote and updateConnectionAudit      *)
(* begin with the row ...                                                  *)
FindConnection(q, c, kind) ==
    /\ Arrives(q)
    /\ \/ /\ RowsOf(c) = {} /\ kind # "note"
          /\ Handles(q, [op |-> "connection", link |-> c, kind |-> kind, id |-> 0])
       \/ \E i \in RowsOf(c) :
             Handles(q, [op |-> "connection", link |-> c, kind |-> kind, id |-> i,
                         copy |-> connections[i]])
    /\ overlapped' = IF About(c) = {} THEN overlapped ELSE overlapped \cup {c}
    /\ UNCHANGED <<tables, cleanups, answers, done>>

(* ... and save what it becomes: a row that is not there, or no longer, is *)
(* inserted, and in one that is the columns that differ from the copy are  *)
(* overwritten.  The nonce is unique.                                      *)
Becomes(h) ==
    IF h.id = 0 THEN [link |-> h.link, times |-> {h.kind}, note |-> FALSE, last |-> h.kind]
    ELSE IF h.kind = "note" THEN [h.copy EXCEPT !.note = TRUE]
    ELSE [h.copy EXCEPT !.times = @ \cup {h.kind}, !.last = h.kind]

Conflicts(row, i) ==
    \E j \in RowsOf(row.link) \ {i} : connections[j].last = row.last

SaveConnection(q) ==
    /\ handling[q].op = "connection"
    /\ LET h == handling[q]
           row == Becomes(h)
       IN \E i \in IF h.id = 0 THEN FreshId(connections) ELSE {h.id} :
             IF Conflicts(row, i) THEN UNCHANGED <<connections, done>>
             ELSE /\ connections' = [connections EXCEPT ![i] = row]
                  /\ done' = [done EXCEPT ![h.link] = @ \cup ({h.kind} \cap Kinds)]
    /\ Handles(q, Idle)
    /\ UNCHANGED <<requests, audits, cleanups, answers, overlapped>>

-----------------------------------------------------------------------------
(* auditFile and auditAlarm: a nonce that is there is answered with its    *)
(* row ...                                                                 *)
FindAudit(q, n) ==
    /\ Arrives(q)
    /\ \/ /\ \A i \in RowIds : audits[i] # n
          /\ Handles(q, [op |-> "insert", nonce |-> n])
          /\ UNCHANGED answers
       \/ \E i \in RowIds :
             /\ audits[i] = n
             /\ answers' = answers \cup {<<n, i>>}
             /\ UNCHANGED handling
    /\ UNCHANGED <<tables, cleanups, done, overlapped>>

(* Mutant: one refused by the unique index is answered with the row that   *)
(* would have been its own.                                                *)
InsertAuditAnyway(q) ==
    /\ handling[q].op = "insert"
    /\ \E i \in FreshId(audits) :
          LET n == handling[q].nonce
          IN /\ audits' = IF \E j \in RowIds : audits[j] = n THEN audits
                          ELSE [audits EXCEPT ![i] = n]
             /\ answers' = answers \cup {<<n, i>>}
             /\ Handles(q, Idle)
    /\ UNCHANGED <<requests, connections, cleanups, done, overlapped>>

(* ... else a row is inserted; one that the unique index refuses is looked *)
(* for again.                                                              *)
InsertAudit(q) ==
    /\ handling[q].op = "insert"
    /\ LET n == handling[q].nonce
       IN \/ /\ \E j \in RowIds : audits[j] = n
             /\ Handles(q, [op |-> "look again", nonce |-> n])
             /\ UNCHANGED <<audits, answers>>
          \/ /\ \A j \in RowIds : audits[j] # n
             /\ \E i \in FreshId(audits) :
                   audits' = [audits EXCEPT ![i] = n] /\ answers' = answers \cup {<<n, i>>}
             /\ Handles(q, Idle)
    /\ UNCHANGED <<requests, connections, cleanups, done, overlapped>>

LookAgain(q) ==
    /\ handling[q].op = "look again"
    /\ answers' = answers \cup {<<handling[q].nonce, i>> :
                                   i \in {j \in RowIds : audits[j] = handling[q].nonce}}
    /\ Handles(q, Idle)
    /\ UNCHANGED <<requests, tables, cleanups, done, overlapped>>

-----------------------------------------------------------------------------
(* handleCleanupExpiredAudits *)
CleanUpConnections ==
    /\ cleanups < MaxCleanups
    /\ \E old \in (SUBSET Here(connections)) \ {{}} :
          LET links == {connections[i].link : i \in old}
          IN /\ connections' = [i \in RowIds |-> IF i \in old THEN Removed ELSE connections[i]]
             /\ done' = [c \in Links |-> IF c \in links THEN {} ELSE done[c]]
             /\ overlapped' = overlapped \cup {c \in links : About(c) # {}}
    /\ cleanups' = cleanups + 1
    /\ UNCHANGED <<requests, audits, handling, answers>>

CleanUpAudits ==
    /\ cleanups < MaxCleanups
    /\ \E old \in (SUBSET Here(audits)) \ {{}} :
          /\ audits' = [i \in RowIds |-> IF i \in old THEN Removed ELSE audits[i]]
          /\ answers' = {a \in answers : a[2] \notin old}
    /\ cleanups' = cleanups + 1
    /\ UNCHANGED <<requests, connections, handling, done, overlapped>>

(* The requests about connections, and those about files and alarms, have *)
(* nothing in common.                                                      *)
NextOfConnections ==
    \/ \E q \in Reporters :
          \/ \E c \in Links, kind \in Kinds \cup {"note"} : FindConnection(q, c, kind)
          \/ SaveConnection(q)
    \/ CleanUpConnections

NextOfAudits ==
    \/ \E q \in Reporters :
          \/ \E n \in Nonces : FindAudit(q, n)
          \/ InsertAudit(q) \/ LookAgain(q)
    \/ CleanUpAudits

Next == NextOfConnections \/ NextOfAudits

Spec == Init /\ [][Next]_vars

-----------------------------------------------------------------------------
(* Tables, requests and histories have their types. *)
TypeOK ==
    /\ connections \in [RowIds -> Connection \cup {Nothing, Removed}]
    /\ audits \in [RowIds -> Nonces \cup {Nothing, Removed}]
    /\ \A q \in Reporters : handling[q].op \in {"idle", "connection", "insert", "look again"}
    /\ requests \in 0..MaxRequests /\ cleanups \in 0..MaxCleanups
    /\ answers \subseteq Nonces \X RowIds
    /\ done \in [Links -> SUBSET Kinds] /\ overlapped \subseteq Links

(* A file transfer or an alarm that is reported again, even while the      *)
(* first report is being handled, stays one row, and every answer names    *)
(* it.  The reports of a connection come together in one row, in whatever  *)
(* order and however often they arrive, unless two were handled at once.   *)
ReportsRecorded ==
    /\ \A a \in answers : \A i \in RowIds : audits[i] = a[1] <=> i = a[2]
    /\ \A c \in Links \ overlapped :
          /\ Cardinality(RowsOf(c)) = IF done[c] = {} THEN 0 ELSE 1
          /\ \A i \in RowsOf(c) : connections[i].times = done[c]
=============================================================================
