----------------------------- MODULE AuditChain -----------------------------
(***************************************************************************)
(* The audit trail of one tenant: rows chained by their hashes.  append()  *)
(* reads the hash of the latest row under a row lock, inserts its row with *)
(* that hash as prev_hash, and commits.  The hash of a row is identified   *)
(* with its seq: it covers prev_hash, and two rows never chain alike.      *)
(*                                                                         *)
(* The database runs at READ COMMITTED.  A SELECT ... FOR UPDATE picks its *)
(* row from the rows committed when it started; a wait for the lock of     *)
(* that row does not make it look for a newer one, because the row it      *)
(* picked has not changed.                                                 *)
(***************************************************************************)
EXTENDS Integers, Sequences, FiniteSets

CONSTANTS Appenders,   \* database sessions that append
          MaxRows      \* bound on the appends of a behaviour

ASSUME MaxRowsAssumption == MaxRows \in Nat

VARIABLES auditLog,    \* the rows by seq, with those not (or never) committed
          appender,    \* what each session has read and done
          overlapped   \* history: an append began while another one ran

auditVars == <<auditLog, appender, overlapped>>

GENESIS_HASH == 0

Resting == [phase |-> "idle", seen |-> GENESIS_HASH, own |-> 0]

AuditTypeOK ==
    /\ auditLog \in Seq([prev : Nat, state : {"open", "committed", "void"}])
    /\ appender \in [Appenders ->
           [phase : {"idle", "waiting", "chosen", "inserted"}, seen : Nat, own : Nat]]
    /\ overlapped \in BOOLEAN

Committed == {n \in DOMAIN auditLog : auditLog[n].state = "committed"}

\* The hash of the last row of a set of rows; the genesis hash for none.
LastHash(rows) == CHOOSE n \in rows \cup {GENESIS_HASH} : \A m \in rows : m <= n

\* The row SELECT hash ... ORDER BY seq DESC LIMIT 1 picks.
\* Mutant: the last hash is remembered, also that of an insert that was rolled back.
LatestRemembered == LastHash(DOMAIN auditLog)

Latest == LastHash(Committed)

AuditInit ==
    /\ auditLog = <<>>
    /\ appender = [a \in Appenders |-> Resting]
    /\ overlapped = FALSE

Running == {a \in Appenders : appender[a].phase # "idle"}

\* SELECT ... FOR UPDATE up to the lock.  An empty table has no row to lock.
SelectLatest(a) ==
    /\ appender[a].phase = "idle"
    /\ Len(auditLog) + Cardinality(Running) < MaxRows
    /\ appender' = [appender EXCEPT ![a] =
           [phase |-> IF Latest = GENESIS_HASH THEN "chosen" ELSE "waiting",
            seen |-> Latest, own |-> 0]]
    /\ overlapped' = (overlapped \/ Running # {})
    /\ UNCHANGED auditLog

\* The lock of the row that was picked, free when no transaction holds it.
LockRow(a) ==
    /\ appender[a].phase = "waiting"
    /\ \A b \in Appenders : appender[b].phase \in {"chosen", "inserted"}
                                => appender[b].seen # appender[a].seen
    /\ appender' = [appender EXCEPT ![a].phase = "chosen"]
    /\ UNCHANGED <<auditLog, overlapped>>

\* The INSERT draws the next seq.
InsertRow(a) ==
    /\ appender[a].phase = "chosen"
    /\ auditLog' = Append(auditLog, [prev |-> appender[a].seen, state |-> "open"])
    /\ appender' = [appender EXCEPT ![a] =
           [phase |-> "inserted", seen |-> appender[a].seen, own |-> Len(auditLog) + 1]]
    /\ UNCHANGED overlapped

CommitRow(a) ==
    /\ appender[a].phase = "inserted"
    /\ auditLog' = [auditLog EXCEPT ![appender[a].own].state = "committed"]
    /\ appender' = [appender EXCEPT ![a] = Resting]
    /\ UNCHANGED overlapped

\* A statement fails or the session is lost: the row disappears, its seq stays used.
AbortAppend(a) ==
    /\ appender[a].phase # "idle"
    /\ auditLog' = IF appender[a].phase = "inserted"
                   THEN [auditLog EXCEPT ![appender[a].own].state = "void"]
                   ELSE auditLog
    /\ appender' = [appender EXCEPT ![a] = Resting]
    /\ UNCHANGED overlapped

AuditNext == \E a \in Appenders :
    SelectLatest(a) \/ LockRow(a) \/ InsertRow(a) \/ CommitRow(a) \/ AbortAppend(a)

AuditSpec == AuditInit /\ [][AuditNext]_auditVars

-----------------------------------------------------------------------------
\* verify_chain() over a set of rows: it walks them by seq from the genesis hash
\* and wants every row to carry the hash of the row walked before it.
Verifies(rows) == \A n \in rows : auditLog[n].prev = LastHash({m \in rows : m < n})

\* Appends that never overlapped leave a chain that verify_chain() accepts,
\* whatever was aborted and whatever gaps that left in seq: a broken chain of an
\* untouched table is the work of concurrent appends.
VerifiesUnlessOverlapped == overlapped \/ Verifies(Committed)

\* A chain that does not verify never verifies again: nothing appended or aborted
\* later repairs a fork, so the false alarm of one race stays for ever.
BrokenForGood == [][~Verifies(Committed) => ~Verifies(Committed)']_auditVars

\* What the docstring of append() says: two writers never chain off the same
\* prev_hash, except for the very first events of a tenant.
NoForkAfterTheFirst ==
    \A m, n \in Committed :
        m # n /\ auditLog[m].prev = auditLog[n].prev => auditLog[m].prev = GENESIS_HASH
=============================================================================
