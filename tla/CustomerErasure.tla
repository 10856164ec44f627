--------------------------- MODULE CustomerErasure ---------------------------
(***************************************************************************)
(* Erasure of one customer: execute() checks the consent, destroys the     *)
(* listed encryption keys, tombstones the clear-text fields, deletes the   *)
(* listed recordings and writes a certificate.  Each store may fail, a     *)
(* failed erasure is run again, and the customer's data may grow while it  *)
(* runs.                                                                   *)
(***************************************************************************)
CONSTANTS CustomerData,   \* identities of keys, clear-text values and recordings
          Kind,           \* [CustomerData -> {"key", "pii", "audio"}]
          Jobs            \* runs of execute()

ASSUME ErasureAssumption == Kind \in [CustomerData -> {"key", "pii", "audio"}]

VARIABLES stored,         \* data that exists
          everStored,     \* data that has existed: identities are not used again
          revoked,        \* the consent is REVOKED
          job,            \* step and remaining list of each run
          certified       \* what the certificates written so far vouch for

erasureVars == <<stored, everStored, revoked, job, certified>>

Of(kind) == {d \in CustomerData : Kind[d] = kind}
NotRunning == [step |-> "idle", left |-> {}, scope |-> {}]

ErasureTypeOK ==
    /\ stored \subseteq everStored
    /\ everStored \subseteq CustomerData
    /\ revoked \in BOOLEAN
    /\ job \in [Jobs -> [step : {"idle", "shred", "tombstone", "delete", "certify"},
                         left : SUBSET CustomerData, scope : SUBSET CustomerData]]
    /\ certified \subseteq CustomerData

ErasureInit ==
    /\ stored = {} /\ everStored = {} /\ certified = {}
    /\ revoked = FALSE
    /\ job = [j \in Jobs |-> NotRunning]

\* A call or a portal writes: the job holds no lock.
StoreDatum(d) ==
    /\ d \notin everStored
    /\ stored' = stored \cup {d} /\ everStored' = everStored \cup {d}
    /\ UNCHANGED <<revoked, job, certified>>

ChangeConsent ==
    /\ revoked' = ~revoked
    /\ UNCHANGED <<stored, everStored, job, certified>>

\* check_consent(); the caller lists keys and recordings, of which a former run
\* may have erased some.  Clear text is not listed: what exists now counts.
StartErasure(j, listed) ==
    /\ job[j].step = "idle" /\ revoked
    /\ listed \subseteq everStored \ Of("pii")
    /\ job' = [job EXCEPT ![j] =
           [step |-> "shred", left |-> listed, scope |-> listed \cup (stored \cap Of("pii"))]]
    /\ UNCHANGED <<stored, everStored, revoked, certified>>

\* shred(): one key of the list; a key that is gone is no error.
ShredKey(j) ==
    /\ job[j].step = "shred"
    /\ \E k \in job[j].left \cap Of("key") :
          /\ stored' = stored \ {k}
          /\ job' = [job EXCEPT ![j].left = @ \ {k}]
    /\ UNCHANGED <<everStored, revoked, certified>>

KeysShredded(j) ==
    /\ job[j].step = "shred" /\ job[j].left \cap Of("key") = {}
    /\ job' = [job EXCEPT ![j].step = "tombstone"]
    /\ UNCHANGED <<stored, everStored, revoked, certified>>

\* tombstone_pii()
Tombstone(j) ==
    /\ job[j].step = "tombstone"
    /\ stored' = stored \ Of("pii")
    /\ job' = [job EXCEPT ![j].step = "delete"]
    /\ UNCHANGED <<everStored, revoked, certified>>

\* delete() of one recording
DeleteRecording(j) ==
    /\ job[j].step = "delete"
    /\ \E r \in job[j].left :
          /\ stored' = stored \ {r}
          /\ job' = [job EXCEPT ![j].left = @ \ {r}]
    /\ UNCHANGED <<everStored, revoked, certified>>

\* Mutant: the certificate is written while deletions are still under way.
RecordingsDeletedEarly(j) ==
    /\ job[j].step = "delete"
    /\ job' = [job EXCEPT ![j].step = "certify"]
    /\ UNCHANGED <<stored, everStored, revoked, certified>>

RecordingsDeleted(j) ==
    /\ job[j].step = "delete" /\ job[j].left = {}
    /\ job' = [job EXCEPT ![j].step = "certify"]
    /\ UNCHANGED <<stored, everStored, revoked, certified>>

\* save() of the certificate
Certify(j) ==
    /\ job[j].step = "certify"
    /\ certified' = certified \cup job[j].scope
    /\ job' = [job EXCEPT ![j] = NotRunning]
    /\ UNCHANGED <<stored, everStored, revoked>>

\* A store raises or the process stops: nothing records how far the run got.
ErasureFails(j) ==
    /\ job[j].step # "idle"
    /\ job' = [job EXCEPT ![j] = NotRunning]
    /\ UNCHANGED <<stored, everStored, revoked, certified>>

ErasureNext ==
    \/ \E d \in CustomerData : StoreDatum(d)
    \/ ChangeConsent
    \/ \E j \in Jobs :
          \/ \E listed \in SUBSET CustomerData : StartErasure(j, listed)
          \/ ShredKey(j) \/ KeysShredded(j) \/ Tombstone(j) \/ DeleteRecording(j)
          \/ RecordingsDeleted(j) \/ Certify(j) \/ ErasureFails(j)

ErasureSpec == ErasureInit /\ [][ErasureNext]_erasureVars

-----------------------------------------------------------------------------
\* What a certificate vouches for is gone and does not come back, after any number
\* of failed, repeated and simultaneous runs: every listed key and recording, and
\* all clear text that existed when the run began.
CertifiedIsGone == certified \cap stored = {}
=============================================================================
