----------------------------- MODULE ClaimedWork -----------------------------
(***************************************************************************)
(* What INSERT ... ON CONFLICT DO NOTHING gives the services that claim a  *)
(* piece of work before they do it: a key is granted to one worker, once;  *)
(* only that worker adds to what is done for the key, and once it lets go  *)
(* of the key (done with it, failed or stopped) nobody ever does.          *)
(* TenantMigration and WebhookDispatch implement this specification.       *)
(***************************************************************************)
CONSTANTS Keys, Workers,
          Nothing     \* what is done for a key at first

VARIABLES claimed,    \* the keys that were ever granted
          holder,     \* Keys -> the workers that are at the key's work
          work        \* Keys -> what was done for the key

claimVars == <<claimed, holder, work>>

Init ==
    /\ claimed = {}
    /\ holder = [k \in Keys |-> {}]
    /\ work = [k \in Keys |-> Nothing]

\* A worker is at one key at a time.
Claim(k) ==
    /\ k \notin claimed
    /\ claimed' = claimed \cup {k}
    /\ \E w \in Workers : /\ \A j \in Keys : w \notin holder[j]
                         /\ holder' = [holder EXCEPT ![k] = {w}]
    /\ UNCHANGED work

\* The holder does something, for its key only, and may let go of it.
Proceed(k) ==
    /\ holder[k] # {}
    /\ work' = [work EXCEPT ![k] = work'[k]]
    /\ holder' \in {holder, [holder EXCEPT ![k] = {}]}
    /\ UNCHANGED claimed

Next == \E k \in Keys : Claim(k) \/ Proceed(k)

Spec == Init /\ [][Next]_claimVars
=============================================================================
