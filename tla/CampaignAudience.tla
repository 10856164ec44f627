--------------------------- MODULE CampaignAudience ---------------------------
(***************************************************************************)
(* AudienceSelector.select() for several campaigns of a tenant at a time:  *)
(* per candidate a SELECT of the campaigns the customer belongs to, the    *)
(* consent checks and an INSERT that commits on its own.                   *)
(***************************************************************************)
CONSTANTS Customers,
          Campaigns,
          Selections,   \* runs of select(); a campaign may be selected again
          CampaignOf,   \* the campaign of each selection
          Nobody        \* neither a customer nor a selection

ASSUME AudienceAssumption ==
    /\ CampaignOf \in [Selections -> Campaigns]
    /\ Nobody \notin Customers \cup Selections

VARIABLES row,      \* campaign_audiences: the selection that inserted a customer
          ran,      \* selections that were started
          todo,     \* candidates a selection has not looked at
          claimed,  \* the candidate a selection found to be free
          raced     \* history: the other claims of a candidate that were open
                    \*   when a selection found it to be free

audienceVars == <<row, ran, todo, claimed, raced>>

AudienceInit ==
    /\ row = [k \in Campaigns |-> [c \in Customers |-> Nobody]]
    /\ ran = {}
    /\ todo = [s \in Selections |-> {}]
    /\ claimed = [s \in Selections |-> Nobody]
    /\ raced = [s \in Selections |-> {}]

\* select_cohort(): any customers may satisfy the criteria.
StartSelection(s, cohort) ==
    /\ s \notin ran
    /\ ran' = ran \cup {s}
    /\ todo' = [todo EXCEPT ![s] = cohort]
    /\ UNCHANGED <<row, claimed, raced>>

\* Mutant: the check finds the campaign itself instead of the others.
AlreadyInThisCampaign(s, c) == row[CampaignOf[s]][c] # Nobody

\* _already_in_another_campaign()
AlreadyInAnotherCampaign(s, c) ==
    \E k \in Campaigns \ {CampaignOf[s]} : row[k][c] # Nobody

Look(s, c) ==
    /\ claimed[s] = Nobody
    /\ c \in todo[s]
    /\ todo' = [todo EXCEPT ![s] = @ \ {c}]
    /\ UNCHANGED <<row, ran>>
    /\ \/ AlreadyInAnotherCampaign(s, c) /\ UNCHANGED <<claimed, raced>>
       \/ /\ ~AlreadyInAnotherCampaign(s, c)
          /\ claimed' = [claimed EXCEPT ![s] = c]
          /\ raced' = [raced EXCEPT ![s] =
                           @ \cup {<<r, c>> : r \in {q \in Selections : claimed[q] = c}}]

\* The customer is on the do-not-disturb list or has not consented.
Refuse(s) ==
    /\ claimed[s] # Nobody
    /\ claimed' = [claimed EXCEPT ![s] = Nobody]
    /\ UNCHANGED <<row, ran, todo, raced>>

\* The INSERT.  A customer the campaign already has violates its unique key,
\* which ends the selection.
Include(s) ==
    LET k == CampaignOf[s]
        c == claimed[s] IN
    /\ c # Nobody
    /\ claimed' = [claimed EXCEPT ![s] = Nobody]
    /\ UNCHANGED <<ran, raced>>
    /\ \/ /\ row[k][c] = Nobody
          /\ row' = [row EXCEPT ![k][c] = s]
          /\ UNCHANGED todo
       \/ /\ row[k][c] # Nobody
          /\ todo' = [todo EXCEPT ![s] = {}]
          /\ UNCHANGED row

AudienceNext ==
    \E s \in Selections :
        \/ \E cohort \in SUBSET Customers : StartSelection(s, cohort)
        \/ \E c \in Customers : Look(s, c)
        \/ Refuse(s)
        \/ Include(s)

AudienceSpec == AudienceInit /\ [][AudienceNext]_audienceVars

-----------------------------------------------------------------------------
\* "A customer is only ever assigned to one campaign at a time": two campaigns
\* have the same customer only if one selection looked for other campaigns of
\* that customer between the look and the INSERT of the other selection.
\* Selections of a customer that follow one another never share the customer,
\* also when a campaign is selected again and fails half way.
OneCampaignEach ==
    \A c \in Customers, j, k \in Campaigns :
        j # k /\ row[j][c] # Nobody /\ row[k][c] # Nobody =>
            \/ <<row[j][c], c>> \in raced[row[k][c]]
            \/ <<row[k][c], c>> \in raced[row[j][c]]
=============================================================================
