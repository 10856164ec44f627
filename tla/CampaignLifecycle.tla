-------------------------- MODULE CampaignLifecycle --------------------------
(***************************************************************************)
(* The lifecycle of one campaign: operations of CampaignService that read  *)
(* the status, validate the transition and write the new status with an    *)
(* UPDATE that does not look at it again, and PromptVersioningService.pin()*)
(* beside them.  Several editors work at the same time.                    *)
(***************************************************************************)
CONSTANT Editors   \* callers of CampaignService

VARIABLES campaign,  \* campaigns.status
          pinned,    \* the campaign has a pinned prompt version
          edit,      \* progress of each editor
          events,    \* saas.campaign.* events published
          approved,  \* history: an approve() was written
          bypassed   \* history: a resume() was valid because it read APPROVED

campaignVars == <<campaign, pinned, edit, events, approved, bypassed>>

\* _ALLOWED_TRANSITIONS
Followers(s) ==
    CASE s = "DRAFT" -> {"REVIEW"} [] s = "REVIEW" -> {"APPROVED", "DRAFT"}
      [] s = "APPROVED" -> {"ACTIVE", "DRAFT"}
      [] s \in {"ACTIVE", "PAUSED"} -> {"ACTIVE", "PAUSED", "COMPLETED"} \ {s}
      [] s = "COMPLETED" -> {"ARCHIVED"} [] s = "ARCHIVED" -> {}

Phases == {"DRAFT", "REVIEW", "APPROVED", "ACTIVE", "PAUSED", "COMPLETED", "ARCHIVED"}

\* The status each operation asks for.
Asks == [submit_for_review |-> "REVIEW", approve |-> "APPROVED", activate |-> "ACTIVE",
         pause |-> "PAUSED", resume |-> "ACTIVE", complete |-> "COMPLETED",
         archive |-> "ARCHIVED"]
Edits == DOMAIN Asks

Edit == [at : {"idle", "update", "publish"}, name : Edits]

CampaignInit ==
    /\ campaign = "DRAFT"
    /\ pinned = FALSE
    /\ edit = [e \in Editors |-> [at |-> "idle", name |-> "pause"]]
    /\ events = {}
    /\ approved = FALSE
    /\ bypassed = FALSE

\* pin(), of a published version; pins are replaced but never removed.
Pin ==
    /\ pinned' = TRUE
    /\ UNCHANGED <<campaign, edit, events, approved, bypassed>>

\* Mutant: activate() does not look for the pin.
PinAllowsAlways(name) == TRUE

\* Only activate() looks for the pin.
PinAllows(name) == name = "activate" => pinned

\* _transition() up to the validation, which raises or lets the edit go on.
BeginEdit(e, name) ==
    /\ edit[e].at = "idle"
    /\ PinAllows(name)
    /\ Asks[name] \in Followers(campaign)
    /\ edit' = [edit EXCEPT ![e] = [at |-> "update", name |-> name]]
    /\ bypassed' = (bypassed \/ (name = "resume" /\ campaign = "APPROVED"))
    /\ UNCHANGED <<campaign, pinned, events, approved>>

WriteStatus(e) ==
    LET name == edit[e].name IN
    /\ edit[e].at = "update"
    /\ campaign' = Asks[name]
    /\ approved' = (approved \/ name = "approve")
    /\ edit' = [edit EXCEPT ![e].at = IF name \in {"activate", "complete"} THEN "publish"
                                                                           ELSE "idle"]
    /\ UNCHANGED <<pinned, events, bypassed>>

\* CampaignStarted or CampaignCompleted.
PublishEdit(e) ==
    /\ edit[e].at = "publish"
    /\ events' = events \cup {Asks[edit[e].name]}
    /\ edit' = [edit EXCEPT ![e].at = "idle"]
    /\ UNCHANGED <<campaign, pinned, approved, bypassed>>

\* An edit raises or its process stops.
AbortEdit(e) ==
    /\ edit[e].at # "idle"
    /\ edit' = [edit EXCEPT ![e].at = "idle"]
    /\ UNCHANGED <<campaign, pinned, events, approved, bypassed>>

CampaignNext ==
    \/ Pin
    \/ \E e \in Editors :
        \/ \E name \in Edits : BeginEdit(e, name)
        \/ WriteStatus(e)
        \/ PublishEdit(e)
        \/ AbortEdit(e)

CampaignSpec == CampaignInit /\ [][CampaignNext]_campaignVars

-----------------------------------------------------------------------------
Begun == {"ACTIVE", "PAUSED", "COMPLETED", "ARCHIVED"}

\* No order of overlapping edits, stale writes included, brings a campaign to
\* ACTIVE or past it without an approval; nor without a pinned prompt version,
\* except through a resume() of a campaign that was never started, which does
\* not look for the pin.  A CampaignStarted event always has both.
CampaignStartsProperly ==
    /\ campaign \in Begun => approved /\ (pinned \/ bypassed)
    /\ "ACTIVE" \in events => approved /\ pinned
=============================================================================
