----------------------------- MODULE MCBusiness -----------------------------
(***************************************************************************)
(* The business rows of a tenant and what several people and jobs do to    *)
(* them at once: usage and invoices, the lifecycle of the tenant and of a  *)
(* campaign, the audiences of its campaigns, settlements, human reviews,   *)
(* invitations, the erasure of a customer.  They share no state, so a      *)
(* behaviour is about one of them and leaves the others where they start.  *)
(***************************************************************************)
EXTENDS UsageBilling, TenantLifecycle, CampaignLifecycle, CampaignAudience,
        Settlement, HumanReview, Invitation, CustomerErasure, TLC

CONSTANTS e1, e2, k1, k2, s1, s2, s3, i1, i2, v1, v2, v3, n1, n2, x1, p1, r1, r2

VARIABLE about   \* the part this behaviour exercises

\* Two adjacent months of one hour each: hour 1 ends the first and starts the
\* second.
MCPeriods == {<<0, 1>>, <<1, 2>>}

\* The first campaign is selected twice.
MCCampaignOf == (s1 :> k1 @@ s2 :> k1 @@ s3 :> k2)

MCTurn == (i1 :> 1 @@ i2 :> 2)

\* Two invitations of one address and one of another.
MCEmailOf == (v1 :> n1 @@ v2 :> n1 @@ v3 :> n2)

\* One key, one clear-text value, two recordings.
MCKind == (x1 :> "key" @@ p1 :> "pii" @@ r1 :> "audio" @@ r2 :> "audio")

\* Checkers, clerks, supervisors, browsers and erasure jobs have the same names.
Symmetry == Permutations(Generations) \cup Permutations(Checkers)

usagePart == vars
lifecyclePart == <<tenantVars, campaignVars, audienceVars>>
peoplePart == <<settlementVars, reviewVars, inviteVars>>

MCInit == /\ Init /\ TenantInit /\ CampaignInit /\ AudienceInit
          /\ SettlementInit /\ ReviewInit /\ InvitationInit /\ ErasureInit
          /\ about \in {"invoices", "limits", "tenant", "campaign", "audience",
                        "settlement", "review", "invitation", "erasure"}

\* The two events are interchangeable: e2 is the later one.
EventsInOrder ==
    Recorded(e1) /\ Recorded(e2) => usage[e1].hour <= usage[e2].hour

\* Invoices and limit checks share nothing but the module.  A delivery that
\* changes nothing is a stuttering step and left out.
UsageNext ==
    \/ /\ about = "invoices" /\ Next /\ UNCHANGED limitVars
       /\ billingVars' # billingVars
       /\ EventsInOrder'
    \/ about = "limits" /\ Next /\ UNCHANGED billingVars

LifecycleNext ==
    \/ about = "tenant" /\ TenantNext /\ UNCHANGED <<campaignVars, audienceVars>>
    \/ about = "campaign" /\ CampaignNext /\ UNCHANGED <<tenantVars, audienceVars>>
    \/ about = "audience" /\ AudienceNext /\ UNCHANGED <<tenantVars, campaignVars>>

PeopleNext ==
    \/ about = "settlement" /\ SettlementNext /\ UNCHANGED <<reviewVars, inviteVars>>
    \/ about = "review" /\ ReviewNext /\ UNCHANGED <<settlementVars, inviteVars>>
    \/ about = "invitation" /\ InvitationNext /\ UNCHANGED <<settlementVars, reviewVars>>

\* Bound: a consent that was revoked is not given again.
ErasurePart == ErasureNext /\ (revoked => revoked')

MCNext ==
    /\ \/ UsageNext /\ UNCHANGED <<lifecyclePart, peoplePart, erasureVars>>
       \/ LifecycleNext /\ UNCHANGED <<usagePart, peoplePart, erasureVars>>
       \/ PeopleNext /\ UNCHANGED <<usagePart, lifecyclePart, erasureVars>>
       \/ about = "erasure" /\ ErasurePart
          /\ UNCHANGED <<usagePart, lifecyclePart, peoplePart>>
    /\ UNCHANGED about

MCSpec == MCInit /\ [][MCNext]_<<usagePart, lifecyclePart, peoplePart, erasureVars, about>>
=============================================================================
