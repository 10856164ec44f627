----------------------------- MODULE Invitation -----------------------------
(***************************************************************************)
(* Invitations of users.  activate() reads the invitation of a token,      *)
(* creates the user, assigns the invited role and marks the invitation,    *)
(* each in a transaction of its own.  The users of a tenant have distinct  *)
(* e-mail addresses (uq_user_tenant_email).                                *)
(***************************************************************************)
CONSTANTS Invites,
          Emails,
          EmailOf,       \* [Invites -> Emails]
          Browsers       \* requests that run at the same time

ASSUME InvitationAssumption == Invites # {} /\ EmailOf \in [Invites -> Emails]

VARIABLES invite,        \* status of each invitation
          expired,       \* invitations whose expires_at has passed
          users,         \* addresses with a row in users
          assigned,      \* addresses of users with their role assignment
          browser        \* the request of each browser

inviteVars == <<invite, expired, users, assigned, browser>>

NoToken == [step |-> "idle", of |-> CHOOSE i \in Invites : TRUE]

InvitationTypeOK ==
    /\ invite \in [Invites -> {"NONE", "PENDING", "EXPIRED", "ACCEPTED"}]
    /\ expired \subseteq Invites
    /\ users \subseteq Emails
    /\ assigned \subseteq Emails
    /\ browser \in [Browsers -> [step : {"idle", "expire", "create", "assign", "accept"},
                                 of : Invites]]

InvitationInit ==
    /\ invite = [i \in Invites |-> "NONE"]
    /\ expired = {} /\ users = {} /\ assigned = {}
    /\ browser = [b \in Browsers |-> NoToken]

\* invite().  Nothing stops a second invitation of the same address.
Invite(i) ==
    /\ invite[i] = "NONE"
    /\ invite' = [invite EXCEPT ![i] = "PENDING"]
    /\ UNCHANGED <<expired, users, assigned, browser>>

DeadlinePasses(i) ==
    /\ i \notin expired /\ invite[i] # "NONE"
    /\ expired' = expired \cup {i}
    /\ UNCHANGED <<invite, users, assigned, browser>>

\* get_by_token_hash() and the comparisons of status and time.
ReadToken(b, i) ==
    /\ browser[b].step = "idle" /\ invite[i] = "PENDING"
    /\ browser' = [browser EXCEPT ![b] =
           [step |-> IF i \in expired THEN "expire" ELSE "create", of |-> i]]
    /\ UNCHANGED <<invite, expired, users, assigned>>

\* mark_status(EXPIRED), then the request raises.
MarkExpired(b) ==
    /\ browser[b].step = "expire"
    /\ invite' = [invite EXCEPT ![browser[b].of] = "EXPIRED"]
    /\ browser' = [browser EXCEPT ![b] = NoToken]
    /\ UNCHANGED <<expired, users, assigned>>

\* create_user(): an address that is taken raises.
\* Mutant: an activation goes on with the user that is there.
CreateUserResuming(b) ==
    /\ browser[b].step = "create"
    /\ users' = users \cup {EmailOf[browser[b].of]}
    /\ browser' = [browser EXCEPT ![b].step = "assign"]
    /\ UNCHANGED <<invite, expired, assigned>>

CreateUser(b) ==
    LET email == EmailOf[browser[b].of] IN
    /\ browser[b].step = "create"
    /\ users' = users \cup {email}
    /\ browser' = [browser EXCEPT ![b] =
           IF email \in users THEN NoToken ELSE [@ EXCEPT !.step = "assign"]]
    /\ UNCHANGED <<invite, expired, assigned>>

\* assign_role()
AssignRole(b) ==
    /\ browser[b].step = "assign"
    /\ assigned' = assigned \cup {EmailOf[browser[b].of]}
    /\ browser' = [browser EXCEPT ![b].step = "accept"]
    /\ UNCHANGED <<invite, expired, users>>

\* mark_status(ACCEPTED)
MarkAccepted(b) ==
    /\ browser[b].step = "accept"
    /\ invite' = [invite EXCEPT ![browser[b].of] = "ACCEPTED"]
    /\ browser' = [browser EXCEPT ![b] = NoToken]
    /\ UNCHANGED <<expired, users, assigned>>

\* A statement fails or the process stops: what was committed stays.
ActivationStops(b) ==
    /\ browser[b].step # "idle"
    /\ browser' = [browser EXCEPT ![b] = NoToken]
    /\ UNCHANGED <<invite, expired, users, assigned>>

InvitationNext ==
    \/ \E i \in Invites : Invite(i) \/ DeadlinePasses(i)
    \/ \E b \in Browsers :
          \/ \E i \in Invites : ReadToken(b, i)
          \/ MarkExpired(b) \/ CreateUser(b) \/ AssignRole(b)
          \/ MarkAccepted(b) \/ ActivationStops(b)

InvitationSpec == InvitationInit /\ [][InvitationNext]_inviteVars

-----------------------------------------------------------------------------
Activating(i) == \E b \in Browsers :
    browser[b].of = i /\ browser[b].step \in {"assign", "accept"}

\* The invited user exists and nobody is completing the activation any more.
Stranded(i) == invite[i] = "PENDING" /\ EmailOf[i] \in users /\ ~Activating(i)

\* A user whose role nobody is about to assign.
Powerless(e) == /\ e \in users \ assigned
                /\ \A i \in Invites : EmailOf[i] = e => ~Activating(i)

\* Whoever finds an invitation ACCEPTED finds a user with the invited role, over
\* two activations of one token, two invitations of one address, and stops.
AcceptedHasRole ==
    \A i \in Invites : invite[i] = "ACCEPTED" => EmailOf[i] \in users \cap assigned

\* A stop between the transactions of an activation cannot be made good with the
\* token: the invitation is never accepted, it can only expire, and a user left
\* without a role stays without one.
StrandedForEver ==
    [][/\ \A i \in Invites : Stranded(i) => Stranded(i)' \/ invite'[i] = "EXPIRED"
       /\ \A e \in Emails : Powerless(e) => Powerless(e)']_inviteVars
=============================================================================
