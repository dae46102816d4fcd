---------------------------- MODULE AccountTokens ----------------------------
(***************************************************************************)
(* The OAuth tokens of a social account and everybody who renews them.     *)
(*   src/apps/social_accounts/tasks.py   the health check and its schedule *)
(*   src/apps/publisher/engine.py        before a publish, and after a 401 *)
(*   src/apps/social_accounts/views.py   a person reconnects               *)
(* One account.  Every grant of the platform is numbered; a grant has an   *)
(* access token and may have a refresh token that replaces the last one.   *)
(* Each task works on the instance it read and saves the columns it names, *)
(* whatever the row has become.  A consent grants tokens that only the     *)
(* request holds, or the session, until they are saved on the row.  The    *)
(* expiry is taken as known (select_account stores none: such a token is   *)
(* found dead by the profile call or a 401, which are here).               *)
(***************************************************************************)
EXTENDS Integers, FiniteSets

CONSTANTS
    Tasks,      \* processes
    MaxGrants,  \* bound: grants of the platform
    MaxBegun,   \* bound: publishes (health checks are not bounded)
    MaxFaults,  \* bound: lost answers and processes that die
    MaxErrors   \* bound: passing errors of the platform's profile endpoint

Grants == 1..MaxGrants

ASSUME AccountTokensAssumption ==
    /\ MaxGrants \in Nat \ {0} /\ MaxBegun \in Nat
    /\ MaxFaults \in Nat /\ MaxErrors \in Nat

VARIABLES
    account,   \* the SocialAccount row
    granted,   \* the platform: grants so far
    current,   \* the platform: the grant whose refresh token it takes
    age,       \* how long each access token still lives; the row knows all but "revoked"
    queued,    \* a health check waits in the broker
    job,       \* what each process is doing
    pending,   \* tokens a consent granted that are not on the row yet
    begun,     \* publishes so far
    errors,    \* passing errors so far
    lost,      \* history: refreshes whose tokens were lost with an answer or a process
    outdated,  \* history: an instance was saved after the row got other tokens
    dropped    \* history: a consent dropped the refresh token in force, saved
               \* none or saved an older one

historyVars == <<lost, outdated, dropped>>
vars == <<account, granted, current, age, queued, job, pending, begun, errors, historyVars>>

-----------------------------------------------------------------------------
(* Types *)

\* oauth_access_token, oauth_refresh_token (0 is the empty string),
\* connection_status; the expiry is saved with the access token.
Account == [access : Grants, refresh : Grants \cup {0},
            conn : {"connected", "token_expiring", "error"}]

Stages == {"off",
           "refreshing", "saving",             \* before the work, all of them
           "profiling", "recording",           \* a health check
           "publishing",                       \* a publish
           "reviving", "resaving", "retrying"} \* a publish after a 401

\* The instance, and the refresh token the row had when it was read or last saved.
Job == [at : Stages, kind : {"health", "publish"},
        mine : Account, read : Grants \cup {0}]
NoJob == [at |-> "off", kind |-> "health", read |-> 1,
          mine |-> [access |-> 1, refresh |-> 1, conn |-> "connected"]]

TypeOK ==
    /\ account \in Account
    /\ granted \in Grants /\ current \in Grants
    /\ age \in [Grants -> {"fresh", "near", "over", "revoked"}]
    /\ queued \in BOOLEAN
    /\ job \in [Tasks -> Job]
    /\ pending \subseteq Account
    /\ begun \in Nat /\ errors \in Nat /\ lost \in Nat
    /\ outdated \in BOOLEAN /\ dropped \in BOOLEAN

-----------------------------------------------------------------------------
(* Helpers.  A definition named Slip... is the one after it with a plausible  *)
(* mistake; no specification uses it, it shows that a property can fail.      *)

platformVars == <<granted, current, age>>

\* is_token_expiring_soon.
ExpiringSoon(a) == age[a.access] \in {"near", "over"}
Accepted(a) == age[a.access] \in {"fresh", "near"}

Goes(t, stage) == job' = [job EXCEPT ![t].at = stage]
Done(t) == job' = [job EXCEPT ![t] = NoJob]

Reads(t, kind, stage) ==
    /\ job[t].at = "off"
    /\ job' = [job EXCEPT ![t] = [at |-> stage, kind |-> kind,
                                  mine |-> account, read |-> account.refresh]]
    /\ UNCHANGED <<account, platformVars, pending, errors, historyVars>>

\* The platform makes a grant, with a refresh token of its own or not.
Grant(renews) ==
    /\ granted < MaxGrants
    /\ granted' = granted + 1
    /\ current' = IF renews THEN granted + 1 ELSE current
    /\ UNCHANGED age

\* The instance with the new tokens: no new refresh token leaves the old one.
Renewed(a, renews) ==
    [access |-> granted + 1, refresh |-> IF renews THEN granted + 1 ELSE a.refresh,
     conn |-> "connected"]

SlipSaveTokens(t) == account' = [account EXCEPT !.access = job[t].mine.access,
                                                !.conn = job[t].mine.conn]

\* save(update_fields = tokens, connection_status).
SaveTokens(t) == account' = job[t].mine

Overwrites(t) == outdated' = (outdated \/ account.refresh # job[t].read)

-----------------------------------------------------------------------------
(* Beginning *)

\* schedule_all_health_checks: an account in error is not looked at again.
ScheduleHealthChecks ==
    /\ ~queued
    /\ account.conn \in {"connected", "token_expiring"}
    /\ queued' = TRUE
    /\ UNCHANGED <<account, platformVars, job, pending, begun, errors, historyVars>>

\* An account without a refresh token is only looked at.
HealthCheck(t) ==
    /\ queued /\ queued' = FALSE
    /\ Reads(t, "health", IF ExpiringSoon(account) /\ account.refresh # 0
                          THEN "refreshing" ELSE "profiling")
    /\ UNCHANGED begun

Publish(t) ==
    /\ begun < MaxBegun /\ begun' = begun + 1
    /\ Reads(t, "publish", IF ExpiringSoon(account) THEN "refreshing" ELSE "publishing")
    /\ UNCHANGED queued

-----------------------------------------------------------------------------
(* provider.refresh_token *)

Refreshing(t) == job[t].at \in {"refreshing", "reviving"}
Answers(t) == Refreshing(t) /\ job[t].mine.refresh = current

AfterRefresh(t) ==
    CASE job[t].at = "reviving" -> "resaving"
      [] job[t].kind = "health" -> "profiling"
      [] OTHER -> "saving"

Refreshed(t, renews) ==
    /\ Answers(t)
    /\ Grant(renews)
    /\ job' = [job EXCEPT ![t].mine = Renewed(@, renews), ![t].at = AfterRefresh(t)]
    /\ UNCHANGED <<account, queued, pending, begun, errors, historyVars>>

\* What a task does when the refresh raises: the health check notes it, the
\* publish goes on with the old token, the publish that had its 401 gives up
\* with the account flagged.
RefreshRaises(t) ==
    IF job[t].at = "reviving"
    THEN account' = [account EXCEPT !.conn = "error"] /\ Done(t)
    ELSE /\ UNCHANGED account
         /\ CASE job[t].kind = "health" ->
                    job' = [job EXCEPT ![t].mine.conn = "token_expiring",
                                       ![t].at = "profiling"]
              [] job[t].kind = "publish" -> Goes(t, "publishing")

\* Refused: the token is not the current one, or the platform is down.
RefreshFails(t) ==
    /\ Refreshing(t)
    /\ RefreshRaises(t)
    /\ UNCHANGED <<platformVars, queued, pending, begun, errors, historyVars>>

\* The platform grants and the answer is lost.
RefreshUnanswered(t, renews) ==
    /\ Answers(t)
    /\ lost < MaxFaults /\ lost' = lost + 1
    /\ Grant(renews)
    /\ RefreshRaises(t)
    /\ UNCHANGED <<queued, pending, begun, errors, outdated, dropped>>

-----------------------------------------------------------------------------
(* A publish *)

SaveRefreshed(t) ==
    /\ job[t].at \in {"saving", "resaving"}
    /\ SaveTokens(t) /\ Overwrites(t)
    /\ job' = [job EXCEPT ![t].read = job[t].mine.refresh,
                          ![t].at = IF @ = "saving" THEN "publishing" ELSE "retrying"]
    /\ UNCHANGED <<platformVars, queued, pending, begun, errors, lost, dropped>>

Published(t) ==
    /\ job[t].at \in {"publishing", "retrying"}
    /\ Accepted(job[t].mine)
    /\ Done(t)
    /\ UNCHANGED <<account, platformVars, queued, pending, begun, errors, historyVars>>

\* _publish_with_auth_retry: one refresh for a 401, if there is a refresh token,
\* then _mark_needs_reconnect.
Unauthorized(t) ==
    /\ job[t].at \in {"publishing", "retrying"}
    /\ ~Accepted(job[t].mine)
    /\ IF job[t].at = "publishing" /\ job[t].mine.refresh # 0
       THEN Goes(t, "reviving") /\ UNCHANGED account
       ELSE account' = [account EXCEPT !.conn = "error"] /\ Done(t)
    /\ UNCHANGED <<platformVars, queued, pending, begun, errors, historyVars>>

-----------------------------------------------------------------------------
(* The rest of a health check *)

SlipProfile(t) ==
    /\ job[t].at = "profiling"
    /\ Goes(t, "recording")
    /\ UNCHANGED <<account, platformVars, queued, pending, begun, errors, historyVars>>

Profile(t) ==
    /\ job[t].at = "profiling"
    /\ job' = [job EXCEPT
           ![t].at = "recording",
           ![t].mine.conn = IF ~Accepted(job[t].mine) THEN "error"
                            ELSE IF @ = "token_expiring" THEN @ ELSE "connected"]
    /\ UNCHANGED <<account, platformVars, queued, pending, begun, errors, historyVars>>

ProfileDown(t) ==
    /\ job[t].at = "profiling"
    /\ errors < MaxErrors /\ errors' = errors + 1
    /\ job' = [job EXCEPT ![t].at = "recording", ![t].mine.conn = "error"]
    /\ UNCHANGED <<account, platformVars, queued, pending, begun, historyVars>>

RecordHealth(t) ==
    /\ job[t].at = "recording"
    /\ SaveTokens(t) /\ Overwrites(t)
    /\ Done(t)
    /\ UNCHANGED <<platformVars, queued, pending, begun, errors, lost, dropped>>

-----------------------------------------------------------------------------
(* A person reconnects *)

\* exchange_code (or create_session): the platform grants, with a refresh token
\* or without one, and the request or the session holds the tokens.
Consents(renews) ==
    /\ Grant(renews)
    /\ pending' = pending \cup {[access |-> granted + 1, conn |-> "connected",
                                 refresh |-> IF renews THEN granted + 1 ELSE 0]}
    /\ UNCHANGED <<account, queued, job, begun, errors, historyVars>>

\* _create_or_update_account, at the end of the callback or of the page selection:
\* no refresh token empties the column, and an earlier consent may be saved last.
ConnectSaves(a) ==
    /\ pending' = pending \ {a}
    /\ account' = a
    /\ dropped' = (dropped \/ a.refresh < account.refresh)
    /\ UNCHANGED <<platformVars, queued, job, begun, errors, lost, outdated>>

\* get_profile raises, the page selection is never finished, or the request dies.
ConnectAbandons(a) ==
    /\ pending' = pending \ {a}
    /\ dropped' = (dropped \/ a.refresh = current)
    /\ UNCHANGED <<account, platformVars, queued, job, begun, errors, lost, outdated>>

-----------------------------------------------------------------------------
(* The environment *)

\* An access token in use comes close to its end, ends, or is revoked before.
Age(g, next) ==
    /\ \/ g = account.access
       \/ \E t \in Tasks : job[t].at # "off" /\ g = job[t].mine.access
       \/ \E a \in pending : g = a.access
    /\ <<age[g], next>> \in {<<"fresh", "near">>, <<"fresh", "revoked">>, <<"near", "over">>}
    /\ age' = [age EXCEPT ![g] = next]
    /\ UNCHANGED <<account, granted, current, queued, job, pending, begun, errors, historyVars>>

Crash(t) ==
    /\ job[t].at # "off"
    /\ lost < MaxFaults /\ lost' = lost + 1
    /\ Done(t)
    /\ UNCHANGED <<account, platformVars, queued, pending, begun, errors, outdated, dropped>>

-----------------------------------------------------------------------------

TaskStep(t) ==
    \/ \E renews \in BOOLEAN : Refreshed(t, renews)
    \/ RefreshFails(t) \/ SaveRefreshed(t) \/ Published(t) \/ Unauthorized(t)
    \/ Profile(t) \/ RecordHealth(t)

Next ==
    \/ ScheduleHealthChecks
    \/ \E t \in Tasks :
        \/ HealthCheck(t) \/ Publish(t)
        \/ TaskStep(t)
        \/ \E renews \in BOOLEAN : RefreshUnanswered(t, renews)
        \/ ProfileDown(t) \/ Crash(t)
    \/ \E renews \in BOOLEAN : Consents(renews)
    \/ \E a \in pending : ConnectSaves(a) \/ ConnectAbandons(a)
    \/ \E g \in Grants, next \in {"near", "over", "revoked"} : Age(g, next)

Init ==
    /\ account = [access |-> 1, refresh |-> 1, conn |-> "connected"]
    /\ granted = 1 /\ current = 1
    /\ age = [g \in Grants |-> "fresh"]
    /\ queued = FALSE
    /\ job = [t \in Tasks |-> NoJob] /\ pending = {}
    /\ begun = 0 /\ errors = 0 /\ lost = 0 /\ outdated = FALSE /\ dropped = FALSE

\* The beat schedules health checks, workers take them and finish what they do.
Fairness ==
    /\ WF_vars(ScheduleHealthChecks)
    /\ WF_vars(\E t \in Tasks : HealthCheck(t))
    /\ \A t \in Tasks : WF_vars(TaskStep(t))

Spec == Init /\ [][Next]_vars /\ Fairness

-----------------------------------------------------------------------------
(* Properties *)

\* The row holds the refresh token the platform takes, or a task or a person's
\* request has it in hand and may still save it, unless tokens were lost with an
\* answer or a process, a task saved an instance that was out of date, or a consent
\* dropped its tokens, saved none or saved older ones.
RefreshTokenKept ==
    lost = 0 /\ ~outdated /\ ~dropped =>
        \/ account.refresh = current
        \/ \E t \in Tasks : job[t].at # "off" /\ job[t].mine.refresh = current
        \/ \E a \in pending : a.refresh = current

\* An account that looks connected while its access token is dead is renewed or
\* flagged in the end.
DeadTokenNoticed ==
    (account.conn = "connected" /\ ~Accepted(account))
        ~> (account.conn # "connected" \/ Accepted(account))
=============================================================================
