------------------------- MODULE AccountTokens_proofs -------------------------
(***************************************************************************)
(* TypeOK and RefreshTokenKept hold for any number of tasks and grants.    *)
(* A task that ends without saving must not take the token in force with   *)
(* it.  The argument: refresh tokens only grow newer, a task between its   *)
(* stages holds the token it read or saved last (Steady), and if that      *)
(* token is in force then the row has it too (Agreed).  A save that finds  *)
(* in the row what the task read therefore writes the token in force       *)
(* whenever it overwrites it.  A person's request that saves tokens no     *)
(* older than the row's does the same.                                     *)
(***************************************************************************)
EXTENDS AccountTokens, TLAPS

Active(t) == job[t].at # "off"

\* A held token is no older than the one read and no newer than the one in force.
Ordered ==
    /\ 1 <= current /\ current <= granted
    /\ account.refresh <= current
    /\ \A a \in pending : a.refresh <= current
    /\ \A t \in Tasks :
        job[t].read <= job[t].mine.refresh /\ job[t].mine.refresh <= current

\* A task that is not about to save holds what it read or saved last.
Steady ==
    \A t \in Tasks :
        job[t].at \in {"refreshing", "publishing", "reviving", "retrying"} =>
            job[t].mine.refresh = job[t].read

Calm == lost = 0 /\ ~outdated /\ ~dropped

Agreed ==
    Calm => \A t \in Tasks :
        Active(t) /\ job[t].read = current => account.refresh = current

Kept ==
    Calm => \/ account.refresh = current
            \/ \E t \in Tasks : Active(t) /\ job[t].mine.refresh = current
            \/ \E a \in pending : a.refresh = current

Inv == TypeOK /\ Ordered /\ Steady /\ Agreed /\ Kept

-----------------------------------------------------------------------------
(* Initial state and the tasks *)

LEMMA InitInv == Init => Inv
<1> SUFFICES ASSUME Init PROVE Inv
  OBVIOUS
<1>1. 1 \in Grants
  BY AccountTokensAssumption DEF Grants
<1>2. NoJob \in Job /\ account \in Account
  BY <1>1 DEF Init, NoJob, Job, Account, Stages
<1>3. TypeOK
  BY <1>1, <1>2 DEF Init, TypeOK
<1>4. \A t \in Tasks :
        job[t].at = "off" /\ job[t].read = 1 /\ job[t].mine.refresh = 1
  BY DEF Init, NoJob
<1> QED BY <1>3, <1>4 DEF Init, Inv, Ordered, Steady, Agreed, Kept, Active

LEMMA BeginInv ==
  ASSUME Inv, NEW t \in Tasks,
         HealthCheck(t) \/ Publish(t)
  PROVE Inv'
<1>1. PICK kind \in {"health", "publish"},
           stage \in {"refreshing", "profiling", "publishing"} :
        /\ kind = "health" \/ stage # "profiling"
        /\ Reads(t, kind, stage)
  BY DEF HealthCheck, Publish
<1>2. queued' \in BOOLEAN /\ begun' \in Nat
  <2>1. queued' = FALSE \/ queued' = queued
    BY DEF HealthCheck, Publish
  <2>2. begun' = begun \/ begun' = begun + 1
    BY DEF HealthCheck, Publish
  <2>3. queued' \in BOOLEAN
    BY <2>1 DEF Inv, TypeOK
  <2>4. begun' \in Nat
    BY <2>2 DEF Inv, TypeOK
  <2> QED BY <2>3, <2>4
<1>3. TypeOK'
  <2>1. job'[t] \in Job /\ job' \in [Tasks -> Job]
    BY <1>1 DEF Inv, TypeOK, Reads, Job, Stages, Account
  <2> QED BY <1>1, <1>2, <2>1 DEF Inv, TypeOK, Reads, platformVars, historyVars
<1>4. Ordered'
  BY <1>1 DEF Inv, TypeOK, Ordered, Reads, platformVars, historyVars, Account, Job, Grants
<1>5. Steady'
  BY <1>1 DEF Inv, TypeOK, Steady, Reads, Account, Job
<1>6. Agreed'
  BY <1>1 DEF Inv, TypeOK, Agreed, Active, Calm, Reads, platformVars, historyVars, Job
<1>7. Kept'
  BY <1>1 DEF Inv, TypeOK, Kept, Active, Calm, Reads, platformVars, historyVars, Job
<1> QED BY <1>3, <1>4, <1>5, <1>6, <1>7 DEF Inv

\* A step that leaves every refresh token where it is and ends at most tasks that
\* hold what they read.
LEMMA TokensStayInv ==
  ASSUME Inv, TypeOK', NEW t \in Tasks,
         account'.refresh = account.refresh, UNCHANGED <<granted, current, pending, outdated, dropped>>,
         lost' >= lost,
         \A u \in Tasks \ {t} : job'[u] = job[u],
         \/ /\ Active(t) /\ job'[t].at # "off"
            /\ job'[t].read = job[t].read /\ job'[t].mine.refresh = job[t].mine.refresh
            /\ job'[t].at \in {"refreshing", "publishing", "reviving", "retrying"} =>
                  job[t].at \in {"refreshing", "publishing", "reviving", "retrying"}
         \/ /\ job'[t] = NoJob
            /\ lost' > lost \/ job[t].mine.refresh = job[t].read
  PROVE Inv'
<1>1. Ordered'
  BY DEF Inv, TypeOK, Ordered, NoJob, Grants
<1>2. Steady'
  BY DEF Inv, Steady, NoJob
<1>3. lost' > lost => ~Calm'
  BY DEF Inv, TypeOK, Calm
<1>4. Calm' => Calm
  BY DEF Inv, TypeOK, Calm
<1>5. Agreed'
  BY <1>4 DEF Inv, Agreed, Active, NoJob
<1>6. Kept'
  BY <1>3, <1>4 DEF Inv, Kept, Agreed, Active, NoJob
<1> QED BY <1>1, <1>2, <1>5, <1>6 DEF Inv

\* A task with another connection status in its instance, at another stage.
WithConn(t, conn, stage) == [job[t] EXCEPT !.mine.conn = conn, !.at = stage]

LEMMA WithConnType ==
  ASSUME TypeOK, NEW t \in Tasks, NEW stage \in Stages,
         NEW conn \in {"connected", "token_expiring", "error"}
  PROVE /\ WithConn(t, conn, stage) \in Job
        /\ WithConn(t, conn, stage).at = stage
        /\ WithConn(t, conn, stage).read = job[t].read
        /\ WithConn(t, conn, stage).mine.refresh = job[t].mine.refresh
<1> DEFINE mine == [job[t].mine EXCEPT !.conn = conn]
<1>1. job[t] \in Job /\ job[t].mine \in Account
  BY DEF TypeOK, Job
<1>2. mine \in Account /\ mine.refresh = job[t].mine.refresh
  BY <1>1 DEF Account
<1>3. WithConn(t, conn, stage) = [job[t] EXCEPT !.mine = mine, !.at = stage]
  BY <1>1 DEF WithConn, Job
<1> HIDE DEF mine
<1> QED BY <1>1, <1>2, <1>3 DEF Job

\* What RefreshRaises leaves alone, for a task whose refresh went wrong.
LEMMA RefreshRaisesTypes ==
  ASSUME TypeOK, NEW t \in Tasks, Refreshing(t), RefreshRaises(t)
  PROVE /\ account' \in Account /\ account'.refresh = account.refresh
        /\ job' \in [Tasks -> Job]
        /\ \A u \in Tasks \ {t} : job'[u] = job[u]
        /\ \/ /\ job'[t].at # "off"
              /\ job'[t].read = job[t].read /\ job'[t].mine.refresh = job[t].mine.refresh
           \/ job'[t] = NoJob
<1>1. NoJob \in Job
  BY AccountTokensAssumption DEF NoJob, Job, Account, Stages, Grants
<1>2. CASE job[t].at = "reviving"
  BY <1>1, <1>2 DEF RefreshRaises, Done, TypeOK, Account
<1>3. CASE job[t].at # "reviving" /\ job[t].kind = "health"
  <2>1. job' = [job EXCEPT ![t].mine.conn = "token_expiring", ![t].at = "profiling"]
    BY <1>3 DEF RefreshRaises
  <2>2. job' = [job EXCEPT ![t] = [job[t] EXCEPT !.mine.conn = "token_expiring", !.at = "profiling"]]
    BY <2>1 DEF TypeOK, Job
  <2>3. WithConn(t, "token_expiring", "profiling") \in Job
    BY WithConnType DEF Stages
  <2>4. job' = [job EXCEPT ![t] = WithConn(t, "token_expiring", "profiling")]
    BY <2>2 DEF WithConn
  <2> QED BY <1>3, <2>3, <2>4, WithConnType DEF RefreshRaises, TypeOK, Stages
<1>4. CASE job[t].at # "reviving" /\ job[t].kind = "publish"
  BY <1>4 DEF RefreshRaises, Goes, TypeOK, Job, Stages
<1>5. job[t].kind \in {"health", "publish"}
  BY DEF TypeOK, Job
<1> QED BY <1>2, <1>3, <1>4, <1>5

LEMMA RefreshFailsInv ==
  ASSUME Inv, NEW t \in Tasks, RefreshFails(t)
  PROVE Inv'
<1>1. Refreshing(t) /\ RefreshRaises(t) /\ TypeOK
  BY DEF RefreshFails, Inv
<1>2. TypeOK'
  BY <1>1, RefreshRaisesTypes DEF RefreshFails, platformVars, historyVars, TypeOK
<1>3. job[t].mine.refresh = job[t].read
      /\ Active(t) /\ job[t].at \in {"refreshing", "reviving"}
  BY <1>1 DEF Inv, Steady, Refreshing, Active
<1>4. lost' >= lost
  BY DEF RefreshFails, Inv, TypeOK, historyVars
<1> QED BY <1>1, <1>2, <1>3, <1>4, RefreshRaisesTypes, TokensStayInv
        DEF RefreshFails, platformVars, historyVars

\* The platform's step: the new grant is the newest, and is in force if it renews.
LEMMA GrantTypes ==
  ASSUME TypeOK, NEW renews \in BOOLEAN, Grant(renews)
  PROVE /\ granted + 1 \in Grants /\ granted' \in Grants /\ current' \in Grants
        /\ granted' = granted + 1 /\ age' = age
        /\ current' = IF renews THEN granted + 1 ELSE current
  BY AccountTokensAssumption DEF TypeOK, Grant, Grants

LEMMA RefreshUnansweredInv ==
  ASSUME Inv, NEW t \in Tasks, NEW renews \in BOOLEAN, RefreshUnanswered(t, renews)
  PROVE Inv'
<1>1. Refreshing(t) /\ RefreshRaises(t) /\ TypeOK /\ Grant(renews)
  BY DEF RefreshUnanswered, Answers, Inv
<1>2. TypeOK'
  BY <1>1, GrantTypes, RefreshRaisesTypes DEF RefreshUnanswered, TypeOK
<1>3. ~Calm'
  BY DEF RefreshUnanswered, Calm, Inv, TypeOK
<1>4. Ordered'
  <2>1. /\ granted \in Nat /\ current \in Nat /\ current >= 1 /\ current <= granted
        /\ account.refresh \in Nat /\ account.refresh <= current
    BY DEF Inv, TypeOK, Ordered, Grants, Account
  <2>2. /\ current <= current' /\ current' <= granted' /\ current' \in Nat
        /\ account'.refresh = account.refresh
    BY <1>1, <2>1, GrantTypes, RefreshRaisesTypes
  <2>3. ASSUME NEW u \in Tasks
        PROVE  job'[u].read <= job'[u].mine.refresh /\ job'[u].mine.refresh <= current'
    <3>1. \/ job'[u].read = job[u].read /\ job'[u].mine.refresh = job[u].mine.refresh
          \/ job'[u].read = 1 /\ job'[u].mine.refresh = 1
      BY <1>1, RefreshRaisesTypes DEF NoJob
    <3>2. /\ job[u].read \in Nat /\ job[u].mine.refresh \in Nat
          /\ job[u].read <= job[u].mine.refresh /\ job[u].mine.refresh <= current
      BY DEF Inv, TypeOK, Ordered, Grants, Job, Account
    <3> QED BY <2>1, <2>2, <3>1, <3>2
  <2>4. \A a \in pending' : a.refresh <= current'
    BY <2>1, <2>2 DEF RefreshUnanswered, Inv, TypeOK, Ordered, Account, Grants
  <2> QED BY <2>1, <2>2, <2>3, <2>4 DEF Ordered
<1>5. Steady'
  BY <1>1, <1>2, RefreshRaisesTypes DEF Inv, Steady, Refreshing, NoJob
<1> QED BY <1>2, <1>3, <1>4, <1>5 DEF Inv, Agreed, Kept

LEMMA RefreshedInv ==
  ASSUME Inv, NEW t \in Tasks, NEW renews \in BOOLEAN, Refreshed(t, renews)
  PROVE Inv'
<1>1. /\ Refreshing(t) /\ job[t].mine.refresh = current /\ Grant(renews)
      /\ job[t].at \in {"refreshing", "reviving"}
  BY DEF Refreshed, Answers, Refreshing
<1> DEFINE new == IF renews THEN granted + 1 ELSE current
<1>2. AfterRefresh(t) \in {"saving", "profiling", "resaving"}
  BY DEF AfterRefresh
<1>3. Renewed(job[t].mine, renews) = [access |-> granted + 1, refresh |-> new, conn |-> "connected"]
  BY <1>1 DEF Renewed
<1>4. job' = [job EXCEPT ![t] = [job[t] EXCEPT !.mine = Renewed(job[t].mine, renews), !.at = AfterRefresh(t)]]
  BY DEF Refreshed, Inv, TypeOK
<1>5. granted + 1 \in Grants /\ new \in Grants /\ current <= new /\ new = current' /\ new <= granted'
  BY <1>1, GrantTypes DEF Inv, TypeOK, Grants, Ordered
<1>6. /\ job'[t].mine.refresh = new /\ job'[t].read = job[t].read /\ job'[t].at = AfterRefresh(t)
      /\ job'[t] \in Job
      /\ \A u \in Tasks \ {t} : job'[u] = job[u]
  <2>1. Renewed(job[t].mine, renews) \in Account
    BY <1>3, <1>5 DEF Account
  <2>2. Renewed(job[t].mine, renews).refresh = new
    BY <1>3
  <2> HIDE DEF new
  <2> QED BY <1>2, <1>4, <2>1, <2>2 DEF Inv, TypeOK, Job, Stages
<1>7. TypeOK'
  <2>1. job' \in [Tasks -> Job]
    BY <1>4, <1>6 DEF Inv, TypeOK
  <2> QED BY <1>1, <2>1, GrantTypes DEF Refreshed, Inv, TypeOK, historyVars
<1> HIDE DEF new
<1>8. Ordered'
  <2>1. /\ account' = account /\ pending' = pending /\ granted' \in Grants
        /\ current <= current' /\ current' <= granted' /\ 1 <= current'
    BY <1>1, <1>5, GrantTypes DEF Refreshed, Inv, TypeOK, Ordered, Grants
  <2>2. account'.refresh <= current' /\ \A a \in pending' : a.refresh <= current'
    BY <2>1, <1>7 DEF Inv, TypeOK, Ordered, Account, Grants
  <2>3. ASSUME NEW u \in Tasks
        PROVE  job'[u].read <= job'[u].mine.refresh /\ job'[u].mine.refresh <= current'
    <3>1. /\ job[u].read \in Nat /\ job[u].mine.refresh \in Nat
          /\ job[u].read <= job[u].mine.refresh /\ job[u].mine.refresh <= current
          /\ current \in Nat /\ current' \in Nat /\ new \in Nat
      BY <1>1, <1>5, <2>1, GrantTypes DEF Inv, TypeOK, Ordered, Grants, Job, Account
    <3>2. job'[u] = job[u] \/ (u = t /\ job'[u].read = job[u].read /\ job'[u].mine.refresh = new)
      BY <1>6
    <3> QED BY <1>1, <1>5, <2>1, <3>1, <3>2
  <2> QED BY <2>1, <2>2, <2>3 DEF Ordered
<1>9. Steady'
  BY <1>2, <1>6 DEF Inv, Steady
<1>10. Agreed'
  <2> SUFFICES ASSUME Calm', NEW u \in Tasks, Active(u)', job'[u].read = current'
               PROVE  account'.refresh = current'
    BY DEF Agreed
  <2>1. Calm /\ account' = account
    BY DEF Refreshed, Calm, historyVars
  <2>2. job'[u].read = job[u].read /\ Active(u)
    BY <1>1, <1>6 DEF Active
  <2>3. job[u].read <= current
    BY DEF Inv, TypeOK, Ordered, Grants, Job, Account
  <2>4. current' = current
    BY <1>1, <2>2, <2>3, GrantTypes DEF Inv, TypeOK, Ordered, Grants
  <2> QED BY <2>1, <2>2, <2>4 DEF Inv, Agreed
<1>11. Kept'
  BY <1>2, <1>5, <1>6 DEF Kept, Active
<1> QED BY <1>7, <1>8, <1>9, <1>10, <1>11 DEF Inv

-----------------------------------------------------------------------------
(* Saving *)

\* A save by a task that goes on with what it saved, or ends.
LEMMA SaveInv ==
  ASSUME Inv, TypeOK', NEW t \in Tasks, Active(t), SaveTokens(t), Overwrites(t),
         UNCHANGED <<granted, current, pending, lost, dropped>>,
         \A u \in Tasks \ {t} : job'[u] = job[u],
         \/ job'[t] = NoJob
         \/ /\ job'[t].at # "off" /\ job'[t].mine = job[t].mine
            /\ job'[t].read = job[t].mine.refresh
  PROVE Inv'
<1>1. Ordered'
  <2>1. /\ granted \in Nat /\ current \in Nat /\ current >= 1
        /\ \A u \in Tasks : job[u].read \in Nat /\ job[u].mine.refresh \in Nat
    BY DEF Inv, TypeOK, Grants, Job, Account
  <2>2. account'.refresh = job[t].mine.refresh
    BY DEF SaveTokens
  <2> QED BY <2>1, <2>2 DEF Inv, Ordered, NoJob
<1>2. Steady'
  BY DEF Inv, Steady, NoJob
<1>3. Calm' => Calm /\ account.refresh = job[t].read
  <2>1. lost' = lost /\ (dropped' => dropped) /\ (dropped => dropped')
    OBVIOUS
  <2>2. ~outdated' => ~outdated /\ account.refresh = job[t].read
    BY DEF Overwrites
  <2> QED BY <2>1, <2>2, Zenon DEF Calm
<1>4. job[t].read = current => job[t].mine.refresh = current
  <2>1. job[t] \in Job /\ job[t].mine \in Account
    BY DEF Inv, TypeOK, Job
  <2>2. job[t].mine.refresh \in Int /\ current \in Int
    BY <2>1 DEF Inv, TypeOK, Account, Grants
  <2>3. job[t].read <= job[t].mine.refresh /\ job[t].mine.refresh <= current
    BY DEF Inv, Ordered
  <2> QED BY <2>2, <2>3
<1>5. Agreed'
  BY <1>3, <1>4 DEF Inv, Agreed, Active, SaveTokens, NoJob
<1>6. Kept'
  BY <1>3, <1>4 DEF Inv, Kept, Active, SaveTokens
<1> QED BY <1>1, <1>2, <1>5, <1>6 DEF Inv

LEMMA NoJobType == NoJob \in Job
  BY AccountTokensAssumption DEF NoJob, Job, Account, Stages, Grants

LEMMA SaveRefreshedInv ==
  ASSUME Inv, NEW t \in Tasks, SaveRefreshed(t)
  PROVE Inv'
<1>1. job[t].mine \in Account /\ job[t].mine.refresh \in Grants \cup {0}
  BY DEF Inv, TypeOK, Job, Account
<1> DEFINE next == IF job[t].at = "saving" THEN "publishing" ELSE "retrying"
<1>2. job' = [job EXCEPT ![t] = [job[t] EXCEPT !.read = job[t].mine.refresh, !.at = next]]
  BY DEF SaveRefreshed, Inv, TypeOK, Job
<1>3. /\ job'[t].at = next /\ next \in Stages /\ next # "off"
      /\ job'[t].mine = job[t].mine /\ job'[t].read = job[t].mine.refresh
      /\ job'[t] \in Job /\ job' \in [Tasks -> Job]
      /\ \A u \in Tasks \ {t} : job'[u] = job[u]
  BY <1>1, <1>2 DEF Inv, TypeOK, Job, Stages
<1>4. TypeOK'
  BY <1>1, <1>3 DEF Inv, TypeOK, SaveRefreshed, SaveTokens, Overwrites, platformVars, historyVars
<1> QED BY <1>3, <1>4, SaveInv DEF SaveRefreshed, Active, platformVars, historyVars

LEMMA RecordHealthInv ==
  ASSUME Inv, NEW t \in Tasks, RecordHealth(t)
  PROVE Inv'
<1>1. job[t].mine \in Account
  BY DEF Inv, TypeOK, Job
<1>2. job' = [job EXCEPT ![t] = NoJob]
  BY DEF RecordHealth, Done
<1>3. TypeOK'
  BY <1>1, <1>2, NoJobType
  DEF Inv, TypeOK, RecordHealth, SaveTokens, Overwrites, platformVars, historyVars
<1> QED BY <1>2, <1>3, SaveInv DEF RecordHealth, Active, Inv, TypeOK, platformVars, historyVars

-----------------------------------------------------------------------------
(* The other steps of a task *)

LEMMA PublishedInv ==
  ASSUME Inv, NEW t \in Tasks, Published(t) \/ Unauthorized(t)
  PROVE Inv'
<1>1. Active(t) /\ job[t].mine.refresh = job[t].read
  BY DEF Published, Unauthorized, Active, Inv, Steady
<1>2. /\ account' \in Account /\ account'.refresh = account.refresh
      /\ UNCHANGED <<granted, current, age, queued, pending, begun, errors, lost, outdated, dropped>>
  BY DEF Published, Unauthorized, platformVars, historyVars, Inv, TypeOK, Account
<1>3. CASE job' = [job EXCEPT ![t].at = "reviving"] /\ job[t].at = "publishing"
  <2>1. /\ job' \in [Tasks -> Job] /\ job'[t].at = "reviving"
        /\ job'[t].mine = job[t].mine /\ job'[t].read = job[t].read
        /\ \A u \in Tasks \ {t} : job'[u] = job[u]
    BY <1>3 DEF Inv, TypeOK, Job, Stages
  <2>2. TypeOK' /\ lost' >= lost
    BY <1>2, <2>1 DEF Inv, TypeOK
  <2> QED BY <1>1, <1>2, <1>3, <2>1, <2>2, TokensStayInv
<1>4. CASE job' = [job EXCEPT ![t] = NoJob]
  <2>1. TypeOK' /\ lost' >= lost /\ job'[t] = NoJob /\ \A u \in Tasks \ {t} : job'[u] = job[u]
    BY <1>2, <1>4, NoJobType DEF Inv, TypeOK
  <2> QED BY <1>1, <1>2, <2>1, TokensStayInv
<1> QED BY <1>3, <1>4 DEF Published, Unauthorized, Goes, Done

LEMMA ProfileInv ==
  ASSUME Inv, NEW t \in Tasks, Profile(t) \/ ProfileDown(t)
  PROVE Inv'
<1>1. PICK conn \in {"connected", "token_expiring", "error"} :
        job' = [job EXCEPT ![t].at = "recording", ![t].mine.conn = conn]
  BY DEF Profile, ProfileDown, Inv, TypeOK, Job, Account
<1>2. /\ Active(t) /\ errors' \in Nat
      /\ UNCHANGED <<account, granted, current, age, queued, pending, begun, lost, outdated, dropped>>
  BY DEF Profile, ProfileDown, Active, platformVars, historyVars, Inv, TypeOK
<1>3. job' = [job EXCEPT ![t] = [job[t] EXCEPT !.mine.conn = conn, !.at = "recording"]]
  BY <1>1 DEF Inv, TypeOK, Job
<1>4. job' = [job EXCEPT ![t] = WithConn(t, conn, "recording")]
  BY <1>3 DEF WithConn
<1>5. /\ job' \in [Tasks -> Job] /\ job'[t].at = "recording" /\ job'[t].read = job[t].read
      /\ job'[t].mine.refresh = job[t].mine.refresh
      /\ \A u \in Tasks \ {t} : job'[u] = job[u]
  BY <1>4, WithConnType DEF Inv, TypeOK, Stages
<1>6. TypeOK' /\ lost' >= lost
  BY <1>2, <1>5 DEF Inv, TypeOK
<1> QED BY <1>2, <1>5, <1>6, TokensStayInv

LEMMA CrashInv ==
  ASSUME Inv, NEW t \in Tasks, Crash(t)
  PROVE Inv'
<1>1. job' = [job EXCEPT ![t] = NoJob] /\ lost' = lost + 1 /\ lost \in Nat
  BY DEF Crash, Done, Inv, TypeOK
<1>2. TypeOK' /\ lost' > lost /\ lost' >= lost
  BY <1>1, NoJobType DEF Crash, platformVars, historyVars, Inv, TypeOK
<1>3. job'[t] = NoJob /\ \A u \in Tasks \ {t} : job'[u] = job[u]
  BY <1>1 DEF Inv, TypeOK
<1> QED BY <1>2, <1>3, TokensStayInv DEF Crash, platformVars, historyVars

-----------------------------------------------------------------------------
(* The environment *)

\* A consent: its tokens wait in a request, and they are in force if they renew.
LEMMA ConsentsInv ==
  ASSUME Inv, NEW renews \in BOOLEAN, Consents(renews)
  PROVE Inv'
<1> DEFINE a == [access |-> granted + 1, conn |-> "connected",
                 refresh |-> IF renews THEN granted + 1 ELSE 0]
<1>1. /\ granted + 1 \in Grants /\ granted' \in Grants /\ current' \in Grants /\ age' = age
      /\ granted' = granted + 1
      /\ current' = IF renews THEN granted + 1 ELSE current
  BY GrantTypes DEF Consents, Inv
<1>2. /\ UNCHANGED <<account, queued, job, begun, errors, lost, outdated, dropped>>
      /\ pending' = pending \cup {a}
  BY DEF Consents, historyVars
<1>3. a \in Account /\ a.refresh <= current' /\ (renews => a.refresh = current')
  BY <1>1 DEF Account, Grants
<1> HIDE DEF a
<1>4. TypeOK'
  BY <1>1, <1>2, <1>3 DEF Inv, TypeOK
<1>5. current <= current' /\ current' <= granted' /\ (~renews => current' = current)
  BY <1>1 DEF Inv, TypeOK, Ordered, Grants
<1>6. Ordered'
  BY <1>1, <1>2, <1>3, <1>5 DEF Inv, TypeOK, Ordered, Grants, Job, Account
<1>7. Agreed'
  <2>1. ASSUME NEW t \in Tasks, job[t].read = current'
        PROVE  current' = current
    BY <1>1, <2>1 DEF Inv, TypeOK, Ordered, Grants, Job, Account
  <2> QED BY <1>2, <2>1 DEF Inv, Agreed, Active, Calm
<1>8. Kept'
  BY <1>2, <1>3, <1>5 DEF Inv, Kept, Active, Calm
<1> QED BY <1>2, <1>4, <1>6, <1>7, <1>8 DEF Inv, Steady

\* A consent saved over tokens that are not newer keeps the one in force.
LEMMA ConnectSavesInv ==
  ASSUME Inv, NEW a \in pending, ConnectSaves(a)
  PROVE Inv'
<1>1. /\ account' = a /\ pending' = pending \ {a} /\ a \in Account
      /\ UNCHANGED <<granted, current, age, queued, job, begun, errors, lost, outdated>>
      /\ dropped' = (dropped \/ a.refresh < account.refresh)
  BY DEF ConnectSaves, platformVars, historyVars, Inv, TypeOK
<1>2. TypeOK'
  BY <1>1 DEF Inv, TypeOK
<1>3. Ordered'
  BY <1>1 DEF Inv, TypeOK, Ordered
<1>4. Calm' => Calm /\ (account.refresh = current => a.refresh = current)
  <2>1. /\ a.refresh \in Int /\ account.refresh \in Int /\ current \in Int
        /\ a.refresh <= current
    BY <1>1 DEF Inv, TypeOK, Ordered, Account, Grants
  <2>2. ~dropped' => ~dropped /\ ~(a.refresh < account.refresh)
    BY <1>1
  <2>3. Calm' => Calm /\ ~(a.refresh < account.refresh)
    BY <1>1, <2>2 DEF Calm
  <2> QED BY <2>1, <2>3
<1>5. Agreed'
  BY <1>1, <1>4 DEF Inv, Agreed, Active
<1>6. Kept'
  BY <1>1, <1>4 DEF Inv, Kept, Active
<1> QED BY <1>1, <1>2, <1>3, <1>5, <1>6 DEF Inv, Steady

LEMMA ConnectAbandonsInv ==
  ASSUME Inv, NEW a \in pending, ConnectAbandons(a)
  PROVE Inv'
<1>1. /\ pending' = pending \ {a}
      /\ UNCHANGED <<account, granted, current, age, queued, job, begun, errors, lost, outdated>>
      /\ dropped' = (dropped \/ a.refresh = current)
  BY DEF ConnectAbandons, platformVars, historyVars, Inv, TypeOK
<1>2. TypeOK'
  BY <1>1 DEF Inv, TypeOK
<1>3. Calm' => Calm /\ a.refresh # current
  BY <1>1 DEF Calm, Inv, TypeOK
<1>4. Agreed' /\ Kept'
  BY <1>1, <1>3 DEF Inv, Agreed, Kept, Active
<1> QED BY <1>1, <1>2, <1>4 DEF Inv, Ordered, Steady

LEMMA QuietInv ==
  ASSUME Inv,
         ScheduleHealthChecks
         \/ (\E g \in Grants, next \in {"near", "over", "revoked"} : Age(g, next))
         \/ UNCHANGED vars
  PROVE Inv'
<1>1. UNCHANGED <<account, granted, current, job, pending, begun, errors, lost, outdated, dropped>>
  BY DEF ScheduleHealthChecks, Age, vars, platformVars, historyVars
<1>2. queued' \in BOOLEAN /\ age' \in [Grants -> {"fresh", "near", "over", "revoked"}]
  BY DEF ScheduleHealthChecks, Age, vars, platformVars, historyVars, Inv, TypeOK
<1> QED BY <1>1, <1>2 DEF Inv, TypeOK, Ordered, Steady, Agreed, Kept, Active, Calm

LEMMA NextInv == Inv /\ [Next]_vars => Inv'
<1> SUFFICES ASSUME Inv, [Next]_vars PROVE Inv'
  OBVIOUS
<1>1. ASSUME NEW t \in Tasks, HealthCheck(t) \/ Publish(t)
      PROVE Inv'
  BY <1>1, BeginInv
<1>2. ASSUME NEW t \in Tasks, TaskStep(t)
      PROVE Inv'
  BY <1>2, RefreshedInv, RefreshFailsInv, SaveRefreshedInv, PublishedInv, ProfileInv, RecordHealthInv
  DEF TaskStep
<1>3. ASSUME NEW t \in Tasks,
             (\E renews \in BOOLEAN : RefreshUnanswered(t, renews)) \/ ProfileDown(t) \/ Crash(t)
      PROVE Inv'
  BY <1>3, RefreshUnansweredInv, ProfileInv, CrashInv
<1> QED BY <1>1, <1>2, <1>3, ConsentsInv, ConnectSavesInv, ConnectAbandonsInv, QuietInv
        DEF Next

-----------------------------------------------------------------------------

\* For any tasks and grants the row, the platform and the instances held in memory
\* keep their types.
THEOREM TypeCorrect == Spec => []TypeOK
<1>1. Inv => TypeOK
  BY DEF Inv
<1> QED BY InitInv, NextInv, <1>1, PTL DEF Spec

\* For any number of health checks, publishes and reconnections the refresh token in
\* force is in the row or in the hands of a task or a person's request that may still
\* save it, unless tokens were lost, an out-of-date instance was saved, or a consent
\* dropped its tokens, saved none or saved older ones.
THEOREM TokenKept == Spec => []RefreshTokenKept
<1>1. Inv => RefreshTokenKept
  BY DEF Inv, Kept, Calm, Active, RefreshTokenKept
<1> QED BY InitInv, NextInv, <1>1, PTL DEF Spec
=============================================================================
