---------------------------- MODULE AgentRegistry ----------------------------
(***************************************************************************)
(* Which agents are online.  Two records say so: agents_ in the memory of  *)
(* drop_server (HealthCheckServiceImpl) and the table agent_info of        *)
(* apiserver.  Heartbeats and registrations set both online; the scan      *)
(* thread of drop_server and the watchdog of apiserver, each on its own    *)
(* clock, set them offline.  drop_server calls apiserver with curl, waits  *)
(* for it without a limit and ignores the outcome; apiserver reads, writes *)
(* and audits a row in separate statements, and looks at the outcome of    *)
(* few of them.                                                            *)
(***************************************************************************)
EXTENDS Naturals, FiniteSets

CONSTANTS
    Agents,     \* agents, identified by their ip_addr
    Calls,      \* gRPC calls that drop_server can be serving (bound)
    NoAgent,    \* "no agent"
    MaxCrashes, \* bound: crashes of apiserver
    DbFails     \* statements of apiserver may fail

ASSUME RegistryAssumption ==
    /\ NoAgent \notin Agents
    /\ MaxCrashes \in Nat
    /\ DbFails \in BOOLEAN

VARIABLES
    alive,     \* alive[a]: the agent runs and sends heartbeats
    of,        \* of[c]: the agent that made call c
    at,        \* at[c]: where the call is, in drop_server and then in apiserver
    saw,       \* saw[c]: the row that RegisterAgentInternal has, or has not, read
    online,    \* online[a]: agents_[a].online; "unknown": no such entry
    silent,    \* silent[a]: over 30 s since agents_[a].last_seen
    scan,      \* the scan thread: "sleep", or "pass" while it holds agents_mutex_
    toMark,    \* agents this pass still has to mark offline
    notice,    \* where its call of agent-offline is
    noticeOf,  \* the agent it is about
    row,       \* row[a]: agent_info.online; "absent": no row
    stale,     \* stale[a]: over 30 s since row[a].last_seen
    selected,  \* staleAgents of the watchdog, as far as not updated yet
    marked,    \* the agent that the watchdog updated and has to audit
    audit,     \* audit[a]: the last entry of agent_audit_log for a
    history,   \* history[a]: has the last entry been made undisturbed (see Begins)
    crashes    \* history: crashes of apiserver

callVars == <<of, at, saw>>
dropVars == <<online, silent, scan, toMark>>
noticeVars == <<notice, noticeOf>>
dogVars == <<selected, marked>>
logVars == <<audit, history>>
registryVars == <<alive, callVars, dropVars, noticeVars, row, stale, dogVars, logVars,
                  crashes>>

InApiserver == {"read", "write", "audit"}
CallStates == {"idle", "lock", "post"} \cup InApiserver

RegistryTypeOK ==
    /\ alive \in [Agents -> BOOLEAN]
    /\ of \in [Calls -> Agents \cup {NoAgent}]
    /\ at \in [Calls -> CallStates]
    /\ saw \in [Calls -> {"absent", "on", "off"}]
    /\ online \in [Agents -> {"unknown", "on", "off"}]
    /\ silent \in [Agents -> BOOLEAN]
    /\ scan \in {"sleep", "pass"}
    /\ toMark \subseteq Agents
    /\ notice \in {"none", "post", "update", "audit"}
    /\ noticeOf \in Agents \cup {NoAgent}
    /\ row \in [Agents -> {"absent", "on", "off"}]
    /\ stale \in [Agents -> BOOLEAN]
    /\ selected \subseteq Agents
    /\ marked \in Agents \cup {NoAgent}
    /\ audit \in [Agents -> {"none", "online", "offline"}]
    /\ history \in [Agents -> {"clean", "disturbed", "settling"}]
    /\ crashes \in 0..MaxCrashes
    /\ \A c \in Calls : of[c] = NoAgent <=> at[c] = "idle"
    /\ noticeOf = NoAgent <=> notice = "none"
    /\ marked \notin selected

RegistryInit ==
    /\ alive = [a \in Agents |-> FALSE]
    /\ of = [c \in Calls |-> NoAgent]
    /\ at = [c \in Calls |-> "idle"]
    /\ saw = [c \in Calls |-> "absent"]
    /\ online = [a \in Agents |-> "unknown"]
    /\ silent = [a \in Agents |-> FALSE]
    /\ scan = "sleep" /\ toMark = {}
    /\ notice = "none" /\ noticeOf = NoAgent
    /\ row = [a \in Agents |-> "absent"]
    /\ stale = [a \in Agents |-> FALSE]
    /\ selected = {} /\ marked = NoAgent
    /\ audit = [a \in Agents |-> "none"]
    /\ history = [a \in Agents |-> "clean"]
    /\ crashes = 0

------------------------------------------------------------------------------
(* History.  A request is under way on a row from its first read or write of *)
(* it to its audit entry.  It is disturbed by another one in that time, by a *)
(* crash, and by a statement of its own that it takes for done when it has   *)
(* failed, or for failed when it has worked; the next one after it may       *)
(* settle the log again.                                                     *)

Busy(a) ==
    \/ \E c \in Calls : of[c] = a /\ at[c] \in {"write", "audit"}
    \/ notice = "audit" /\ noticeOf = a
    \/ marked = a

Begins(a) ==
    history' = [history EXCEPT ![a] =
        IF Busy(a) THEN "disturbed" ELSE IF @ = "disturbed" THEN "settling" ELSE @]

Disturbs(a) == history' = [history EXCEPT ![a] = "disturbed"]

(* Nobody looks at the error of the insert into agent_audit_log.             *)
EndsAudited(a, event) ==
    \/ /\ audit' = [audit EXCEPT ![a] = event]
       /\ history' = [history EXCEPT ![a] = IF @ = "settling" THEN "clean" ELSE @]
    \/ /\ DbFails
       /\ Disturbs(a)
       /\ UNCHANGED audit

EndsUnaudited(a) ==
    /\ history' = [history EXCEPT ![a] = IF @ = "settling" THEN "disturbed" ELSE @]
    /\ UNCHANGED audit

------------------------------------------------------------------------------
(* The agents, and the clock.                                                *)

StartAgent(a) ==
    /\ ~alive[a]
    /\ alive' = [alive EXCEPT ![a] = TRUE]
    /\ UNCHANGED <<callVars, dropVars, noticeVars, row, stale, dogVars, logVars, crashes>>

StopAgent(a) ==
    /\ alive[a]
    /\ alive' = [alive EXCEPT ![a] = FALSE]
    /\ UNCHANGED <<callVars, dropVars, noticeVars, row, stale, dogVars, logVars, crashes>>

(* A call reaches drop_server.  The agent may have given it up by now, and   *)
(* may start the next one: the handler goes on.                              *)
CallArrives(a, c, where) ==
    /\ alive[a]
    /\ at[c] = "idle"
    /\ of' = [of EXCEPT ![c] = a]
    /\ at' = [at EXCEPT ![c] = where]
    /\ UNCHANGED <<alive, saw, dropVars, noticeVars, row, stale, dogVars, logVars, crashes>>

SilenceInDrop(a) ==
    /\ online[a] # "unknown" /\ ~silent[a]
    /\ silent' = [silent EXCEPT ![a] = TRUE]
    /\ UNCHANGED <<alive, callVars, online, scan, toMark, noticeVars, row, stale, dogVars>>
    /\ UNCHANGED <<logVars, crashes>>

RowGoesStale(a) ==
    /\ row[a] # "absent" /\ ~stale[a]
    /\ stale' = [stale EXCEPT ![a] = TRUE]
    /\ UNCHANGED <<alive, callVars, dropVars, noticeVars, row, dogVars, logVars, crashes>>

------------------------------------------------------------------------------
(* drop_server.                                                              *)

Heartbeat(a, c) == CallArrives(a, c, "lock")

(* InitAgentInfoServiceImpl::RegisterAgent: no lock, and no entry in agents_.*)
Register(a, c) == CallArrives(a, c, "post")

Release(c) ==
    /\ of' = [of EXCEPT ![c] = NoAgent]
    /\ at' = [at EXCEPT ![c] = "idle"]
    /\ saw' = [saw EXCEPT ![c] = "absent"]

(* Mutant: apiserver is called only when the agent was offline.              *)
MarkSeen_OnlyRecovered(c) ==
    /\ at[c] = "lock"
    /\ scan = "sleep"
    /\ online' = [online EXCEPT ![of[c]] = "on"]
    /\ silent' = [silent EXCEPT ![of[c]] = FALSE]
    /\ IF online[of[c]] = "on" THEN Release(c)
       ELSE at' = [at EXCEPT ![c] = "post"] /\ UNCHANGED <<of, saw>>
    /\ UNCHANGED <<alive, scan, toMark, noticeVars, row, stale, dogVars, logVars, crashes>>

(* Mutant: agents_[ip] is changed without agents_mutex_.                     *)
MarkSeen_NoLock(c) ==
    /\ at[c] = "lock"
    /\ online' = [online EXCEPT ![of[c]] = "on"]
    /\ silent' = [silent EXCEPT ![of[c]] = FALSE]
    /\ at' = [at EXCEPT ![c] = "post"]
    /\ UNCHANGED <<alive, of, saw, scan, toMark, noticeVars, row, stale, dogVars, logVars>>
    /\ UNCHANGED crashes

(* HealthCheckServiceImpl::Do, under agents_mutex_, whatever the state was.  *)
MarkSeen(c) ==
    /\ at[c] = "lock"
    /\ scan = "sleep"
    /\ online' = [online EXCEPT ![of[c]] = "on"]
    /\ silent' = [silent EXCEPT ![of[c]] = FALSE]
    /\ at' = [at EXCEPT ![c] = "post"]
    /\ UNCHANGED <<alive, of, saw, scan, toMark, noticeVars, row, stale, dogVars, logVars>>
    /\ UNCHANGED crashes

(* PostJSON, NotifyApiserver: curl reaches apiserver, or fails unseen.       *)
PostReaches(c) ==
    /\ at[c] = "post"
    /\ at' = [at EXCEPT ![c] = "read"]
    /\ UNCHANGED <<alive, of, saw, dropVars, noticeVars, row, stale, dogVars, logVars>>
    /\ UNCHANGED crashes

PostFails(c) ==
    /\ at[c] = "post"
    /\ Release(c)
    /\ UNCHANGED <<alive, dropVars, noticeVars, row, stale, dogVars, logVars, crashes>>

(* OfflineScanLoop: agents_mutex_ is taken for the whole pass, and now is    *)
(* read before it.  A pass that finds nobody is no step.                     *)
ScanBegins ==
    /\ scan = "sleep"
    /\ toMark' = {a \in Agents : online[a] = "on" /\ silent[a]}
    /\ toMark' # {}
    /\ scan' = "pass"
    /\ UNCHANGED <<alive, callVars, online, silent, noticeVars, row, stale, dogVars>>
    /\ UNCHANGED <<logVars, crashes>>

(* The next one of the pass, when curl has ended for the last one.  After a  *)
(* crash of drop_server this also waits for the curl it left (bound).        *)
MarkOffline(a) ==
    /\ scan = "pass"
    /\ a \in toMark
    /\ notice = "none"
    /\ online' = [online EXCEPT ![a] = "off"]
    /\ toMark' = toMark \ {a}
    /\ notice' = "post" /\ noticeOf' = a
    /\ UNCHANGED <<alive, callVars, silent, scan, row, stale, dogVars, logVars, crashes>>

(* Mutant: the lock_guard stands before the loop.                            *)
ScanEnds_KeepLock ==
    /\ scan = "pass"
    /\ toMark = {} /\ notice = "none"
    /\ UNCHANGED registryVars

ScanEnds ==
    /\ scan = "pass"
    /\ toMark = {} /\ notice = "none"
    /\ scan' = "sleep"
    /\ UNCHANGED <<alive, callVars, online, silent, toMark, noticeVars, row, stale>>
    /\ UNCHANGED <<dogVars, logVars, crashes>>

NoticeReaches ==
    /\ notice = "post"
    /\ notice' = "update"
    /\ UNCHANGED <<alive, callVars, dropVars, noticeOf, row, stale, dogVars, logVars, crashes>>

NoticeFails ==
    /\ notice = "post"
    /\ notice' = "none" /\ noticeOf' = NoAgent
    /\ UNCHANGED <<alive, callVars, dropVars, row, stale, dogVars, logVars, crashes>>

(* The memory and the handlers of drop_server are gone, and it starts again. *)
(* A curl that has been started is a process of its own and goes on.         *)
DropServerCrash ==
    /\ online' = [a \in Agents |-> "unknown"]
    /\ silent' = [a \in Agents |-> FALSE]
    /\ scan' = "sleep" /\ toMark' = {}
    /\ of' = [c \in Calls |-> IF at[c] = "lock" THEN NoAgent ELSE of[c]]
    /\ at' = [c \in Calls |-> IF at[c] = "lock" THEN "idle" ELSE at[c]]
    /\ UNCHANGED <<alive, saw, noticeVars, row, stale, dogVars, logVars, crashes>>

------------------------------------------------------------------------------
(* apiserver, RegisterAgentInternal: three statements, no transaction.       *)

(* Mutant: wasOffline is computed from the row as it will be.                *)
RegisterRead_AfterUpdate(c) ==
    /\ at[c] = "read"
    /\ saw' = [saw EXCEPT ![c] = IF row[of[c]] = "off" THEN "on" ELSE row[of[c]]]
    /\ at' = [at EXCEPT ![c] = "write"]
    /\ Begins(of[c])
    /\ UNCHANGED <<alive, of, dropVars, noticeVars, row, stale, dogVars, audit, crashes>>

RegisterRead(c) ==
    /\ at[c] = "read"
    /\ saw' = [saw EXCEPT ![c] = row[of[c]]]
    /\ at' = [at EXCEPT ![c] = "write"]
    /\ Begins(of[c])
    /\ UNCHANGED <<alive, of, dropVars, noticeVars, row, stale, dogVars, audit, crashes>>

(* Any error of First is taken for "no such row".                            *)
RegisterReadFails(c) ==
    /\ DbFails
    /\ at[c] = "read"
    /\ saw' = [saw EXCEPT ![c] = "absent"]
    /\ at' = [at EXCEPT ![c] = "write"]
    /\ Begins(of[c])
    /\ UNCHANGED <<alive, of, dropVars, noticeVars, row, stale, dogVars, audit, crashes>>

(* What was read has served its purpose.                                     *)
GoesToAudit(c) ==
    /\ at' = [at EXCEPT ![c] = "audit"]
    /\ saw' = [saw EXCEPT ![c] = "absent"]

(* Create, when no row was read, and Updates otherwise.                      *)
RegisterWrite(c) ==
    /\ at[c] = "write"
    /\ saw[c] = "absent" => row[of[c]] = "absent"
    /\ row' = [row EXCEPT ![of[c]] = "on"]
    /\ stale' = [stale EXCEPT ![of[c]] = FALSE]
    /\ IF saw[c] = "on"
       THEN Release(c) /\ EndsUnaudited(of[c])
       ELSE GoesToAudit(c) /\ UNCHANGED <<of, logVars>>
    /\ UNCHANGED <<alive, dropVars, noticeVars, dogVars, crashes>>

(* An error of Create ends the request.  One of Updates does not: the entry  *)
(* that the agent is online again is written although its row is not.        *)
RegisterWriteFails(c) ==
    /\ DbFails
    /\ at[c] = "write"
    /\ IF saw[c] = "off"
       THEN GoesToAudit(c) /\ Disturbs(of[c]) /\ UNCHANGED <<of, audit>>
       ELSE Release(c) /\ EndsUnaudited(of[c])
    /\ UNCHANGED <<alive, dropVars, noticeVars, row, stale, dogVars, crashes>>

(* A Create that works although its answer is lost.                          *)
RegisterCreateUnseen(c) ==
    /\ DbFails
    /\ at[c] = "write"
    /\ saw[c] = "absent" /\ row[of[c]] = "absent"
    /\ row' = [row EXCEPT ![of[c]] = "on"]
    /\ stale' = [stale EXCEPT ![of[c]] = FALSE]
    /\ Release(c)
    /\ Disturbs(of[c])
    /\ UNCHANGED <<alive, dropVars, noticeVars, dogVars, audit, crashes>>

(* A second Create for the same ip_addr fails at the unique index, also when *)
(* the row was there and only not read.                                      *)
RegisterCreateFails(c) ==
    /\ at[c] = "write"
    /\ saw[c] = "absent" /\ row[of[c]] # "absent"
    /\ Release(c)
    /\ EndsUnaudited(of[c])
    /\ UNCHANGED <<alive, dropVars, noticeVars, row, stale, dogVars, crashes>>

RegisterAudit(c) ==
    /\ at[c] = "audit"
    /\ EndsAudited(of[c], "online")
    /\ Release(c)
    /\ UNCHANGED <<alive, dropVars, noticeVars, row, stale, dogVars, crashes>>

SetOffline(a) == row' = [row EXCEPT ![a] = IF @ = "absent" THEN @ ELSE "off"]

(* RegisterAgentOffline: no look at last_seen, and an entry in any case.     *)
NoticeUpdate ==
    /\ notice = "update"
    /\ SetOffline(noticeOf)
    /\ Begins(noticeOf)
    /\ notice' = "audit"
    /\ UNCHANGED <<alive, callVars, dropVars, noticeOf, stale, dogVars, audit, crashes>>

NoticeAudit ==
    /\ notice = "audit"
    /\ EndsAudited(noticeOf, "offline")
    /\ notice' = "none" /\ noticeOf' = NoAgent
    /\ UNCHANGED <<alive, callVars, dropVars, row, stale, dogVars, crashes>>

(* The one place of this handler that looks at an error.  What it takes for  *)
(* failed may have worked.                                                   *)
NoticeUpdateFails ==
    /\ DbFails
    /\ notice = "update"
    /\ \/ UNCHANGED <<row, logVars>>
       \/ SetOffline(noticeOf) /\ Disturbs(noticeOf) /\ UNCHANGED audit
    /\ notice' = "none" /\ noticeOf' = NoAgent
    /\ UNCHANGED <<alive, callVars, dropVars, stale, dogVars, crashes>>

(* Mutant: the comparison with cutoff is the wrong way round.                *)
WatchdogSelect_Fresh ==
    /\ selected = {} /\ marked = NoAgent
    /\ selected' = {a \in Agents : row[a] = "on" /\ ~stale[a]}
    /\ selected' # {}
    /\ UNCHANGED <<alive, callVars, dropVars, noticeVars, row, stale, marked, logVars>>
    /\ UNCHANGED crashes

(* markStaleAgentsOffline: one query, then per agent an update that does not *)
(* look at last_seen again, and an entry.  A query that fails is no step.    *)
WatchdogSelect ==
    /\ selected = {} /\ marked = NoAgent
    /\ selected' = {a \in Agents : row[a] = "on" /\ stale[a]}
    /\ selected' # {}
    /\ UNCHANGED <<alive, callVars, dropVars, noticeVars, row, stale, marked, logVars>>
    /\ UNCHANGED crashes

(* Mutant: the loop stays at the same agent.                                 *)
WatchdogUpdate_Again(a) ==
    /\ a \in selected /\ marked = NoAgent
    /\ SetOffline(a)
    /\ Begins(a)
    /\ marked' = a
    /\ UNCHANGED <<alive, callVars, dropVars, noticeVars, stale, selected, audit, crashes>>

(* The entry follows whether or not the update has worked.                   *)
WatchdogUpdate(a) ==
    /\ a \in selected /\ marked = NoAgent
    /\ \/ SetOffline(a) /\ Begins(a)
       \/ DbFails /\ UNCHANGED row /\ Disturbs(a)
    /\ selected' = selected \ {a} /\ marked' = a
    /\ UNCHANGED <<alive, callVars, dropVars, noticeVars, stale, audit, crashes>>

WatchdogAudit ==
    /\ marked # NoAgent
    /\ EndsAudited(marked, "offline")
    /\ marked' = NoAgent
    /\ UNCHANGED <<alive, callVars, dropVars, noticeVars, row, stale, selected, crashes>>

(* apiserver crashes and starts again; the curls that it served end.         *)
ApiserverCrash ==
    /\ crashes < MaxCrashes
    /\ crashes' = crashes + 1
    /\ history' = [a \in Agents |-> IF Busy(a) THEN "disturbed" ELSE history[a]]
    /\ of' = [c \in Calls |-> IF at[c] \in InApiserver THEN NoAgent ELSE of[c]]
    /\ at' = [c \in Calls |-> IF at[c] \in InApiserver THEN "idle" ELSE at[c]]
    /\ saw' = [c \in Calls |-> "absent"]
    /\ notice' = IF notice = "post" THEN "post" ELSE "none"
    /\ noticeOf' = IF notice = "post" THEN noticeOf ELSE NoAgent
    /\ selected' = {} /\ marked' = NoAgent
    /\ UNCHANGED <<alive, dropVars, row, stale, audit>>

------------------------------------------------------------------------------
Watchdog == WatchdogSelect \/ WatchdogAudit \/ \E a \in Agents : WatchdogUpdate(a)
Scan == ScanBegins \/ ScanEnds \/ \E a \in Agents : MarkOffline(a)
ServeRegister(c) ==
    \/ RegisterRead(c) \/ RegisterReadFails(c)
    \/ RegisterWrite(c) \/ RegisterWriteFails(c) \/ RegisterCreateFails(c)
    \/ RegisterCreateUnseen(c) \/ RegisterAudit(c)
ServeNotice == NoticeUpdate \/ NoticeUpdateFails \/ NoticeAudit

RegistryNext ==
    \/ \E a \in Agents :
        \/ StartAgent(a) \/ StopAgent(a) \/ SilenceInDrop(a) \/ RowGoesStale(a)
        \/ \E c \in Calls : Heartbeat(a, c) \/ Register(a, c)
    \/ \E c \in Calls : MarkSeen(c) \/ PostReaches(c) \/ PostFails(c) \/ ServeRegister(c)
    \/ NoticeReaches \/ NoticeFails \/ ServeNotice
    \/ Scan \/ Watchdog
    \/ DropServerCrash \/ ApiserverCrash

RegistrySpec == RegistryInit /\ [][RegistryNext]_registryVars

(* Fairness: live agents call, the threads of both servers run, nobody       *)
(* waits for ever at a mutex that is released again and again, and a row     *)
(* that nobody refreshes goes stale.  Nothing is assumed of curl, and a      *)
(* statement that fails is a step like one that works.                       *)
RegistryFairness ==
    /\ \A a \in Agents :
        /\ WF_registryVars(\E c \in Calls : Heartbeat(a, c))
        /\ WF_registryVars(~alive[a] /\ RowGoesStale(a))
    /\ \A c \in Calls :
        /\ SF_registryVars(MarkSeen(c))
        /\ WF_registryVars(ServeRegister(c))
    /\ WF_registryVars(ServeNotice)
    /\ WF_registryVars(Scan)
    /\ WF_registryVars(Watchdog)

RegistryFairSpec == RegistrySpec /\ RegistryFairness

------------------------------------------------------------------------------
(* The last audit entry of an agent says what its row says, when no request  *)
(* is under way: every change of the row writes an entry, and nothing else.  *)
(* Three things leave a wrong last entry, and no longer than to the next     *)
(* change that is made alone: requests that overlap, a crash of apiserver    *)
(* between two statements, and a statement whose outcome the request does    *)
(* not know, because it does not look at the error, or because the error is  *)
(* that of a statement which has worked.  Other failures do no harm.         *)
AuditMatches ==
    \A a \in Agents : ~Busy(a) /\ history[a] = "clean" =>
        CASE row[a] = "absent" -> audit[a] = "none" \/ audit[a] = "offline"
          [] row[a] = "on" -> audit[a] = "online"
          [] row[a] = "off" -> audit[a] = "offline"

(* drop_server marks an agent offline only while it is silent: the scan      *)
(* decides on a last_seen that was read before its curls, for other agents,  *)
(* came to an end, and no heartbeat changes it in between.  (The watchdog of *)
(* apiserver, which does the same without a lock, has no such property.)     *)
OfflineMeansSilent ==
    [][\A a \in Agents : online[a] = "on" /\ online'[a] = "off" => silent[a]]_registryVars

(* A heartbeat waits for agents_mutex_ for ever only when the scan thread    *)
(* waits for ever for its curl.                                              *)
HeldUpByCurlOnly ==
    []<>(notice # "post") => \A c \in Calls : []<>(at[c] # "lock")

(* From some time on the statements that read or write a row succeed: what   *)
(* is read is there, what leaves the write of a registration is online, and  *)
(* whom the watchdog takes from its list is not.                             *)
StatementsWork ==
    <>[][/\ \A c \in Calls :
              /\ at[c] = "read" /\ at'[c] = "write" => saw'[c] = row[of[c]]
              /\ at[c] = "write" /\ at'[c] # "write" => row'[of[c]] = "on"
         /\ \A a \in selected \ selected' : row'[a] # "on"]_registryVars

(* An agent that stops for good is offline in the database for good, also    *)
(* when drop_server forgets it in a crash, or its notice or an update is     *)
(* lost: the watchdog looks for itself, and selects again who is still       *)
(* online, and late registrations come to an end.                            *)
DeadAgentGoesOffline ==
    \A a \in Agents :
        StatementsWork /\ <>[](~alive[a]) => <>[](row[a] # "on")

(* curl comes to an end every time, and from some time on never fails.       *)
CurlWorks ==
    /\ \A c \in Calls : []<>(at[c] # "post")
    /\ <>[][\A c \in Calls : ~PostFails(c)]_registryVars

(* An agent that runs for good, and is never silent for 30 s from some time  *)
(* on, is online for good when curl and the database work: a late offline    *)
(* notice, a watchdog that has selected it before, or an update that failed  *)
(* is made good by the next heartbeat, because every heartbeat is passed on, *)
(* and not only a recovery.                                                  *)
LiveAgentStaysOnline ==
    \A a \in Agents :
        CurlWorks /\ StatementsWork /\ <>[](alive[a] /\ ~silent[a] /\ ~stale[a]) =>
            <>[](row[a] = "on")
=============================================================================
