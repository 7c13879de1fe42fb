------------------------- MODULE AgentRegistryProofs -------------------------
(***************************************************************************)
(* The proofs that the audit log of apiserver agrees with its rows as long *)
(* as requests for an agent are not disturbed, and that drop_server's scan *)
(* marks only silent agents, for any number of agents, calls and crashes,  *)
(* and whatever statements fail.                                           *)
(***************************************************************************)
EXTENDS AgentRegistry, TLAPS

(* The requests for a that are between their first statement and their last. *)
Registers(c, a) == of[c] = a /\ at[c] \in {"write", "audit"}
Notified(a) == notice = "audit" /\ noticeOf = a

(* Undisturbed there is at most one of them, and one while the log settles.  *)
LoneRequest(a) ==
    /\ history[a] # "disturbed" =>
        /\ \A c, d \in Calls : Registers(c, a) /\ Registers(d, a) => c = d
        /\ \A c \in Calls : Registers(c, a) => ~Notified(a) /\ marked # a
        /\ ~(Notified(a) /\ marked = a)
    /\ history[a] = "settling" => Busy(a)

(* It knows the row: what it has read is still there, unless the read has    *)
(* failed, and what it has written stands.                                   *)
RequestKnows(a) ==
    history[a] # "disturbed" =>
        /\ \A c \in Calls : of[c] = a /\ at[c] = "write" => saw[c] \in {row[a], "absent"}
        /\ \A c \in Calls : of[c] = a /\ at[c] = "audit" => row[a] = "on"
        /\ Notified(a) \/ marked = a => row[a] # "on"

Matches(a) ==
    /\ row[a] = "absent" => audit[a] \in {"none", "offline"}
    /\ row[a] = "on" => audit[a] = "online"
    /\ row[a] = "off" => audit[a] = "offline"

(* No request has an entry to write for what it did to the row of a.         *)
NoEntryDue(a) ==
    /\ \A c \in Calls : of[c] = a => at[c] # "audit"
    /\ ~Notified(a) /\ marked # a

LogFollows(a) == history[a] = "clean" /\ NoEntryDue(a) => Matches(a)

RowInv(a) == LoneRequest(a) /\ RequestKnows(a) /\ LogFollows(a)
RInv == RegistryTypeOK /\ \A a \in Agents : RowInv(a)
------------------------------------------------------------------------------
(* Every action keeps the types.                                             *)
LEMMA TypeStep ==
    RegistryTypeOK /\ [RegistryNext]_registryVars => RegistryTypeOK'
<1> SUFFICES ASSUME RegistryTypeOK, [RegistryNext]_registryVars
             PROVE  RegistryTypeOK'
    OBVIOUS
<1> USE RegistryAssumption DEF RegistryTypeOK, CallStates, InApiserver, callVars, dropVars,
    noticeVars, dogVars, logVars
<1>1. ASSUME NEW a \in Agents,
             StartAgent(a) \/ StopAgent(a) \/ SilenceInDrop(a) \/ RowGoesStale(a)
      PROVE  RegistryTypeOK'
    <2>1. CASE StartAgent(a) \/ StopAgent(a)
        <3> HIDE DEF CallStates, InApiserver
        <3>0. \E b \in BOOLEAN : alive' = [alive EXCEPT ![a] = b]
            BY <2>1 DEF StartAgent, StopAgent
        <3>1. alive' \in [Agents -> BOOLEAN]
            BY <3>0
        <3> QED
            BY <2>1, <3>1 DEF StartAgent, StopAgent
    <2>2. CASE SilenceInDrop(a)
        BY <2>2 DEF SilenceInDrop
    <2>3. CASE RowGoesStale(a)
        BY <2>3 DEF RowGoesStale
    <2> QED
        BY <1>1, <2>1, <2>2, <2>3
<1>2. ASSUME NEW a \in Agents, NEW c \in Calls, Heartbeat(a, c) \/ Register(a, c)
      PROVE  RegistryTypeOK'
    BY <1>2 DEF Heartbeat, Register, CallArrives
<1>3. ASSUME NEW c \in Calls, MarkSeen(c) PROVE RegistryTypeOK'
    BY <1>3 DEF MarkSeen
<1>4. ASSUME NEW c \in Calls, PostReaches(c) PROVE RegistryTypeOK'
    BY <1>4 DEF PostReaches
<1>5. ASSUME NEW c \in Calls, PostFails(c) PROVE RegistryTypeOK'
    BY <1>5 DEF PostFails, Release
<1>6. ASSUME NEW c \in Calls, RegisterRead(c) PROVE RegistryTypeOK'
    BY <1>6 DEF RegisterRead, Begins
<1>21. ASSUME NEW c \in Calls, RegisterReadFails(c) PROVE RegistryTypeOK'
    BY <1>21 DEF RegisterReadFails, Begins
<1>7. ASSUME NEW c \in Calls, RegisterWrite(c) PROVE RegistryTypeOK'
    <2>1. of[c] \in Agents
        BY <1>7 DEF RegisterWrite
    <2>2. CASE saw[c] = "on"
        BY <1>7, <2>1, <2>2 DEF RegisterWrite, Release, EndsUnaudited
    <2>3. CASE saw[c] # "on"
        BY <1>7, <2>1, <2>3 DEF RegisterWrite, GoesToAudit
    <2> QED
        BY <2>2, <2>3
<1>22. ASSUME NEW c \in Calls, RegisterWriteFails(c) PROVE RegistryTypeOK'
    <2>1. CASE saw[c] = "off"
        BY <1>22, <2>1 DEF RegisterWriteFails, GoesToAudit, Disturbs
    <2>2. CASE saw[c] # "off"
        BY <1>22, <2>2 DEF RegisterWriteFails, Release, EndsUnaudited
    <2> QED
        BY <2>1, <2>2
<1>24. ASSUME NEW c \in Calls, RegisterCreateUnseen(c) PROVE RegistryTypeOK'
    BY <1>24 DEF RegisterCreateUnseen, Release, Disturbs
<1>8. ASSUME NEW c \in Calls, RegisterCreateFails(c) PROVE RegistryTypeOK'
    BY <1>8 DEF RegisterCreateFails, Release, EndsUnaudited
<1>9. ASSUME NEW c \in Calls, RegisterAudit(c) PROVE RegistryTypeOK'
    BY <1>9 DEF RegisterAudit, Release, EndsAudited, Disturbs
<1>10. CASE NoticeReaches \/ NoticeFails
    BY <1>10 DEF NoticeReaches, NoticeFails
<1>11. CASE NoticeUpdate
    BY <1>11 DEF NoticeUpdate, SetOffline, Begins
<1>23. CASE NoticeUpdateFails
    BY <1>23 DEF NoticeUpdateFails, SetOffline, Disturbs
<1>12. CASE NoticeAudit
    BY <1>12 DEF NoticeAudit, EndsAudited, Disturbs
<1>13. CASE ScanBegins \/ ScanEnds
    BY <1>13 DEF ScanBegins, ScanEnds
<1>14. ASSUME NEW a \in Agents, MarkOffline(a) PROVE RegistryTypeOK'
    BY <1>14 DEF MarkOffline
<1>15. CASE WatchdogSelect
    BY <1>15 DEF WatchdogSelect
<1>16. ASSUME NEW a \in Agents, WatchdogUpdate(a) PROVE RegistryTypeOK'
    BY <1>16 DEF WatchdogUpdate, SetOffline, Begins, Disturbs
<1>17. CASE WatchdogAudit
    BY <1>17 DEF WatchdogAudit, EndsAudited, Disturbs
<1>18. CASE DropServerCrash
    BY <1>18 DEF DropServerCrash
<1>19. CASE ApiserverCrash
    BY <1>19 DEF ApiserverCrash
<1>20. CASE UNCHANGED registryVars
    BY <1>20 DEF registryVars
<1> HIDE DEF RegistryTypeOK
<1> QED
    BY <1>1, <1>2, <1>3, <1>4, <1>5, <1>6, <1>7, <1>8, <1>9, <1>10, <1>11, <1>12, <1>13,
       <1>14, <1>15, <1>16, <1>17, <1>18, <1>19, <1>20, <1>21, <1>22, <1>23, <1>24
    DEF RegistryNext, ServeRegister, ServeNotice, Scan, Watchdog

------------------------------------------------------------------------------
(* What a step does to agents it is not about.                               *)
SameCalls(a) ==
    \A c \in Calls : Registers(c, a) \/ Registers(c, a)' =>
        of'[c] = of[c] /\ at'[c] = at[c] /\ saw'[c] = saw[c]
SameRow(a) == row'[a] = row[a] /\ audit'[a] = audit[a] /\ history'[a] = history[a]
SameOthers(a) == (Notified(a)' <=> Notified(a)) /\ (marked' = a <=> marked = a)

LEMMA Unconcerned ==
    ASSUME NEW a \in Agents, RowInv(a), SameCalls(a), SameRow(a), SameOthers(a)
    PROVE  RowInv(a)'
<1> USE DEF SameCalls, SameRow, SameOthers, Registers
<1>1. LoneRequest(a)'
    <2>1. Busy(a) => Busy(a)'
        BY DEF Busy, Notified
    <2> QED
        BY <2>1 DEF RowInv, LoneRequest
<1>2. RequestKnows(a)'
    BY DEF RowInv, RequestKnows
<1>3. LogFollows(a)'
    BY DEF RowInv, LogFollows, NoEntryDue, Matches
<1> QED
    BY <1>1, <1>2, <1>3 DEF RowInv

(* Nothing is claimed of a disturbed log.                                    *)
LEMMA Disturbed ==
    ASSUME NEW a \in Agents, history'[a] = "disturbed" PROVE RowInv(a)'
BY DEF RowInv, LoneRequest, RequestKnows, LogFollows

(* A request that begins: it is alone, or it disturbs.                       *)
LEMMA BeginsAlone ==
    ASSUME NEW a \in Agents, RegistryTypeOK, Begins(a), history'[a] # "disturbed"
    PROVE  /\ ~Busy(a)
           /\ history'[a] \in {"clean", "settling"}
           /\ history'[a] = "clean" => history[a] = "clean"
BY DEF Begins, RegistryTypeOK

(* Nobody under way: the row and the log have agreed since the last entry.   *)
LEMMA IdleMatches ==
    ASSUME NEW a \in Agents, RowInv(a), history[a] = "clean", ~Busy(a)
    PROVE  Matches(a)
BY DEF RowInv, LogFollows, NoEntryDue, Busy, Notified

LEMMA NotBusy ==
    ASSUME NEW a \in Agents, ~Busy(a)
    PROVE  (\A c \in Calls : ~Registers(c, a)) /\ ~Notified(a) /\ marked # a
BY DEF Busy, Registers, Notified
------------------------------------------------------------------------------
(* The statements of a register request.                                     *)
LEMMA ReadStep ==
    ASSUME RInv, NEW c \in Calls, RegisterRead(c) \/ RegisterReadFails(c), NEW a \in Agents
    PROVE  RowInv(a)'
<1> USE DEF RInv, RegistryTypeOK, Registers
<1>1. of[c] \in Agents /\ at[c] = "read"
    BY DEF RegisterRead, RegisterReadFails
<1>2. CASE of[c] # a
    <2>1. SameCalls(a) /\ SameRow(a) /\ SameOthers(a)
        BY <1>1, <1>2 DEF RegisterRead, RegisterReadFails, Begins, SameCalls, SameRow,
            SameOthers, Notified, noticeVars, dogVars
    <2> QED
        BY <2>1, Unconcerned
<1>3. CASE of[c] = a
    <2>1. /\ at' = [at EXCEPT ![c] = "write"] /\ saw'[c] \in {row[a], "absent"}
          /\ of' = of /\ row' = row /\ audit' = audit /\ marked' = marked /\ Begins(a)
          /\ notice' = notice /\ noticeOf' = noticeOf
        BY <1>3 DEF RegisterRead, RegisterReadFails, noticeVars, dogVars
    <2>2. CASE history'[a] = "disturbed"
        BY <2>2, Disturbed
    <2>3. CASE history'[a] # "disturbed"
        <3>1. ~Busy(a) /\ (history'[a] = "clean" => history[a] = "clean")
            BY <2>1, <2>3, BeginsAlone
        <3>2. (\A d \in Calls : ~Registers(d, a)) /\ ~Notified(a) /\ marked # a
            BY <3>1, NotBusy
        <3>3. Registers(c, a)' /\ \A d \in Calls : Registers(d, a)' => d = c
            BY <1>3, <2>1, <3>2
        <3>4. LoneRequest(a)'
            BY <2>1, <3>2, <3>3 DEF LoneRequest, Busy, Notified
        <3>5. RequestKnows(a)'
            BY <1>3, <2>1, <3>2, <3>3 DEF RequestKnows, Notified
        <3>6. LogFollows(a)'
            BY <2>1, <3>1, IdleMatches DEF LogFollows, Matches
        <3> QED
            BY <3>4, <3>5, <3>6 DEF RowInv
    <2> QED
        BY <2>2, <2>3
<1> QED
    BY <1>2, <1>3

(* One that ends without an entry because it leaves the row as it is.        *)
LEMMA LeavesStep ==
    ASSUME RInv, NEW c \in Calls, NEW a \in Agents, of[c] = a, at[c] = "write",
           Release(c), EndsUnaudited(a), history'[a] # "disturbed" => row'[a] = row[a],
           UNCHANGED <<notice, noticeOf, marked>>
    PROVE  RowInv(a)'
<1> USE DEF RInv, RegistryTypeOK, Registers
<1>1. CASE history'[a] = "disturbed"
    BY <1>1, Disturbed
<1>2. CASE history'[a] # "disturbed"
    <2>1. history[a] = "clean" /\ history'[a] = "clean" /\ audit' = audit
        BY <1>2 DEF EndsUnaudited
    <2>2. /\ \A d \in Calls : Registers(d, a) => d = c
          /\ ~Notified(a) /\ marked # a
        BY <2>1 DEF RowInv, LoneRequest
    <2>3. \A d \in Calls : ~Registers(d, a)'
        BY <2>2, RegistryAssumption DEF Release
    <2>4. ~Notified(a)' /\ marked' # a
        BY <2>2 DEF Notified
    <2>5. LoneRequest(a)' /\ RequestKnows(a)'
        BY <2>1, <2>3, <2>4 DEF LoneRequest, RequestKnows
    <2>6. Matches(a)
        BY <2>1, <2>2 DEF RowInv, LogFollows, NoEntryDue
    <2>7. LogFollows(a)'
        BY <1>2, <2>1, <2>6 DEF LogFollows, Matches
    <2> QED
        BY <2>5, <2>7 DEF RowInv
<1> QED
    BY <1>1, <1>2

LEMMA WriteStep ==
    ASSUME RInv, NEW c \in Calls, RegisterWrite(c), NEW a \in Agents PROVE RowInv(a)'
<1> USE DEF RInv, RegistryTypeOK, Registers
<1>1. of[c] \in Agents /\ at[c] = "write"
    BY DEF RegisterWrite
<1>2. CASE of[c] # a
    <2>1. SameCalls(a) /\ SameOthers(a)
        BY <1>1, <1>2 DEF RegisterWrite, Release, GoesToAudit, SameCalls, SameOthers, Notified,
            noticeVars, dogVars
    <2>2. SameRow(a)
        BY <1>1, <1>2 DEF RegisterWrite, EndsUnaudited, SameRow, logVars
    <2> QED
        BY <2>1, <2>2, Unconcerned
<1>3. CASE of[c] = a
    <2>1. /\ row' = [row EXCEPT ![a] = "on"] /\ marked' = marked
          /\ notice' = notice /\ noticeOf' = noticeOf
        BY <1>3 DEF RegisterWrite, noticeVars, dogVars
    <2>2. CASE saw[c] = "on"
        <3>1. Release(c) /\ EndsUnaudited(a)
            BY <1>3, <2>2 DEF RegisterWrite
        <3>2. ASSUME history'[a] # "disturbed" PROVE row'[a] = row[a]
            <4>1. history[a] # "disturbed"
                BY <3>1, <3>2 DEF EndsUnaudited
            <4> QED
                BY <1>1, <1>3, <2>1, <2>2, <4>1 DEF RowInv, RequestKnows
        <3> QED
            BY <1>1, <1>3, <2>1, <3>1, <3>2, LeavesStep
    <2>3. CASE saw[c] # "on"
        <3>1. /\ at' = [at EXCEPT ![c] = "audit"] /\ of' = of
              /\ audit' = audit /\ history' = history
            BY <2>3 DEF RegisterWrite, GoesToAudit, logVars
        <3>2. \A d \in Calls : Registers(d, a)' <=> Registers(d, a)
            BY <1>1, <3>1
        <3>3. LoneRequest(a)'
            <4>1. Busy(a)'
                BY <1>3, <3>1 DEF Busy
            <4> QED
                BY <2>1, <3>1, <3>2, <4>1 DEF RowInv, LoneRequest, Notified
        <3>4. RequestKnows(a)'
            <4>1. history[a] # "disturbed" =>
                    /\ \A d \in Calls : Registers(d, a) => d = c
                    /\ ~Notified(a) /\ marked # a
                BY <1>1, <1>3 DEF RowInv, LoneRequest
            <4> QED
                BY <2>1, <3>1, <4>1 DEF RequestKnows, Notified
        <3>5. LogFollows(a)'
            BY <1>3, <3>1 DEF LogFollows, NoEntryDue
        <3> QED
            BY <3>3, <3>4, <3>5 DEF RowInv
    <2> QED
        BY <2>2, <2>3
<1> QED
    BY <1>2, <1>3

(* A write that fails leaves the row as it is, and disturbs the log when an  *)
(* entry follows.                                                            *)
LEMMA WriteFailsStep ==
    ASSUME RInv, NEW c \in Calls, RegisterWriteFails(c) \/ RegisterCreateFails(c),
           NEW a \in Agents
    PROVE  RowInv(a)'
<1> USE DEF RInv, RegistryTypeOK, Registers
<1>1. /\ of[c] \in Agents /\ at[c] = "write"
      /\ UNCHANGED <<row, notice, noticeOf, marked>>
      /\ \/ GoesToAudit(c) /\ Disturbs(of[c]) /\ UNCHANGED <<of, audit>>
         \/ Release(c) /\ EndsUnaudited(of[c])
    BY DEF RegisterWriteFails, RegisterCreateFails, noticeVars, dogVars
<1>2. CASE of[c] # a
    <2>1. SameCalls(a) /\ SameOthers(a) /\ SameRow(a)
        BY <1>1, <1>2 DEF Release, GoesToAudit, EndsUnaudited, Disturbs, SameCalls,
            SameOthers, SameRow, Notified
    <2> QED
        BY <2>1, Unconcerned
<1>3. CASE of[c] = a /\ Release(c) /\ EndsUnaudited(a)
    BY <1>1, <1>3, LeavesStep
<1>4. CASE of[c] = a /\ Disturbs(a)
    <2>1. history'[a] = "disturbed"
        BY <1>4 DEF Disturbs
    <2> QED
        BY <2>1, Disturbed
<1> QED
    BY <1>1, <1>2, <1>3, <1>4

LEMMA UnseenStep ==
    ASSUME RInv, NEW c \in Calls, RegisterCreateUnseen(c), NEW a \in Agents PROVE RowInv(a)'
<1> USE DEF RInv, RegistryTypeOK, Registers
<1>1. of[c] \in Agents /\ at[c] = "write"
    BY DEF RegisterCreateUnseen
<1>2. CASE of[c] # a
    <2>1. SameCalls(a) /\ SameOthers(a) /\ SameRow(a)
        BY <1>1, <1>2 DEF RegisterCreateUnseen, Release, Disturbs, SameCalls, SameOthers,
            SameRow, Notified, noticeVars, dogVars
    <2> QED
        BY <2>1, Unconcerned
<1>3. CASE of[c] = a
    <2>1. history'[a] = "disturbed"
        BY <1>3 DEF RegisterCreateUnseen, Disturbs
    <2> QED
        BY <2>1, Disturbed
<1> QED
    BY <1>2, <1>3

(* The audit entry that ends a request which knew the row.                   *)
LEMMA EntryStep ==
    ASSUME RegistryTypeOK, NEW a \in Agents, NEW event \in {"online", "offline"},
           EndsAudited(a, event), row' = row,
           history[a] # "disturbed" =>
               /\ ~Busy(a)'
               /\ event = "online" <=> row[a] = "on"
    PROVE  RowInv(a)'
<1>1. CASE history'[a] = "disturbed"
    BY <1>1, Disturbed
<1>2. CASE history'[a] # "disturbed"
    <2>1. history[a] # "disturbed" /\ history'[a] = "clean" /\ audit'[a] = event
        BY <1>2 DEF EndsAudited, Disturbs, RegistryTypeOK
    <2>2. (\A c \in Calls : ~Registers(c, a)') /\ ~Notified(a)' /\ marked' # a
        BY <2>1 DEF Busy, Registers, Notified
    <2>3. LoneRequest(a)'
        BY <2>1, <2>2 DEF LoneRequest
    <2>4. RequestKnows(a)'
        BY <2>2 DEF RequestKnows, Registers
    <2>5. LogFollows(a)'
        BY <2>1 DEF LogFollows, Matches, RegistryTypeOK
    <2> QED
        BY <2>3, <2>4, <2>5 DEF RowInv
<1> QED
    BY <1>1, <1>2

LEMMA AuditStep ==
    ASSUME RInv, NEW c \in Calls, RegisterAudit(c), NEW a \in Agents PROVE RowInv(a)'
<1> USE DEF RInv, RegistryTypeOK, Registers
<1>1. of[c] \in Agents /\ at[c] = "audit" /\ EndsAudited(of[c], "online") /\ Release(c)
    BY DEF RegisterAudit
<1>2. CASE of[c] # a
    <2>1. SameCalls(a) /\ SameOthers(a) /\ SameRow(a)
        BY <1>1, <1>2 DEF RegisterAudit, Release, EndsAudited, Disturbs, SameCalls, SameOthers,
            SameRow, Notified, noticeVars, dogVars
    <2> QED
        BY <2>1, Unconcerned
<1>3. CASE of[c] = a
    <2>1. ASSUME history[a] # "disturbed" PROVE ~Busy(a)' /\ row[a] = "on"
        <3>1. /\ \A d \in Calls : Registers(d, a) => d = c
              /\ ~Notified(a) /\ marked # a /\ row[a] = "on"
            BY <1>1, <1>3, <2>1 DEF RowInv, LoneRequest, RequestKnows
        <3> QED
            BY <1>1, <3>1, RegistryAssumption
            DEF RegisterAudit, Release, Busy, Notified, noticeVars, dogVars
    <2> QED
        BY <1>1, <1>3, <2>1, EntryStep DEF RegisterAudit
<1> QED
    BY <1>2, <1>3
------------------------------------------------------------------------------
(* The two that set an agent offline: the notice and the watchdog.           *)
LEMMA OfflineStep ==
    ASSUME RInv, NEW a \in Agents, SetOffline(a), Begins(a),
           UNCHANGED <<of, at, saw, audit>>,
           Notified(a)' \/ marked' = a,
           ~Busy(a) => ~(Notified(a)' /\ marked' = a)
    PROVE  RowInv(a)'
<1> USE DEF RInv, RegistryTypeOK, Registers
<1>1. CASE history'[a] = "disturbed"
    BY <1>1, Disturbed
<1>2. CASE history'[a] # "disturbed"
    <2>1. ~Busy(a)
        BY <1>2, BeginsAlone
    <2>2. \A c \in Calls : ~Registers(c, a)'
        BY <2>1, NotBusy
    <2>3. LoneRequest(a)'
        BY <2>1, <2>2 DEF LoneRequest, Busy, Notified
    <2>4. RequestKnows(a)'
        BY <2>2 DEF RequestKnows, SetOffline
    <2>5. LogFollows(a)'
        BY DEF LogFollows, NoEntryDue
    <2> QED
        BY <2>3, <2>4, <2>5 DEF RowInv
<1> QED
    BY <1>1, <1>2

LEMMA NoticeStep ==
    ASSUME RInv, ServeNotice, NEW a \in Agents PROVE RowInv(a)'
<1> USE DEF RInv, RegistryTypeOK, Registers
<1>1. noticeOf \in Agents
    BY DEF ServeNotice, NoticeUpdate, NoticeUpdateFails, NoticeAudit
<1>2. CASE noticeOf # a
    <2>1. SameCalls(a) /\ SameOthers(a) /\ SameRow(a)
        BY <1>1, <1>2, RegistryAssumption DEF ServeNotice, NoticeUpdate, NoticeUpdateFails,
            NoticeAudit, SetOffline, Begins, EndsAudited, Disturbs, SameCalls, SameOthers,
            SameRow, Notified, callVars, dogVars, logVars
    <2> QED
        BY <2>1, Unconcerned
<1>3. CASE noticeOf = a /\ NoticeUpdate
    <2>1. SetOffline(a) /\ Begins(a) /\ UNCHANGED <<of, at, saw, audit>> /\ Notified(a)'
        BY <1>3 DEF NoticeUpdate, callVars, Notified
    <2>2. ~Busy(a) => marked' # a
        BY <1>3 DEF NoticeUpdate, Busy, dogVars
    <2> QED
        BY <2>1, <2>2, OfflineStep
<1>4. CASE noticeOf = a /\ NoticeAudit
    <2>1. Notified(a) /\ UNCHANGED <<of, at, marked, row>> /\ notice' = "none"
        BY <1>4 DEF NoticeAudit, Notified, callVars, dogVars
    <2>2. ASSUME history[a] # "disturbed" PROVE ~Busy(a)' /\ row[a] # "on"
        <3>1. (\A c \in Calls : ~Registers(c, a)) /\ marked # a /\ row[a] # "on"
            BY <2>1, <2>2 DEF RowInv, LoneRequest, RequestKnows
        <3> QED
            BY <2>1, <3>1 DEF Busy
    <2> QED
        BY <1>4, <2>1, <2>2, EntryStep DEF NoticeAudit
<1>5. CASE NoticeUpdateFails /\ UNCHANGED <<row, logVars>>
    <2>1. SameCalls(a) /\ SameOthers(a) /\ SameRow(a)
        BY <1>5, <1>1 DEF NoticeUpdateFails, SameCalls, SameOthers, SameRow, Notified,
            callVars, dogVars, logVars
    <2> QED
        BY <2>1, Unconcerned
<1>6. CASE noticeOf = a /\ Disturbs(a)
    <2>1. history'[a] = "disturbed"
        BY <1>6 DEF Disturbs
    <2> QED
        BY <2>1, Disturbed
<1> QED
    BY <1>2, <1>3, <1>4, <1>5, <1>6 DEF ServeNotice, NoticeUpdateFails

LEMMA WatchdogStep ==
    ASSUME RInv, NEW a \in Agents,
           (\E b \in Agents : WatchdogUpdate(b)) \/ WatchdogAudit
    PROVE  RowInv(a)'
<1> USE DEF RInv, RegistryTypeOK, Registers
<1>1. ASSUME NEW b \in Agents, WatchdogUpdate(b) PROVE RowInv(a)'
    <2>1. CASE b # a
        <3>1. SameCalls(a) /\ SameOthers(a) /\ SameRow(a)
            BY <1>1, <2>1, RegistryAssumption DEF WatchdogUpdate, SetOffline, Begins,
                Disturbs, SameCalls, SameOthers, SameRow, Notified, callVars, noticeVars
        <3> QED
            BY <3>1, Unconcerned
    <2>2. CASE b = a /\ SetOffline(a) /\ Begins(a)
        <3>1. UNCHANGED <<of, at, saw, audit>> /\ marked' = a
            BY <1>1, <2>2 DEF WatchdogUpdate, callVars
        <3>2. ~Busy(a) => ~Notified(a)'
            BY <1>1 DEF WatchdogUpdate, Busy, Notified, noticeVars
        <3> QED
            BY <2>2, <3>1, <3>2, OfflineStep
    <2>3. CASE Disturbs(a)
        <3>1. history'[a] = "disturbed"
            BY <2>3 DEF Disturbs
        <3> QED
            BY <3>1, Disturbed
    <2> QED
        BY <1>1, <2>1, <2>2, <2>3 DEF WatchdogUpdate
<1>2. CASE WatchdogAudit
    <2>1. marked \in Agents
        BY <1>2 DEF WatchdogAudit
    <2>2. CASE marked # a
        <3>1. SameCalls(a) /\ SameOthers(a) /\ SameRow(a)
            BY <1>2, <2>1, <2>2, RegistryAssumption DEF WatchdogAudit, EndsAudited,
                Disturbs, SameCalls, SameOthers, SameRow, Notified, callVars, noticeVars
        <3> QED
            BY <3>1, Unconcerned
    <2>3. CASE marked = a
        <3>1. marked' # a /\ UNCHANGED <<of, at, notice, noticeOf, row>>
            BY <1>2, RegistryAssumption DEF WatchdogAudit, callVars, noticeVars
        <3>2. ASSUME history[a] # "disturbed" PROVE ~Busy(a)' /\ row[a] # "on"
            <4>1. (\A c \in Calls : ~Registers(c, a)) /\ ~Notified(a) /\ row[a] # "on"
                BY <2>3, <3>2 DEF RowInv, LoneRequest, RequestKnows
            <4> QED
                BY <3>1, <4>1 DEF Busy, Notified
        <3> QED
            BY <1>2, <2>3, <3>1, <3>2, EntryStep DEF WatchdogAudit
    <2> QED
        BY <2>2, <2>3
<1> QED
    BY <1>1, <1>2

(* A crash of apiserver is remembered for the agents it cut off.             *)
LEMMA CrashStep ==
    ASSUME RInv, ApiserverCrash, NEW a \in Agents PROVE RowInv(a)'
<1> USE DEF RInv, RegistryTypeOK, Registers
<1>1. CASE Busy(a)
    <2>1. history'[a] = "disturbed"
        BY <1>1 DEF ApiserverCrash
    <2> QED
        BY <2>1, Disturbed
<1>2. CASE ~Busy(a)
    <2>1. history'[a] = history[a] /\ history[a] # "settling"
        BY <1>2 DEF ApiserverCrash, RowInv, LoneRequest
    <2>2. (\A c \in Calls : ~Registers(c, a)') /\ ~Notified(a)' /\ marked' # a
        BY RegistryAssumption DEF ApiserverCrash, InApiserver, Notified
    <2>3. LoneRequest(a)' /\ RequestKnows(a)'
        BY <2>1, <2>2 DEF LoneRequest, RequestKnows
    <2>4. LogFollows(a)'
        BY <1>2, <2>1, IdleMatches DEF ApiserverCrash, LogFollows, Matches
    <2> QED
        BY <2>3, <2>4 DEF RowInv
<1> QED
    BY <1>1, <1>2
------------------------------------------------------------------------------
(* What touches neither the rows nor the log nor a request between its       *)
(* statements.                                                               *)
LEMMA OutsideStep ==
    ASSUME RInv, NEW a \in Agents,
           \/ \E b \in Agents : StartAgent(b) \/ StopAgent(b) \/ SilenceInDrop(b) \/ RowGoesStale(b)
           \/ \E b \in Agents, c \in Calls : Heartbeat(b, c) \/ Register(b, c)
           \/ \E c \in Calls : MarkSeen(c) \/ PostReaches(c) \/ PostFails(c)
           \/ NoticeReaches \/ NoticeFails \/ Scan \/ WatchdogSelect \/ DropServerCrash
           \/ UNCHANGED registryVars
    PROVE  RowInv(a)'
<1> USE DEF callVars, dropVars, noticeVars, dogVars, logVars
<1>1. SameRow(a)
    BY DEF SameRow, StartAgent, StopAgent, SilenceInDrop, RowGoesStale, Heartbeat, Register,
        CallArrives, MarkSeen, PostReaches, PostFails, NoticeReaches, NoticeFails, Scan,
        ScanBegins, ScanEnds, MarkOffline, WatchdogSelect, DropServerCrash, registryVars
<1>2. SameOthers(a)
    BY DEF SameOthers, Notified, StartAgent, StopAgent, SilenceInDrop, RowGoesStale, Heartbeat,
        Register, CallArrives, MarkSeen, PostReaches, PostFails, NoticeReaches, NoticeFails,
        Scan, ScanBegins, ScanEnds, MarkOffline, WatchdogSelect, DropServerCrash, registryVars
<1>3. SameCalls(a)
    <2> USE DEF SameCalls, Registers, RInv, RegistryTypeOK
    <2>1. ASSUME NEW b \in Agents, NEW c \in Calls, Heartbeat(b, c) \/ Register(b, c)
          PROVE  SameCalls(a)
        BY <2>1 DEF Heartbeat, Register, CallArrives
    <2>2. ASSUME NEW c \in Calls, MarkSeen(c) \/ PostReaches(c) \/ PostFails(c)
          PROVE  SameCalls(a)
        BY <2>2 DEF MarkSeen, PostReaches, PostFails, Release
    <2>3. CASE DropServerCrash
        BY <2>3 DEF DropServerCrash
    <2>4. ASSUME UNCHANGED callVars PROVE SameCalls(a)
        BY <2>4
    <2> QED
        BY <2>1, <2>2, <2>3, <2>4 DEF StartAgent, StopAgent, SilenceInDrop, RowGoesStale,
            NoticeReaches, NoticeFails, Scan, ScanBegins, ScanEnds, MarkOffline,
            WatchdogSelect, registryVars
<1> QED
    BY <1>1, <1>2, <1>3, Unconcerned DEF RInv
------------------------------------------------------------------------------
(* What the scan has found of the agents it still has to mark stands as long *)
(* as it holds agents_mutex_, and it has found nobody when it does not.      *)
ScanInv ==
    /\ scan = "sleep" => toMark = {}
    /\ \A a \in toMark : online[a] = "on" /\ silent[a]

LEMMA ScanStep ==
    RegistryTypeOK /\ ScanInv /\ [RegistryNext]_registryVars => ScanInv'
<1> SUFFICES ASSUME RegistryTypeOK, ScanInv, [RegistryNext]_registryVars PROVE ScanInv'
    OBVIOUS
<1> USE DEF ScanInv, RegistryTypeOK
<1>1. ASSUME UNCHANGED dropVars PROVE ScanInv'
    BY <1>1 DEF dropVars
<1>2. ASSUME NEW a \in Agents, SilenceInDrop(a) PROVE ScanInv'
    BY <1>2 DEF SilenceInDrop
<1>3. ASSUME NEW c \in Calls, MarkSeen(c) PROVE ScanInv'
    BY <1>3 DEF MarkSeen
<1>4. CASE ScanBegins
    BY <1>4 DEF ScanBegins
<1>5. ASSUME NEW a \in Agents, MarkOffline(a) PROVE ScanInv'
    BY <1>5 DEF MarkOffline
<1>6. CASE ScanEnds
    BY <1>6 DEF ScanEnds
<1>7. CASE DropServerCrash
    BY <1>7 DEF DropServerCrash
<1> HIDE DEF ScanInv, RegistryTypeOK
<1> QED
    BY <1>1, <1>2, <1>3, <1>4, <1>5, <1>6, <1>7
    DEF RegistryNext, StartAgent, StopAgent, RowGoesStale, Heartbeat, Register, CallArrives,
        PostReaches, PostFails, ServeRegister, RegisterRead, RegisterReadFails,
        RegisterWrite, RegisterWriteFails, RegisterCreateFails,
        RegisterCreateUnseen, RegisterAudit,
        NoticeReaches, NoticeFails, ServeNotice, NoticeUpdate, NoticeUpdateFails,
        NoticeAudit, Scan, Watchdog, WatchdogSelect, WatchdogUpdate,
        WatchdogAudit, ApiserverCrash, registryVars

(* Only MarkOffline takes an agent from on to off.                           *)
LEMMA OnlyScanMarks ==
    ASSUME RegistryTypeOK, [RegistryNext]_registryVars, NEW a \in Agents,
           online[a] = "on", online'[a] = "off"
    PROVE  a \in toMark
<1> USE DEF RegistryTypeOK
<1>1. ASSUME NEW c \in Calls, MarkSeen(c) PROVE a \in toMark
    BY <1>1 DEF MarkSeen
<1>2. ASSUME NEW b \in Agents, MarkOffline(b) PROVE a \in toMark
    BY <1>2 DEF MarkOffline
<1>3. CASE DropServerCrash
    BY <1>3 DEF DropServerCrash
<1>4. ASSUME UNCHANGED online PROVE FALSE
    BY <1>4
<1> HIDE DEF RegistryTypeOK
<1> QED
    BY <1>1, <1>2, <1>3, <1>4
    DEF dropVars, RegistryNext, StartAgent, StopAgent, SilenceInDrop, RowGoesStale,
        Heartbeat, Register, CallArrives, PostReaches, PostFails, ServeRegister,
        RegisterRead, RegisterReadFails, RegisterWrite, RegisterWriteFails,
        RegisterCreateFails, RegisterCreateUnseen, RegisterAudit, NoticeReaches,
        NoticeFails, ServeNotice,
        NoticeUpdate, NoticeUpdateFails, NoticeAudit, Scan, ScanBegins, ScanEnds,
        Watchdog, WatchdogSelect, WatchdogUpdate, WatchdogAudit, ApiserverCrash, registryVars
------------------------------------------------------------------------------
(* The state of both records and of all requests keeps its type.             *)
THEOREM RegistryTypesHold == RegistrySpec => []RegistryTypeOK
<1>1. RegistryInit => RegistryTypeOK
    BY RegistryAssumption DEF RegistryInit, RegistryTypeOK, CallStates
<1> QED
    BY <1>1, TypeStep, PTL DEF RegistrySpec

(* The inductive invariant: undisturbed, an agent has one request under way, *)
(* which knows the row.                                                      *)
THEOREM RegistryInductive == RegistrySpec => []RInv
<1>1. RegistryInit => RInv
    BY RegistryAssumption DEF RegistryInit, RInv, RegistryTypeOK, CallStates, RowInv,
        LoneRequest, RequestKnows, LogFollows, NoEntryDue, Matches, Registers, Notified
<1>2. RInv /\ [RegistryNext]_registryVars => RInv'
    <2> SUFFICES ASSUME RInv, [RegistryNext]_registryVars PROVE RInv'
        OBVIOUS
    <2>1. RegistryTypeOK'
        BY TypeStep DEF RInv
    <2>2. ASSUME NEW a \in Agents PROVE RowInv(a)'
        BY ReadStep, WriteStep, WriteFailsStep, UnseenStep, AuditStep, NoticeStep,
           WatchdogStep,
           CrashStep, OutsideStep
        DEF RegistryNext, ServeRegister, Watchdog
    <2> QED
        BY <2>1, <2>2 DEF RInv
<1> QED
    BY <1>1, <1>2, PTL DEF RegistrySpec

(* The last audit entry of an agent says what its row says, as long as its   *)
(* requests do not overlap, are not cut off, and are not wrong about the     *)
(* outcome of a statement: other failures cannot part the two.               *)
THEOREM AuditAgrees == RegistrySpec => []AuditMatches
<1>1. RInv => AuditMatches
    <2> SUFFICES ASSUME RInv, NEW a \in Agents, ~Busy(a), history[a] = "clean"
                 PROVE  CASE row[a] = "absent" -> audit[a] = "none" \/ audit[a] = "offline"
                          [] row[a] = "on" -> audit[a] = "online"
                          [] row[a] = "off" -> audit[a] = "offline"
        BY DEF AuditMatches
    <2>1. Matches(a)
        BY IdleMatches DEF RInv
    <2>2. row[a] \in {"absent", "on", "off"}
        BY DEF RInv, RegistryTypeOK
    <2> QED
        BY <2>1, <2>2 DEF Matches
<1> QED
    BY <1>1, RegistryInductive, PTL

(* drop_server marks an agent offline only while it is silent: no heartbeat  *)
(* comes between the scan's look at last_seen and its mark.                  *)
THEOREM OnlySilentGoOffline == RegistrySpec => OfflineMeansSilent
<1>1. RegistryInit => ScanInv
    BY DEF RegistryInit, ScanInv
<1>2. RegistryTypeOK /\ ScanInv /\ [RegistryNext]_registryVars =>
        [\A a \in Agents : online[a] = "on" /\ online'[a] = "off" => silent[a]]_registryVars
    BY OnlyScanMarks DEF ScanInv
<1> QED
    BY <1>1, <1>2, ScanStep, RegistryTypesHold, PTL DEF RegistrySpec, OfflineMeansSilent
=============================================================================
