---------------------------- MODULE AccessDenylist ----------------------------
(***************************************************************************)
(* The denylist of access tokens: API instances that share PostgreSQL and  *)
(* one Redis, the revocation of sessions, the check that the guards make   *)
(* for every token, and the task that copies revoked sessions from         *)
(* PostgreSQL to Redis.                                                    *)
(*                                                                         *)
(* A session has one access token of interest, the newest.  The jti key    *)
(* that a logout writes next to the session key is left out: both are set  *)
(* in one MULTI and the jti key never outlives the session key.            *)
(***************************************************************************)
EXTENDS Naturals, FiniteSets

CONSTANTS
    Instances, Sessions, None,
    ACCESS_TOKEN_TTL,
    MaxTime, MaxFaults      \* bounds on the clock and on what may go wrong

DenylistAssumption ==
    /\ ACCESS_TOKEN_TTL \in Nat \ {0}
    /\ MaxTime \in Nat \ {0} /\ MaxFaults \in Nat
    /\ None \notin Sessions

VARIABLES
    clock,
    exp,            \* exp[s] of the newest access token of session s, 0: none yet
    revokedAt,      \* revoked_at of the family in PostgreSQL, 0: NULL
    acked,          \* sessions whose key Redis has confirmed to an instance
    key, saved,     \* expiry of auth:revoked-sid:s in Redis, and in its log on disk
    inst,           \* inst[i], an instance: its connection, denylist and sync task
    check,          \* a token check at one of the instances
    faults

vars == <<clock, exp, revokedAt, acked, key, saved, inst, check, faults>>

NoTask == [pc |-> "none", current |-> FALSE, onConn |-> FALSE, found |-> <<>>]

(* generation is only compared with the syncPoint of the running task, so  *)
(* the task keeps whether the two are equal.  onConn says that the task    *)
(* began on a connection, copied that such a task was the last to set      *)
(* synced and that the connection has not been replaced since.             *)
Booted == [conn |-> "closed", synced |-> FALSE, copied |-> FALSE, write |-> None,
           failed |-> {}, task |-> NoTask]

NoCheck == [pc |-> "none", at |-> None, sid |-> None, exp |-> 0, told |-> "nothing",
            copied |-> FALSE]

Init ==
    /\ clock = 1
    /\ exp = [s \in Sessions |-> 0] /\ revokedAt = [s \in Sessions |-> 0]
    /\ acked = {}
    /\ key = [s \in Sessions |-> 0] /\ saved = key
    /\ inst = [i \in Instances |-> Booted]
    /\ check = NoCheck
    /\ faults = 0

Fault == faults < MaxFaults /\ faults' = faults + 1

MarkedOutOfSync(x) == [x EXCEPT !.synced = FALSE, !.task.current = FALSE]

-----------------------------------------------------------------------------
(* Tokens and revocations                                                  *)

(* signAccess; a refresh that committed before the revocation may sign its *)
(* token a moment after it.                                                *)
Sign(s) ==
    /\ revokedAt[s] = 0 \/ clock <= revokedAt[s] + 1
    /\ exp' = [exp EXCEPT ![s] = clock + ACCESS_TOKEN_TTL]
    /\ UNCHANGED <<clock, revokedAt, acked, key, saved, inst, check, faults>>

(* A logout or a reuse: the UPDATE has committed, the Redis write begins.  *)
Revoke(i, s) ==
    /\ inst[i].write = None /\ exp[s] # 0
    /\ revokedAt' = [revokedAt EXCEPT ![s] = IF @ = 0 THEN clock ELSE @]
    /\ inst' = [inst EXCEPT ![i].write = s]
    /\ UNCHANGED <<clock, exp, acked, key, saved, check, faults>>

(* SET auth:revoked-sid:s EX: confirmed, also when it was queued or resent *)
(* by the client after a reconnect.                                        *)
WriteKey(i) ==
    LET s == inst[i].write IN
    /\ s # None /\ inst[i].conn = "open"
    /\ key' = [key EXCEPT ![s] = clock + ACCESS_TOKEN_TTL]
    /\ acked' = acked \cup {s}
    /\ inst' = [inst EXCEPT ![i].write = None]
    /\ UNCHANGED <<clock, exp, revokedAt, saved, check, faults>>

(* The write is given up: 503 for a logout, a warning in the log for a     *)
(* reuse.                                                                  *)
WriteFails(i) ==
    LET s == inst[i].write IN
    /\ s # None /\ inst[i].conn # "open"
    /\ inst' = [inst EXCEPT ![i] = [MarkedOutOfSync(@) EXCEPT
                                      !.write = None, !.failed = inst[i].failed \cup {s}]]
    /\ UNCHANGED <<clock, exp, revokedAt, acked, key, saved, check, faults>>

-----------------------------------------------------------------------------
(* AuthMaintenance: the sync of revoked sessions                           *)

(* launch: nothing happens while a sync is running.                        *)
Launched(x) ==
    IF x.task.pc # "none" THEN x
    ELSE [x EXCEPT !.task = [pc |-> "read", current |-> TRUE, onConn |-> x.conn # "closed",
                             found |-> <<>>]]

(* On start and by the interval timer.                                     *)
Launch(i) ==
    /\ inst[i].task.pc = "none"
    /\ inst' = [inst EXCEPT ![i] = Launched(@)]
    /\ UNCHANGED <<clock, exp, revokedAt, acked, key, saved, check, faults>>

(* Mutant: a window that is a second too short.                            *)
RecentTooShort == {s \in Sessions : revokedAt[s] # 0 /\ revokedAt[s] + ACCESS_TOKEN_TTL > clock + 1}

Recent == {s \in Sessions : revokedAt[s] # 0 /\ revokedAt[s] + ACCESS_TOKEN_TTL > clock}

FindRecentlyRevokedSessions(i) ==
    /\ inst[i].task.pc = "read"
    /\ inst' = [inst EXCEPT ![i].task =
                    [inst[i].task EXCEPT
                        !.pc = "restore",
                        !.found = [s \in Recent |-> revokedAt[s] + ACCESS_TOKEN_TTL - clock]]]
    /\ UNCHANGED <<clock, exp, revokedAt, acked, key, saved, check, faults>>

Live(s) == clock < key[s]

(* Mutant: an empty list leaves the denylist as it was.                    *)
SyncedIfAny(x) == [x EXCEPT !.synced = @ \/ (x.task.current /\ DOMAIN x.task.found # {}),
                            !.copied = @ \/ (x.task.current /\ x.task.onConn), !.task = NoTask]

(* Mutant: without the comparison of the generations.                      *)
SyncedAlways(x) == [x EXCEPT !.synced = TRUE, !.copied = @ \/ x.task.onConn, !.task = NoTask]

Synced(x) == [x EXCEPT !.synced = @ \/ x.task.current,
                       !.copied = @ \/ (x.task.current /\ x.task.onConn), !.task = NoTask]

(* The pipeline of SET ... EX ttl NX, which is skipped for an empty list,  *)
(* and the comparison of the generations.                                  *)
RestoreRevokedSessions(i) ==
    LET found == inst[i].task.found IN
    /\ inst[i].task.pc = "restore"
    /\ DOMAIN found = {} \/ inst[i].conn = "open"
    /\ key' = [s \in Sessions |-> IF s \in DOMAIN found /\ ~Live(s)
                                  THEN clock + found[s] ELSE key[s]]
    /\ inst' = [inst EXCEPT ![i] = Synced(@)]
    /\ UNCHANGED <<clock, exp, revokedAt, acked, saved, check, faults>>

RestoreFails(i) ==
    /\ inst[i].task.pc = "restore" /\ DOMAIN inst[i].task.found # {}
    /\ inst[i].conn # "open"
    /\ inst' = [inst EXCEPT ![i] = [MarkedOutOfSync(@) EXCEPT !.task = NoTask]]
    /\ UNCHANGED <<clock, exp, revokedAt, acked, key, saved, check, faults>>

ReadFails(i) ==
    /\ inst[i].task.pc = "read" /\ Fault
    /\ inst' = [inst EXCEPT ![i].task = NoTask]
    /\ UNCHANGED <<clock, exp, revokedAt, acked, key, saved, check>>

-----------------------------------------------------------------------------
(* The check of a token                                                    *)

(* What was known of the revocation of s when a check of it began at i.    *)
Told(i, s) == CASE s \in acked -> "confirmed"
                [] s \in inst[i].failed -> "failed here"
                [] OTHER -> "nothing"

(* verifyAccess and isDenied up to the EXISTS; out of sync the answer is   *)
(* 503 at once.                                                            *)
Authenticate(i, s) ==
    /\ check.pc # "sent"
    /\ clock < exp[s] /\ inst[i].synced
    /\ check' = [pc |-> "sent", at |-> i, sid |-> s, exp |-> exp[s], told |-> Told(i, s),
                 copied |-> inst[i].copied]
    /\ UNCHANGED <<clock, exp, revokedAt, acked, key, saved, inst, faults>>

(* The answer to EXISTS, on the connection that is open by now; only an    *)
(* unexpired token that got through is of interest.                        *)
Exists ==
    /\ check.pc = "sent" /\ inst[check.at].conn = "open"
    /\ check' = IF Live(check.sid) \/ clock >= check.exp THEN NoCheck
                ELSE [check EXCEPT !.pc = "accepted"]
    /\ UNCHANGED <<clock, exp, revokedAt, acked, key, saved, inst, faults>>

(* The command is given up after its retry: 503.                           *)
ExistsFails ==
    /\ check.pc = "sent" /\ inst[check.at].conn # "open"
    /\ check' = NoCheck
    /\ UNCHANGED <<clock, exp, revokedAt, acked, key, saved, inst, faults>>

-----------------------------------------------------------------------------
(* Connections, Redis, processes and time                                  *)

(* The network drops a connection; the client has not noticed yet.         *)
DropConnection(i) ==
    /\ inst[i].conn = "open" /\ Fault
    /\ inst' = [inst EXCEPT ![i].conn = "broken"]
    /\ UNCHANGED <<clock, exp, revokedAt, acked, key, saved, check>>

(* The event 'close', also after an attempt to reconnect that failed.      *)
Close(i) ==
    /\ \/ inst[i].conn = "broken" /\ UNCHANGED faults
       \/ inst[i].conn = "closed" /\ Fault
    /\ inst' = [inst EXCEPT ![i] = [MarkedOutOfSync(@) EXCEPT !.conn = "closed", !.copied = FALSE]]
    /\ UNCHANGED <<clock, exp, revokedAt, acked, key, saved, check>>

(* The event 'ready' launches a sync; commands that wait are sent first.   *)
Ready(i) ==
    /\ inst[i].conn = "closed"
    /\ inst' = [inst EXCEPT ![i] =
                    Launched([@ EXCEPT !.conn = "open", !.copied = FALSE])]
    /\ check' = [check EXCEPT !.copied = @ /\ ~(check.pc = "sent" /\ check.at = i)]
    /\ UNCHANGED <<clock, exp, revokedAt, acked, key, saved, faults>>

(* appendfsync everysec: Redis comes back without the last writes.         *)
RestartRedis ==
    /\ Fault
    /\ \E lost \in SUBSET {s \in Sessions : key[s] # saved[s]} :
          key' = [s \in Sessions |-> IF s \in lost THEN saved[s] ELSE key[s]]
    /\ inst' = [i \in Instances |->
                    [inst[i] EXCEPT !.conn = IF @ = "open" THEN "broken" ELSE @]]
    /\ saved' = key'
    /\ UNCHANGED <<clock, exp, revokedAt, acked, check>>

CrashInstance(i) ==
    /\ Fault
    /\ inst' = [inst EXCEPT ![i] = [Booted EXCEPT !.failed = inst[i].failed]]
    /\ check' = IF check.at = i THEN NoCheck ELSE check
    /\ UNCHANGED <<clock, exp, revokedAt, acked, key, saved>>

Tick ==
    /\ clock < MaxTime
    /\ clock' = clock + 1
    /\ saved' = key
    /\ UNCHANGED <<exp, revokedAt, acked, key, inst, check, faults>>

-----------------------------------------------------------------------------
(* What goes on for ever: the timers and the task, and the reconnect loop  *)
(* of the client.                                                          *)
TaskStep(i) == Launch(i) \/ FindRecentlyRevokedSessions(i) \/ RestoreRevokedSessions(i)
ConnectionStep(i) == Close(i) \/ Ready(i)

Next ==
    \/ \E s \in Sessions : Sign(s) \/ \E i \in Instances : Revoke(i, s) \/ Authenticate(i, s)
    \/ \E i \in Instances :
        \/ WriteKey(i) \/ WriteFails(i)
        \/ TaskStep(i) \/ ReadFails(i) \/ RestoreFails(i)
        \/ ConnectionStep(i) \/ DropConnection(i) \/ CrashInstance(i)
    \/ Exists \/ ExistsFails \/ RestartRedis \/ Tick

Spec == Init /\ [][Next]_vars

-----------------------------------------------------------------------------
(* Properties                                                              *)

(* The types of the variables.  Every TTL that the sync has computed and   *)
(* not used yet is one that Redis takes: positive and not longer than an   *)
(* access token lives.                                                     *)
TypeOK ==
    /\ clock \in 1..MaxTime /\ faults \in 0..MaxFaults /\ acked \subseteq Sessions
    /\ exp \in [Sessions -> 0..(MaxTime + ACCESS_TOKEN_TTL)]
    /\ revokedAt \in [Sessions -> 0..MaxTime]
    /\ key \in [Sessions -> 0..(MaxTime + ACCESS_TOKEN_TTL)]
    /\ saved \in [Sessions -> 0..(MaxTime + ACCESS_TOKEN_TTL)]
    /\ \A i \in Instances :
        /\ inst[i].conn \in {"open", "broken", "closed"}
        /\ inst[i].synced \in BOOLEAN /\ inst[i].copied \in BOOLEAN
        /\ inst[i].write \in Sessions \cup {None} /\ inst[i].failed \subseteq Sessions
        /\ inst[i].task.pc \in {"none", "read", "restore"}
        /\ \A s \in DOMAIN inst[i].task.found : inst[i].task.found[s] \in 1..ACCESS_TOKEN_TTL
    /\ check.pc \in {"none", "sent", "accepted"} /\ check.sid \in Sessions \cup {None}

(* A token was let through that was signed before the revocation.          *)
AcceptedOldToken ==
    /\ check.pc = "accepted" /\ revokedAt[check.sid] # 0
    /\ check.exp <= revokedAt[check.sid] + ACCESS_TOKEN_TTL

(* While an instance trusts its denylist on a connection on which a copy   *)
(* was completed, Redis has a key for every confirmed revocation, and for  *)
(* every one this instance failed to write, that an access token can still *)
(* outlive; whatever Redis lost and whichever sync ended late.             *)
SyncedMeansComplete ==
    \A i \in Instances :
        inst[i].synced /\ inst[i].copied /\ inst[i].conn = "open" =>
            \A s \in acked \cup inst[i].failed :
                Live(s) \/ clock >= revokedAt[s] + ACCESS_TOKEN_TTL

(* A token signed before the revocation is not accepted by a check that    *)
(* begins after the revocation was confirmed to anyone, or after this      *)
(* instance failed to write it.  Checks answered on a connection on which  *)
(* no copy was completed are left out: isDenied looks at synced before it  *)
(* sends EXISTS and not after, so the answer to a command that the client  *)
(* sent again after a reconnect is used although the copy is still to      *)
(* come.  So are checks at an instance other than the one whose write      *)
(* failed: it stays in sync until its next interval.                       *)
RevokedIsRefused ==
    AcceptedOldToken /\ check.copied => check.told \notin {"confirmed", "failed here"}

(* The denylist is complete where it is trusted, and trusted only there.   *)
DenylistHolds == TypeOK /\ SyncedMeansComplete /\ RevokedIsRefused

(* An instance does not answer 503 for ever: every loss of synchrony is    *)
(* followed by a completed sync.                                           *)
SyncReturns == \A i \in Instances : ~inst[i].synced ~> inst[i].synced

(* A revocation committed in PostgreSQL reaches Redis within its window,   *)
(* even if the process died before its write or Redis lost it.             *)
RevocationReachesRedis ==
    \A s \in Sessions :
        revokedAt[s] # 0 ~> Live(s) \/ clock >= revokedAt[s] + ACCESS_TOKEN_TTL

(* The denylist recovers: every instance is in sync again, and every       *)
(* committed revocation reaches Redis.                                     *)
DenylistRecovers == SyncReturns /\ RevocationReachesRedis
===============================================================================
