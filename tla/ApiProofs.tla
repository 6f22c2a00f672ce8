------------------------------- MODULE ApiProofs -------------------------------
(***************************************************************************)
(* Proofs about what API processes keep or share: the denylist of access   *)
(* tokens, for any instances, sessions and lifetimes, and whatever         *)
(* connections, instances and Redis do; the order events, for any orders,  *)
(* concurrent changes, clients and buffers; and the card of a product, for *)
(* any readers, workers and changes.                                       *)
(***************************************************************************)
EXTENDS Api, Integers, Sequences, FiniteSetTheorems, SequenceTheorems, TLAPS

(***************************************************************************)
(* The invariant                                                           *)
(*                                                                         *)
(* A key in Redis outlives every token of its session, so once the key is  *)
(* written the session is Settled, and only a restart of Redis can undo    *)
(* that, which breaks every connection.  Whoever trusts the denylist does  *)
(* so on a connection that was there while a task read PostgreSQL; what    *)
(* was revoked before the task read is in its list, what was revoked later *)
(* was written on top of it, or the failed write called the task back.     *)
(*                                                                         *)
(* The parts take the state they speak of as arguments: t is the clock, R  *)
(* is revokedAt, A is acked and K are the keys in Redis.                   *)
(***************************************************************************)
TaskRecord == [pc : {"none", "read", "restore"}, current : BOOLEAN, onConn : BOOLEAN,
               found : UNION {[S -> Nat] : S \in SUBSET Sessions}]

InstRecord == [conn : {"open", "broken", "closed"}, synced : BOOLEAN, copied : BOOLEAN,
               write : Sessions \cup {None}, failed : SUBSET Sessions, task : TaskRecord]

CheckRecord == [pc : {"none", "sent", "accepted"}, at : Instances \cup {None},
                sid : Sessions \cup {None}, exp : Nat,
                told : {"nothing", "confirmed", "failed here"}, copied : BOOLEAN]

KeysOK(K, R) ==
    /\ K \in [Sessions -> Nat]
    /\ \A s \in Sessions : K[s] # 0 => /\ R[s] # 0
                                       /\ K[s] >= R[s] + ACCESS_TOKEN_TTL
                                       /\ K[s] <= MaxTime + ACCESS_TOKEN_TTL

TablesOK(t, R, A, K) ==
    /\ t \in Nat \ {0} /\ t <= MaxTime
    /\ R \in [Sessions -> Nat] /\ \A s \in Sessions : R[s] <= t
    /\ A \subseteq Sessions /\ \A s \in A : R[s] # 0
    /\ KeysOK(K, R)

TokensOK ==
    /\ exp \in [Sessions -> Nat]
    /\ \A s \in Sessions : exp[s] <= MaxTime + ACCESS_TOKEN_TTL
    /\ faults \in 0 .. MaxFaults

(* No token signed before the revocation of s can get through: the key is  *)
(* there, or all of them have expired.                                     *)
Settled(s, t, R, K) == K[s] # 0 \/ t >= R[s] + ACCESS_TOKEN_TTL

(* The lists of an instance are of revoked sessions, and the TTLs it has   *)
(* computed and not used yet are long enough.                              *)
ListsOK(x, t, R) ==
    /\ x.write # None => R[x.write] # 0
    /\ \A s \in x.failed : R[s] # 0
    /\ \A s \in DOMAIN x.task.found :
        /\ R[s] # 0 /\ x.task.found[s] \in 1 .. ACCESS_TOKEN_TTL
        /\ t + x.task.found[s] >= R[s] + ACCESS_TOKEN_TTL

(* What an instance trusts is there, or its task is about to write it.  A  *)
(* task that began without a connection is the first on the next one.      *)
TrustOK(x, t, R, A, K) ==
    /\ x.conn = "closed" => ~x.copied /\ ~(x.task.current /\ x.task.onConn)
    /\ x.task.pc # "none" /\ ~x.task.onConn => ~x.copied
    /\ x.conn = "open" /\ x.synced /\ x.copied =>
        \A s \in A \cup x.failed : Settled(s, t, R, K)
    /\ x.conn = "open" /\ x.task.pc = "restore" /\ x.task.current /\ x.task.onConn =>
        \A s \in A \cup x.failed : s \in DOMAIN x.task.found \/ Settled(s, t, R, K)

InstOK(x, t, R, A, K) == x \in InstRecord /\ ListsOK(x, t, R) /\ TrustOK(x, t, R, A, K)

(* What is known of a check that is under way; I are the instances.        *)
CheckOK(c, I, t, R, A, K) ==
    /\ c \in CheckRecord
    /\ c.pc # "none" => c.at \in Instances /\ c.sid \in Sessions
    /\ c.pc # "none" /\ c.told = "confirmed" => c.sid \in A
    /\ c.pc # "none" /\ c.told = "failed here" => c.sid \in I[c.at].failed
    /\ c.copied /\ c.told # "nothing" =>
        /\ c.pc = "sent" /\ I[c.at].conn = "open" => Settled(c.sid, t, R, K)
        /\ c.pc = "accepted" => c.exp > R[c.sid] + ACCESS_TOKEN_TTL

InstancesOK(I, t, R, A, K) ==
    I \in [Instances -> InstRecord] /\ \A i \in Instances : InstOK(I[i], t, R, A, K)

DenylistInv ==
    /\ TablesOK(clock, revokedAt, acked, key) /\ KeysOK(saved, revokedAt) /\ TokensOK
    /\ InstancesOK(inst, clock, revokedAt, acked, key)
    /\ CheckOK(check, inst, clock, revokedAt, acked, key)

-----------------------------------------------------------------------------
(* Time passes, revocations are there to stay, and only a restart of Redis *)
(* takes a key away; a revocation is confirmed when its key is there.      *)
Forward(t, R, A, K, t2, R2, A2, K2) ==
    /\ t <= t2
    /\ \A s \in Sessions : R[s] # 0 => R2[s] = R[s]
    /\ \A s \in Sessions : K[s] # 0 => K2[s] # 0
    /\ A \subseteq A2 /\ \A s \in A2 \ A : Settled(s, t2, R2, K2)

LEMMA SettledStays ==
    ASSUME NEW t, NEW R, NEW A, NEW K, NEW t2, NEW R2, NEW A2, NEW K2,
           DenylistAssumption, TablesOK(t, R, A, K), TablesOK(t2, R2, A2, K2),
           Forward(t, R, A, K, t2, R2, A2, K2),
           NEW s \in Sessions, R[s] # 0, Settled(s, t, R, K)
    PROVE  Settled(s, t2, R2, K2)
BY DEF Settled, Forward, TablesOK, KeysOK, DenylistAssumption

LEMMA InstStays ==
    ASSUME NEW t, NEW R, NEW A, NEW K, NEW t2, NEW R2, NEW A2, NEW K2,
           DenylistAssumption, TablesOK(t, R, A, K), TablesOK(t2, R2, A2, K2),
           Forward(t, R, A, K, t2, R2, A2, K2),
           NEW x, InstOK(x, t, R, A, K)
    PROVE  InstOK(x, t2, R2, A2, K2)
<1>1. /\ x \in InstRecord /\ x.failed \subseteq Sessions /\ x.write \in Sessions \cup {None}
      /\ DOMAIN x.task.found \subseteq Sessions
    BY DEF InstOK, InstRecord, TaskRecord
<1>2. ListsOK(x, t2, R2)
    <2>1. x.write # None => R2[x.write] # 0
        BY <1>1 DEF InstOK, ListsOK, Forward
    <2>2. \A s \in x.failed : R2[s] # 0
        BY <1>1 DEF InstOK, ListsOK, Forward
    <2>3. ASSUME NEW s \in DOMAIN x.task.found
          PROVE  /\ R2[s] # 0 /\ x.task.found[s] \in 1 .. ACCESS_TOKEN_TTL
                 /\ t2 + x.task.found[s] >= R2[s] + ACCESS_TOKEN_TTL
        <3>1. /\ s \in Sessions /\ R[s] # 0 /\ x.task.found[s] \in 1 .. ACCESS_TOKEN_TTL
              /\ t + x.task.found[s] >= R[s] + ACCESS_TOKEN_TTL
            BY <1>1, <2>3 DEF InstOK, ListsOK
        <3> QED BY <3>1 DEF Forward, TablesOK, DenylistAssumption
    <2> QED BY <2>1, <2>2, <2>3 DEF ListsOK
<1>3. \A s \in A \cup x.failed : s \in Sessions /\ R[s] # 0
    BY <1>1 DEF TablesOK, InstOK, ListsOK
<1>4. \A s \in A \cup x.failed : Settled(s, t, R, K) => Settled(s, t2, R2, K2)
    BY <1>3, SettledStays
<1>5. \A s \in A2 \ A : Settled(s, t2, R2, K2)
    BY DEF Forward
<1>6. TrustOK(x, t2, R2, A2, K2)
    BY <1>4, <1>5 DEF InstOK, TrustOK
<1> QED BY <1>1, <1>2, <1>6 DEF InstOK

(* A check goes on as it was: no instance forgets a failed write, and none *)
(* gets a connection.                                                      *)
LEMMA CheckStays ==
    ASSUME NEW t, NEW R, NEW A, NEW K, NEW t2, NEW R2, NEW A2, NEW K2,
           DenylistAssumption, TablesOK(t, R, A, K), TablesOK(t2, R2, A2, K2),
           Forward(t, R, A, K, t2, R2, A2, K2),
           NEW I, NEW I2, InstancesOK(I, t, R, A, K),
           \A i \in Instances : /\ I[i].failed \subseteq I2[i].failed
                                /\ I2[i].conn = "open" => I[i].conn = "open",
           NEW c, CheckOK(c, I, t, R, A, K)
    PROVE  CheckOK(c, I2, t2, R2, A2, K2)
<1>1. /\ c \in CheckRecord
      /\ c.pc # "none" => c.at \in Instances /\ c.sid \in Sessions
      /\ c.pc # "none" /\ c.told = "confirmed" => c.sid \in A2
      /\ c.pc # "none" /\ c.told = "failed here" => c.sid \in I2[c.at].failed
    BY DEF CheckOK, Forward
<1>2. ASSUME c.pc # "none", c.told # "nothing" PROVE R[c.sid] # 0
    <2>1. c.told \in {"confirmed", "failed here"}
        BY <1>1, <1>2 DEF CheckRecord
    <2>2. CASE c.told = "confirmed"
        BY <1>2, <2>2 DEF CheckOK, TablesOK
    <2>3. CASE c.told = "failed here"
        BY <1>1, <1>2, <2>3 DEF CheckOK, InstancesOK, InstOK, ListsOK
    <2> QED BY <2>1, <2>2, <2>3
<1>3. ASSUME c.copied, c.told # "nothing", c.pc = "sent", I2[c.at].conn = "open"
      PROVE  Settled(c.sid, t2, R2, K2)
    BY <1>1, <1>2, <1>3, SettledStays DEF CheckOK
<1>4. ASSUME c.copied, c.told # "nothing", c.pc = "accepted"
      PROVE  c.exp > R2[c.sid] + ACCESS_TOKEN_TTL
    BY <1>1, <1>2, <1>4 DEF CheckOK, Forward
<1> QED BY <1>1, <1>3, <1>4 DEF CheckOK

LEMMA NoCheckOK ==
    ASSUME NEW I, NEW t, NEW R, NEW A, NEW K
    PROVE  CheckOK(NoCheck, I, t, R, A, K)
BY DEF CheckOK, NoCheck, CheckRecord

(* What an instance holds is the state of the others as far as the tables  *)
(* go forward.                                                             *)
LEMMA InstancesStep ==
    ASSUME NEW t, NEW R, NEW A, NEW K, NEW t2, NEW R2, NEW A2, NEW K2,
           DenylistAssumption, TablesOK(t, R, A, K), TablesOK(t2, R2, A2, K2),
           Forward(t, R, A, K, t2, R2, A2, K2),
           NEW I, InstancesOK(I, t, R, A, K),
           NEW i \in Instances, NEW v, InstOK(v, t2, R2, A2, K2)
    PROVE  InstancesOK([I EXCEPT ![i] = v], t2, R2, A2, K2)
<1>1. /\ I \in [Instances -> InstRecord] /\ v \in InstRecord
      /\ \A j \in Instances : InstOK(I[j], t2, R2, A2, K2)
    BY InstStays DEF InstancesOK, InstOK
<1> QED BY <1>1 DEF InstancesOK

(* The state of the tables goes forward, and the states of an instance and *)
(* of the check fit in.                                                    *)
Onward == /\ TablesOK(clock', revokedAt', acked', key') /\ KeysOK(saved', revokedAt') /\ TokensOK'
          /\ Forward(clock, revokedAt, acked, key, clock', revokedAt', acked', key')

LEMMA OneInstance ==
    ASSUME DenylistAssumption, DenylistInv, Onward,
           NEW i \in Instances, NEW v, InstOK(v, clock', revokedAt', acked', key'),
           inst' = [inst EXCEPT ![i] = v],
           inst[i].failed \subseteq v.failed, v.conn = "open" => inst[i].conn = "open",
           check' = check \/ check' = NoCheck
    PROVE  DenylistInv'
<1>1. InstancesOK(inst', clock', revokedAt', acked', key')
    BY InstancesStep DEF DenylistInv, Onward
<1>2. \A j \in Instances : /\ inst[j].failed \subseteq inst'[j].failed
                           /\ inst'[j].conn = "open" => inst[j].conn = "open"
    BY DEF DenylistInv, InstancesOK
<1>3. CheckOK(check', inst', clock', revokedAt', acked', key')
    <2>1. CASE check' = check
        BY <1>2, <2>1, CheckStays DEF DenylistInv, Onward
    <2>2. CASE check' = NoCheck
        BY <2>2, NoCheckOK
    <2> QED BY <2>1, <2>2
<1> QED BY <1>1, <1>3 DEF DenylistInv, Onward

LEMMA NoInstance ==
    ASSUME DenylistAssumption, DenylistInv, Onward, inst' = inst,
           check' = check \/ CheckOK(check', inst', clock', revokedAt', acked', key')
    PROVE  DenylistInv'
<1>1. InstancesOK(inst', clock', revokedAt', acked', key')
    BY InstStays DEF DenylistInv, Onward, InstancesOK
<1>2. CheckOK(check', inst', clock', revokedAt', acked', key')
    BY CheckStays DEF DenylistInv, Onward
<1> QED BY <1>1, <1>2 DEF DenylistInv, Onward

LEMMA SameTables ==
    ASSUME DenylistInv, UNCHANGED <<clock, exp, revokedAt, acked, key, saved>>,
           faults' \in 0 .. MaxFaults
    PROVE  Onward
BY DEF DenylistInv, Onward, Forward, TokensOK, TablesOK

LEMMA FaultBound == ASSUME DenylistInv, DenylistAssumption, Fault PROVE faults' \in 0 .. MaxFaults
BY DEF DenylistInv, DenylistAssumption, Fault, TokensOK

-----------------------------------------------------------------------------
LEMMA NoTaskType == NoTask \in TaskRecord
<1>1. <<>> \in [{} -> Nat]
    OBVIOUS
<1>2. <<>> \in UNION {[S -> Nat] : S \in SUBSET Sessions}
    BY <1>1
<1> QED BY <1>2 DEF NoTask, TaskRecord

LEMMA DenylistInit == ASSUME DenylistAssumption, Init PROVE DenylistInv
<1> USE DEF Init, DenylistAssumption
<1>1. TablesOK(clock, revokedAt, acked, key) /\ KeysOK(saved, revokedAt) /\ TokensOK
    BY DEF TablesOK, KeysOK, TokensOK
<1>2. Booted \in InstRecord
    BY NoTaskType DEF Booted, InstRecord
<1>3. InstOK(Booted, clock, revokedAt, acked, key)
    BY <1>2 DEF InstOK, ListsOK, TrustOK, Booted, NoTask
<1>4. InstancesOK(inst, clock, revokedAt, acked, key)
    BY <1>2, <1>3 DEF InstancesOK
<1> QED BY <1>1, <1>4, NoCheckOK DEF DenylistInv

-----------------------------------------------------------------------------
(* Tokens and revocations                                                  *)

LEMMA SignStep ==
    ASSUME DenylistAssumption, DenylistInv, NEW s \in Sessions, Sign(s) PROVE DenylistInv'
<1>1. Onward
    <2>1. /\ clock \in Nat /\ clock <= MaxTime /\ ACCESS_TOKEN_TTL \in Nat /\ MaxTime \in Nat
          /\ exp \in [Sessions -> Nat]
        BY DEF DenylistInv, TablesOK, TokensOK, DenylistAssumption
    <2>2. TokensOK'
        BY <2>1 DEF Sign, DenylistInv, TokensOK
    <2> QED BY <2>2 DEF Sign, DenylistInv, Onward, Forward, TablesOK
<1> QED BY <1>1, NoInstance DEF Sign

LEMMA RevokeStep ==
    ASSUME DenylistAssumption, DenylistInv, NEW i \in Instances, NEW s \in Sessions, Revoke(i, s)
    PROVE  DenylistInv'
<1>1. /\ UNCHANGED <<clock, exp, acked, key, saved, check, faults>>
      /\ revokedAt' = [revokedAt EXCEPT ![s] = IF @ = 0 THEN clock ELSE @]
      /\ clock \in Nat \ {0} /\ revokedAt \in [Sessions -> Nat]
    BY DEF Revoke, DenylistInv, TablesOK
<1>2. \A x \in Sessions : /\ revokedAt[x] # 0 => revokedAt'[x] = revokedAt[x]
                          /\ revokedAt'[x] = 0 \/ revokedAt'[x] = revokedAt[x]
                                               \/ revokedAt'[x] = clock
    BY <1>1
<1>3. revokedAt' \in [Sessions -> Nat] /\ revokedAt'[s] # 0
    BY <1>1
<1>4. Onward
    <2>1. KeysOK(key, revokedAt') /\ KeysOK(saved, revokedAt')
        BY <1>1, <1>2 DEF DenylistInv, TablesOK, KeysOK
    <2>2. TablesOK(clock, revokedAt', acked, key)
        BY <1>1, <1>2, <1>3, <2>1 DEF DenylistInv, TablesOK
    <2>3. TokensOK'
        BY <1>1 DEF DenylistInv, TokensOK
    <2>4. Forward(clock, revokedAt, acked, key, clock, revokedAt', acked, key)
        BY <1>1, <1>2 DEF Forward
    <2> QED BY <1>1, <2>1, <2>2, <2>3, <2>4 DEF Onward
<1> DEFINE v == [inst[i] EXCEPT !.write = s]
<1>5. inst[i] \in InstRecord /\ inst' = [inst EXCEPT ![i] = v]
    BY DEF Revoke, DenylistInv, InstancesOK
<1>6. /\ v \in InstRecord /\ v.write = s /\ v.failed = inst[i].failed /\ v.task = inst[i].task
      /\ v.conn = inst[i].conn /\ v.synced = inst[i].synced /\ v.copied = inst[i].copied
    BY <1>5 DEF InstRecord
<1>7. InstOK(inst[i], clock', revokedAt', acked', key')
    BY <1>4, InstStays DEF DenylistInv, InstancesOK, Onward
<1>8. InstOK(v, clock', revokedAt', acked', key')
    <2> HIDE DEF v
    <2> QED BY <1>3, <1>6, <1>7 DEF InstOK, ListsOK, TrustOK
<1> HIDE DEF v
<1> QED BY <1>1, <1>4, <1>5, <1>6, <1>8, OneInstance

LEMMA WriteKeyStep ==
    ASSUME DenylistAssumption, DenylistInv, NEW i \in Instances, WriteKey(i)
    PROVE  DenylistInv'
<1> DEFINE s == inst[i].write
           v == [inst[i] EXCEPT !.write = None]
<1>1. /\ inst[i] \in InstRecord /\ inst' = [inst EXCEPT ![i] = v]
      /\ s \in Sessions /\ revokedAt[s] # 0
    BY DEF WriteKey, DenylistInv, InstancesOK, InstOK, ListsOK, InstRecord
<1>2. /\ v \in InstRecord /\ v.write = None /\ v.failed = inst[i].failed /\ v.task = inst[i].task
      /\ v.conn = inst[i].conn /\ v.synced = inst[i].synced /\ v.copied = inst[i].copied
    BY <1>1 DEF InstRecord
<1>3. PICK x \in Sessions : x = s
    BY <1>1
<1>4. /\ key' = [key EXCEPT ![x] = clock + ACCESS_TOKEN_TTL] /\ acked' = acked \cup {x}
      /\ UNCHANGED <<clock, exp, revokedAt, saved, check, faults>>
      /\ key \in [Sessions -> Nat] /\ clock \in Nat /\ clock <= MaxTime
      /\ revokedAt \in [Sessions -> Nat] /\ revokedAt[x] <= clock /\ revokedAt[x] # 0
      /\ ACCESS_TOKEN_TTL \in Nat \ {0} /\ MaxTime \in Nat
    BY <1>1, <1>3 DEF WriteKey, DenylistInv, TablesOK, KeysOK, DenylistAssumption
<1>5. key' \in [Sessions -> Nat] /\ key'[x] = clock + ACCESS_TOKEN_TTL
    BY <1>4
<1>6. Onward
    <2>1. KeysOK(key', revokedAt)
        BY <1>4, <1>5 DEF DenylistInv, TablesOK, KeysOK
    <2>2. TablesOK(clock, revokedAt, acked', key')
        BY <1>4, <2>1 DEF DenylistInv, TablesOK
    <2>3. TokensOK'
        BY <1>4 DEF DenylistInv, TokensOK
    <2>4. Forward(clock, revokedAt, acked, key, clock, revokedAt, acked', key')
        BY <1>4, <1>5 DEF Forward, Settled
    <2>5. KeysOK(saved, revokedAt)
        BY DEF DenylistInv
    <2> QED BY <1>4, <2>1, <2>2, <2>3, <2>4, <2>5 DEF Onward
<1> HIDE DEF v
<1>7. InstOK(inst[i], clock', revokedAt', acked', key')
    BY <1>6, InstStays DEF DenylistInv, InstancesOK, Onward
<1>8. InstOK(v, clock', revokedAt', acked', key')
    BY <1>2, <1>7 DEF InstOK, ListsOK, TrustOK
<1> QED BY <1>1, <1>2, <1>4, <1>6, <1>8, OneInstance

LEMMA WriteFailsStep ==
    ASSUME DenylistAssumption, DenylistInv, NEW i \in Instances, WriteFails(i)
    PROVE  DenylistInv'
<1> DEFINE s == inst[i].write
           v == [MarkedOutOfSync(inst[i]) EXCEPT !.write = None, !.failed = inst[i].failed \cup {s}]
<1>1. Onward /\ check' = check
    BY SameTables DEF WriteFails, DenylistInv, TokensOK
<1>2. /\ inst[i] \in InstRecord /\ inst' = [inst EXCEPT ![i] = v]
      /\ s \in Sessions /\ revokedAt[s] # 0 /\ inst[i].conn # "open"
      /\ InstOK(inst[i], clock', revokedAt', acked', key')
      /\ UNCHANGED <<clock, revokedAt, acked, key>>
    <2>1. /\ inst[i] \in InstRecord /\ inst[i].conn # "open" /\ s # None
          /\ UNCHANGED <<clock, revokedAt, acked, key>>
          /\ InstOK(inst[i], clock, revokedAt, acked, key)
        BY DEF WriteFails, DenylistInv, InstancesOK
    <2>2. inst' = [inst EXCEPT ![i] = v]
        BY DEF WriteFails
    <2>3. s \in Sessions /\ revokedAt[s] # 0
        BY <2>1 DEF InstOK, ListsOK, InstRecord
    <2> QED BY <2>1, <2>2, <2>3
<1>3. /\ v.write = None /\ v.failed = inst[i].failed \cup {s}
      /\ v.conn = inst[i].conn /\ v.synced = FALSE /\ v.copied = inst[i].copied
      /\ v.task = [inst[i].task EXCEPT !.current = FALSE]
      /\ v.task.found = inst[i].task.found /\ v.task.current = FALSE
      /\ v.task.pc = inst[i].task.pc /\ v.task.onConn = inst[i].task.onConn
    BY <1>2 DEF InstRecord, TaskRecord, MarkedOutOfSync
<1>4. v \in InstRecord
    <2>1. [inst[i].task EXCEPT !.current = FALSE] \in TaskRecord
        BY <1>2 DEF InstRecord, TaskRecord
    <2>2. MarkedOutOfSync(inst[i]) \in InstRecord
        BY <1>2, <2>1 DEF InstRecord, MarkedOutOfSync
    <2>3. inst[i].failed \cup {s} \in SUBSET Sessions
        BY <1>2 DEF InstRecord
    <2> QED BY <1>2, <1>3, <2>2, <2>3 DEF InstRecord
<1> HIDE DEF v
<1>5. InstOK(v, clock', revokedAt', acked', key')
    <2>1. ListsOK(v, clock', revokedAt')
        BY <1>2, <1>3 DEF InstOK, ListsOK
    <2>2. TrustOK(v, clock', revokedAt', acked', key')
        BY <1>2, <1>3 DEF InstOK, TrustOK
    <2> QED BY <1>4, <2>1, <2>2 DEF InstOK
<1> QED BY <1>1, <1>2, <1>3, <1>5, OneInstance

-----------------------------------------------------------------------------
(* The sync of revoked sessions                                            *)

(* A step of an instance that leaves the tables alone.                     *)
LEMMA SameTablesInst ==
    ASSUME DenylistAssumption, DenylistInv, NEW i \in Instances,
           UNCHANGED <<clock, exp, revokedAt, acked, key, saved>>
    PROVE  /\ inst[i] \in InstRecord /\ inst[i].task \in TaskRecord
           /\ InstOK(inst[i], clock', revokedAt', acked', key')
           /\ faults' \in 0 .. MaxFaults => Onward
           /\ faults \in 0 .. MaxFaults
BY SameTables DEF DenylistInv, InstancesOK, InstRecord, TokensOK

LEMMA LaunchedTask ==
    ASSUME NEW x \in InstRecord, x.task.pc = "none"
    PROVE  /\ Launched(x) \in InstRecord
           /\ Launched(x) = [x EXCEPT !.task = [pc |-> "read", current |-> TRUE,
                                                onConn |-> x.conn # "closed", found |-> <<>>]]
           /\ Launched(x).task.pc = "read" /\ Launched(x).task.found = <<>>
           /\ Launched(x).task.onConn <=> x.conn # "closed"
<1> DEFINE k == [pc |-> "read", current |-> TRUE, onConn |-> x.conn # "closed", found |-> <<>>]
<1>1. <<>> \in [{} -> Nat]
    OBVIOUS
<1>2. <<>> \in UNION {[S -> Nat] : S \in SUBSET Sessions}
    BY <1>1
<1>3. (x.conn # "closed") \in BOOLEAN
    OBVIOUS
<1>4. k \in TaskRecord
    BY <1>2, <1>3 DEF TaskRecord
<1>5. Launched(x) = [x EXCEPT !.task = k]
    BY DEF Launched
<1>6. k.pc = "read" /\ k.found = <<>> /\ (k.onConn <=> x.conn # "closed")
    OBVIOUS
<1> HIDE DEF k
<1>7. Launched(x) \in InstRecord /\ Launched(x).task = k
    BY <1>4, <1>5 DEF InstRecord
<1> QED BY <1>5, <1>6, <1>7 DEF k

(* A launch keeps an instance right.                                       *)
LEMMA LaunchedOK ==
    ASSUME NEW t, NEW R, NEW A, NEW K, NEW x, InstOK(x, t, R, A, K)
    PROVE  /\ InstOK(Launched(x), t, R, A, K)
           /\ Launched(x).failed = x.failed /\ Launched(x).conn = x.conn
<1>1. CASE x.task.pc # "none"
    BY <1>1 DEF Launched
<1>2. CASE x.task.pc = "none"
    <2> DEFINE v == Launched(x)
    <2>1. x \in InstRecord
        BY DEF InstOK
    <2>2. /\ v \in InstRecord /\ v.task.pc = "read" /\ v.task.found = <<>>
          /\ v.task.onConn <=> x.conn # "closed"
        BY <1>2, <2>1, LaunchedTask
    <2>3. /\ v.conn = x.conn /\ v.synced = x.synced /\ v.copied = x.copied
          /\ v.write = x.write /\ v.failed = x.failed
        BY <1>2, <2>1, LaunchedTask DEF InstRecord
    <2> HIDE DEF v
    <2>4. ListsOK(v, t, R) /\ TrustOK(v, t, R, A, K)
        BY <2>2, <2>3 DEF InstOK, ListsOK, TrustOK
    <2> QED BY <2>2, <2>3, <2>4 DEF InstOK, v
<1> QED BY <1>1, <1>2

LEMMA LaunchStep ==
    ASSUME DenylistAssumption, DenylistInv, NEW i \in Instances, Launch(i)
    PROVE  DenylistInv'
<1>1. UNCHANGED <<clock, exp, revokedAt, acked, key, saved>> /\ faults' = faults
    BY DEF Launch
<1>2. Onward /\ InstOK(inst[i], clock', revokedAt', acked', key')
    BY <1>1, SameTablesInst
<1>3. check' = check /\ inst' = [inst EXCEPT ![i] = Launched(inst[i])]
    BY DEF Launch
<1>4. PICK v : v = Launched(inst[i])
    OBVIOUS
<1>5. /\ InstOK(v, clock', revokedAt', acked', key')
      /\ v.failed = inst[i].failed /\ v.conn = inst[i].conn
    BY <1>2, <1>4, LaunchedOK
<1> QED BY <1>2, <1>3, <1>4, <1>5, OneInstance

LEMMA FindStep ==
    ASSUME DenylistAssumption, DenylistInv, NEW i \in Instances, FindRecentlyRevokedSessions(i)
    PROVE  DenylistInv'
<1> DEFINE f == [s \in Recent |-> revokedAt[s] + ACCESS_TOKEN_TTL - clock]
           k == [inst[i].task EXCEPT !.pc = "restore", !.found = f]
           v == [inst[i] EXCEPT !.task = k]
<1>1. UNCHANGED <<clock, exp, revokedAt, acked, key, saved>> /\ faults' = faults
    BY DEF FindRecentlyRevokedSessions
<1>2. /\ Onward /\ InstOK(inst[i], clock', revokedAt', acked', key') /\ inst[i] \in InstRecord
      /\ inst[i].task \in TaskRecord
    BY <1>1, SameTablesInst
<1>3. inst' = [inst EXCEPT ![i] = v] /\ check' = check
    BY DEF FindRecentlyRevokedSessions
<1>4. /\ DOMAIN f = Recent /\ Recent \subseteq Sessions
      /\ \A s \in Recent : /\ f[s] \in 1 .. ACCESS_TOKEN_TTL /\ revokedAt[s] # 0
                           /\ clock + f[s] = revokedAt[s] + ACCESS_TOKEN_TTL
    BY DEF Recent, DenylistInv, TablesOK, DenylistAssumption
<1>5. f \in UNION {[S -> Nat] : S \in SUBSET Sessions}
    <2>1. \A s \in Recent : f[s] \in Nat
        BY <1>4 DEF DenylistAssumption
    <2>2. f \in [Recent -> Nat]
        BY <2>1
    <2> QED BY <1>4, <2>2
<1>6. k \in TaskRecord /\ k.pc = "restore" /\ k.found = f
    <2> HIDE DEF f
    <2> QED BY <1>2, <1>5 DEF TaskRecord
<1>7. /\ k.current = inst[i].task.current /\ k.onConn = inst[i].task.onConn
      /\ inst[i].task.pc # "none"
    BY <1>2 DEF TaskRecord, FindRecentlyRevokedSessions
<1> HIDE DEF f, k
<1>8. /\ v \in InstRecord /\ v.task = k /\ v.conn = inst[i].conn /\ v.synced = inst[i].synced
      /\ v.copied = inst[i].copied /\ v.write = inst[i].write /\ v.failed = inst[i].failed
    BY <1>2, <1>6 DEF InstRecord
<1> HIDE DEF v
<1>9. \A s \in acked \cup v.failed : s \in Recent \/ Settled(s, clock, revokedAt, key)
    <2>1. \A s \in acked \cup v.failed : s \in Sessions /\ revokedAt[s] # 0
        BY <1>1, <1>2, <1>8 DEF DenylistInv, TablesOK, InstOK, InstRecord, ListsOK
    <2> QED BY <2>1 DEF Recent, Settled, DenylistInv, TablesOK, DenylistAssumption
<1>10. ListsOK(v, clock', revokedAt')
    <2>1. /\ v.write # None => revokedAt[v.write] # 0
          /\ \A s \in v.failed : revokedAt[s] # 0
        BY <1>1, <1>2, <1>8 DEF InstOK, ListsOK
    <2>2. \A s \in DOMAIN v.task.found :
            /\ revokedAt[s] # 0 /\ v.task.found[s] \in 1 .. ACCESS_TOKEN_TTL
            /\ clock + v.task.found[s] >= revokedAt[s] + ACCESS_TOKEN_TTL
        BY <1>4, <1>6, <1>8 DEF DenylistInv, TablesOK, DenylistAssumption
    <2> QED BY <1>1, <2>1, <2>2 DEF ListsOK
<1>11. TrustOK(v, clock', revokedAt', acked', key')
    BY <1>1, <1>2, <1>4, <1>6, <1>7, <1>8, <1>9 DEF InstOK, TrustOK
<1> QED BY <1>2, <1>3, <1>8, <1>10, <1>11, OneInstance DEF InstOK

(* NX: a key that is there stays, one that is not is written with the TTL  *)
(* of the list.                                                            *)
LEMMA RestoredKeys ==
    ASSUME DenylistAssumption, DenylistInv, NEW i \in Instances, RestoreRevokedSessions(i)
    PROVE  Onward /\ \A s \in DOMAIN inst[i].task.found : key'[s] # 0
<1> DEFINE D == DOMAIN inst[i].task.found
<1>1. /\ UNCHANGED <<clock, exp, revokedAt, acked, saved, check, faults>>
      /\ clock \in Nat \ {0} /\ clock <= MaxTime /\ revokedAt \in [Sessions -> Nat]
      /\ key \in [Sessions -> Nat] /\ ACCESS_TOKEN_TTL \in Nat \ {0} /\ MaxTime \in Nat
    BY DEF RestoreRevokedSessions, DenylistInv, TablesOK, KeysOK, DenylistAssumption
<1>2. /\ D \subseteq Sessions
      /\ \A s \in D : /\ revokedAt[s] # 0 /\ inst[i].task.found[s] \in 1 .. ACCESS_TOKEN_TTL
                      /\ clock + inst[i].task.found[s] >= revokedAt[s] + ACCESS_TOKEN_TTL
    BY DEF DenylistInv, InstancesOK, InstOK, ListsOK, InstRecord, TaskRecord
<1>3. PICK f : f = inst[i].task.found
    OBVIOUS
<1>4. /\ DOMAIN f \subseteq Sessions
      /\ \A s \in DOMAIN f : /\ revokedAt[s] # 0 /\ f[s] \in 1 .. ACCESS_TOKEN_TTL
                             /\ clock + f[s] >= revokedAt[s] + ACCESS_TOKEN_TTL
      /\ key' = [s \in Sessions |-> IF s \in DOMAIN f /\ ~(clock < key[s])
                                    THEN clock + f[s] ELSE key[s]]
    BY <1>2, <1>3 DEF RestoreRevokedSessions, Live
<1>5. \A s \in Sessions :
        /\ s \in DOMAIN f /\ ~(clock < key[s]) => key'[s] = clock + f[s]
        /\ s \notin DOMAIN f \/ clock < key[s] => key'[s] = key[s]
    BY <1>4
<1>6. /\ key' \in [Sessions -> Nat]
      /\ \A s \in Sessions : key[s] # 0 \/ s \in DOMAIN f => key'[s] # 0
    BY <1>1, <1>4, <1>5
<1>7. KeysOK(key', revokedAt)
    <2>1. SUFFICES ASSUME NEW s \in Sessions, key'[s] # 0
                   PROVE  /\ revokedAt[s] # 0 /\ key'[s] >= revokedAt[s] + ACCESS_TOKEN_TTL
                          /\ key'[s] <= MaxTime + ACCESS_TOKEN_TTL
        BY <1>6 DEF KeysOK
    <2>2. CASE s \in DOMAIN f /\ ~(clock < key[s])
        BY <1>1, <1>4, <1>5, <2>2
    <2>3. CASE s \notin DOMAIN f \/ clock < key[s]
        BY <1>5, <2>1, <2>3 DEF DenylistInv, TablesOK, KeysOK
    <2> QED BY <2>2, <2>3
<1>8. TablesOK(clock, revokedAt, acked, key') /\ KeysOK(saved, revokedAt)
    BY <1>7 DEF DenylistInv, TablesOK
<1>9. Forward(clock, revokedAt, acked, key, clock, revokedAt, acked, key')
    BY <1>1, <1>6 DEF Forward
<1>10. TokensOK'
    BY <1>1 DEF DenylistInv, TokensOK
<1> QED BY <1>1, <1>3, <1>4, <1>6, <1>8, <1>9, <1>10 DEF Onward

LEMMA SyncedFields ==
    ASSUME NEW x \in InstRecord
    PROVE  /\ Synced(x) \in InstRecord /\ Synced(x).task = NoTask
           /\ Synced(x).conn = x.conn /\ Synced(x).failed = x.failed /\ Synced(x).write = x.write
           /\ Synced(x).synced <=> x.synced \/ x.task.current
           /\ Synced(x).copied <=> x.copied \/ (x.task.current /\ x.task.onConn)
<1> DEFINE a == x.synced \/ x.task.current
           b == x.copied \/ (x.task.current /\ x.task.onConn)
<1>1. a \in BOOLEAN /\ b \in BOOLEAN
    OBVIOUS
<1>2. Synced(x) = [x EXCEPT !.synced = a, !.copied = b, !.task = NoTask]
    BY DEF Synced
<1> HIDE DEF a, b
<1>3. /\ Synced(x) \in InstRecord /\ Synced(x).task = NoTask
      /\ Synced(x).conn = x.conn /\ Synced(x).failed = x.failed /\ Synced(x).write = x.write
      /\ Synced(x).synced = a /\ Synced(x).copied = b
    BY <1>1, <1>2, NoTaskType DEF InstRecord
<1> QED BY <1>3 DEF a, b

LEMMA RestoreStep ==
    ASSUME DenylistAssumption, DenylistInv, NEW i \in Instances, RestoreRevokedSessions(i)
    PROVE  DenylistInv'
<1>1. Onward /\ \A s \in DOMAIN inst[i].task.found : key'[s] # 0
    BY RestoredKeys
<1>2. /\ check' = check /\ inst' = [inst EXCEPT ![i] = Synced(inst[i])]
      /\ inst[i].task.pc = "restore"
    BY DEF RestoreRevokedSessions
<1>3. inst[i] \in InstRecord /\ InstOK(inst[i], clock', revokedAt', acked', key')
    BY <1>1, InstStays DEF DenylistInv, InstancesOK, Onward
<1>4. PICK v : v = Synced(inst[i])
    OBVIOUS
<1>5. /\ v \in InstRecord /\ v.task = NoTask
      /\ v.conn = inst[i].conn /\ v.failed = inst[i].failed /\ v.write = inst[i].write
      /\ v.synced <=> inst[i].synced \/ inst[i].task.current
      /\ v.copied <=> inst[i].copied \/ (inst[i].task.current /\ inst[i].task.onConn)
    BY <1>3, <1>4, SyncedFields
<1>6. NoTask.found = <<>> /\ NoTask.current = FALSE /\ NoTask.pc = "none"
    BY DEF NoTask
<1>7. ListsOK(v, clock', revokedAt')
    BY <1>3, <1>5, <1>6 DEF InstOK, ListsOK
<1>8. ASSUME v.conn = "open", v.synced, v.copied, NEW s \in acked' \cup v.failed
      PROVE  Settled(s, clock', revokedAt', key')
    <2>1. CASE inst[i].synced /\ inst[i].copied
        BY <1>3, <1>5, <1>8, <2>1 DEF InstOK, TrustOK
    <2>2. CASE inst[i].task.current /\ inst[i].task.onConn
        <3>1. s \in DOMAIN inst[i].task.found \/ Settled(s, clock', revokedAt', key')
            BY <1>2, <1>3, <1>5, <1>8, <2>2 DEF InstOK, TrustOK
        <3> QED BY <1>1, <3>1 DEF Settled
    <2>3. inst[i].copied => inst[i].task.onConn
        BY <1>2, <1>3 DEF InstOK, TrustOK
    <2> QED BY <1>5, <1>8, <2>1, <2>2, <2>3
<1>9. TrustOK(v, clock', revokedAt', acked', key')
    BY <1>3, <1>5, <1>6, <1>8 DEF InstOK, TrustOK
<1>10. InstOK(v, clock', revokedAt', acked', key')
    BY <1>5, <1>7, <1>9 DEF InstOK
<1> QED BY <1>1, <1>2, <1>4, <1>5, <1>10, OneInstance

(* An instance that has lost its task, its synchrony or both, and maybe    *)
(* its connection, has nothing to answer for.                              *)
LEMMA LessTrust ==
    ASSUME NEW t, NEW R, NEW A, NEW K, NEW x, InstOK(x, t, R, A, K),
           NEW v \in InstRecord, v.write \in {x.write, None}, v.failed = x.failed,
           v.copied => x.copied, v.conn = "closed" => ~v.copied /\ ~(v.task.current /\ v.task.onConn),
           v.conn \in {x.conn, "broken", "closed"},
           v.synced => x.synced,
           \/ v.task = NoTask
           \/ v.task = x.task
           \/ v.task = [x.task EXCEPT !.current = FALSE]
    PROVE  InstOK(v, t, R, A, K)
<1>1. /\ NoTask.found = <<>> /\ NoTask.current = FALSE /\ NoTask.pc = "none"
      /\ x \in InstRecord /\ x.task \in TaskRecord
    BY DEF NoTask, InstOK, InstRecord
<1>2. /\ v.task.found \in {<<>>, x.task.found}
      /\ v.task.current => x.task.current /\ v.task = x.task
      /\ v.task.pc # "none" => v.task.pc = x.task.pc /\ v.task.onConn = x.task.onConn
    BY <1>1 DEF TaskRecord
<1>3. ListsOK(v, t, R)
    BY <1>2 DEF InstOK, ListsOK
<1>4. TrustOK(v, t, R, A, K)
    BY <1>2 DEF InstOK, TrustOK
<1> QED BY <1>3, <1>4 DEF InstOK

LEMMA RestoreFailsStep ==
    ASSUME DenylistAssumption, DenylistInv, NEW i \in Instances, RestoreFails(i)
    PROVE  DenylistInv'
<1> DEFINE v == [MarkedOutOfSync(inst[i]) EXCEPT !.task = NoTask]
<1>1. UNCHANGED <<clock, exp, revokedAt, acked, key, saved>> /\ faults' = faults
    BY DEF RestoreFails
<1>2. Onward /\ InstOK(inst[i], clock', revokedAt', acked', key') /\ inst[i] \in InstRecord
    BY <1>1, SameTablesInst
<1>3. check' = check /\ inst' = [inst EXCEPT ![i] = v]
    BY DEF RestoreFails
<1>4. /\ v \in InstRecord /\ v.write = inst[i].write /\ v.failed = inst[i].failed
      /\ v.copied = inst[i].copied /\ v.conn = inst[i].conn /\ v.synced = FALSE /\ v.task = NoTask
    BY <1>2, NoTaskType DEF InstRecord, MarkedOutOfSync
<1> HIDE DEF v
<1>5. v.conn = "closed" => ~v.copied /\ ~(v.task.current /\ v.task.onConn)
    <2>1. v.task.current = FALSE
        BY <1>4 DEF NoTask
    <2> QED BY <1>2, <1>4, <2>1 DEF InstOK, TrustOK
<1>6. InstOK(v, clock', revokedAt', acked', key')
    BY <1>2, <1>4, <1>5, LessTrust
<1> QED BY <1>2, <1>3, <1>4, <1>6, OneInstance

LEMMA ReadFailsStep ==
    ASSUME DenylistAssumption, DenylistInv, NEW i \in Instances, ReadFails(i)
    PROVE  DenylistInv'
<1> DEFINE v == [inst[i] EXCEPT !.task = NoTask]
<1>1. UNCHANGED <<clock, exp, revokedAt, acked, key, saved>> /\ faults' \in 0 .. MaxFaults
    BY FaultBound DEF ReadFails
<1>2. Onward /\ InstOK(inst[i], clock', revokedAt', acked', key') /\ inst[i] \in InstRecord
    BY <1>1, SameTablesInst
<1>3. check' = check /\ inst' = [inst EXCEPT ![i] = v]
    BY DEF ReadFails
<1>4. /\ v \in InstRecord /\ v.write = inst[i].write /\ v.failed = inst[i].failed
      /\ v.copied = inst[i].copied /\ v.conn = inst[i].conn /\ v.synced = inst[i].synced
      /\ v.task = NoTask
    BY <1>2, NoTaskType DEF InstRecord
<1> HIDE DEF v
<1>5. v.conn = "closed" => ~v.copied /\ ~(v.task.current /\ v.task.onConn)
    <2>1. v.task.current = FALSE
        BY <1>4 DEF NoTask
    <2> QED BY <1>2, <1>4, <2>1 DEF InstOK, TrustOK
<1>6. InstOK(v, clock', revokedAt', acked', key')
    BY <1>2, <1>4, <1>5, LessTrust
<1> QED BY <1>2, <1>3, <1>4, <1>6, OneInstance

-----------------------------------------------------------------------------
(* The check of a token                                                    *)

LEMMA AuthenticateStep ==
    ASSUME DenylistAssumption, DenylistInv, NEW i \in Instances, NEW s \in Sessions,
           Authenticate(i, s)
    PROVE  DenylistInv'
<1>1. /\ UNCHANGED <<clock, exp, revokedAt, acked, key, saved>> /\ faults' = faults
      /\ inst' = inst /\ inst[i].synced
    BY DEF Authenticate
<1>2. Onward /\ InstOK(inst[i], clock', revokedAt', acked', key') /\ inst[i] \in InstRecord
    BY <1>1, SameTablesInst
<1>3. PICK c : c = [pc |-> "sent", at |-> i, sid |-> s, exp |-> exp[s], told |-> Told(i, s),
                    copied |-> inst[i].copied]
    OBVIOUS
<1>4. /\ Told(i, s) \in {"nothing", "confirmed", "failed here"}
      /\ Told(i, s) = "confirmed" => s \in acked
      /\ Told(i, s) = "failed here" => s \in inst[i].failed
    BY DEF Told
<1>5. exp[s] \in Nat /\ inst[i].copied \in BOOLEAN
    BY <1>2 DEF DenylistInv, TokensOK, InstRecord
<1>6. /\ c.pc = "sent" /\ c.at = i /\ c.sid = s /\ c.told = Told(i, s) /\ c.copied = inst[i].copied
      /\ c \in CheckRecord
    BY <1>3, <1>4, <1>5 DEF CheckRecord
<1>7. ASSUME c.copied, c.told # "nothing", inst[i].conn = "open"
      PROVE  Settled(s, clock', revokedAt', key')
    <2>1. s \in acked' \cup inst[i].failed
        BY <1>1, <1>4, <1>6, <1>7
    <2> QED BY <1>1, <1>2, <1>6, <1>7, <2>1 DEF InstOK, TrustOK
<1>8. CheckOK(c, inst', clock', revokedAt', acked', key')
    BY <1>1, <1>4, <1>6, <1>7 DEF CheckOK
<1>9. check' = c
    BY <1>3 DEF Authenticate
<1> QED BY <1>1, <1>2, <1>8, <1>9, NoInstance

(* The answer of Redis lets a token through that is newer than the         *)
(* revocation, or nothing was known of one.                                *)
LEMMA ExistsStep ==
    ASSUME DenylistAssumption, DenylistInv, Exists PROVE DenylistInv'
<1>1. /\ UNCHANGED <<clock, exp, revokedAt, acked, key, saved>> /\ faults' = faults
      /\ inst' = inst /\ check.pc = "sent" /\ inst[check.at].conn = "open"
    BY DEF Exists
<1>2. Onward
    BY <1>1, SameTables DEF DenylistInv, TokensOK
<1>3. CASE check' = NoCheck
    BY <1>1, <1>2, <1>3, NoCheckOK, NoInstance
<1>4. CASE ~(Live(check.sid) \/ clock >= check.exp)
    <2>1. PICK c : c = check
        OBVIOUS
    <2>2. PICK d : d = [c EXCEPT !.pc = "accepted"]
        OBVIOUS
    <2>3. /\ c \in CheckRecord /\ c.at \in Instances /\ c.sid \in Sessions /\ c.pc = "sent"
          /\ c.told = "confirmed" => c.sid \in acked
          /\ c.told = "failed here" => c.sid \in inst[c.at].failed
          /\ c.copied /\ c.told # "nothing" => Settled(c.sid, clock, revokedAt, key)
        BY <1>1, <2>1 DEF DenylistInv, CheckOK
    <2>4. /\ d \in CheckRecord /\ d.pc = "accepted" /\ d.at = c.at /\ d.sid = c.sid
          /\ d.exp = c.exp /\ d.told = c.told /\ d.copied = c.copied
        BY <2>2, <2>3 DEF CheckRecord
    <2>5. c.exp \in Nat /\ ~(clock < key[c.sid]) /\ ~(clock >= c.exp)
        BY <1>4, <2>1, <2>3 DEF CheckRecord, Live
    <2>6. d.copied /\ d.told # "nothing" => d.exp > revokedAt[d.sid] + ACCESS_TOKEN_TTL
        <3>1. /\ key[c.sid] \in Nat /\ revokedAt[c.sid] \in Nat /\ clock \in Nat
              /\ key[c.sid] # 0 => key[c.sid] >= revokedAt[c.sid] + ACCESS_TOKEN_TTL
              /\ ACCESS_TOKEN_TTL \in Nat
            BY <2>3 DEF DenylistInv, TablesOK, KeysOK, DenylistAssumption
        <3>2. Settled(c.sid, clock, revokedAt, key) => c.exp > revokedAt[c.sid] + ACCESS_TOKEN_TTL
            BY <2>5, <3>1 DEF Settled
        <3> QED BY <2>3, <2>4, <3>2
    <2>7. CheckOK(d, inst', clock', revokedAt', acked', key')
        BY <1>1, <2>3, <2>4, <2>6 DEF CheckOK
    <2>8. check' = d
        BY <1>4, <2>1, <2>2 DEF Exists
    <2> QED BY <1>1, <1>2, <2>7, <2>8, NoInstance
<1> QED BY <1>3, <1>4 DEF Exists

LEMMA ExistsFailsStep ==
    ASSUME DenylistAssumption, DenylistInv, ExistsFails PROVE DenylistInv'
<1>1. /\ UNCHANGED <<clock, exp, revokedAt, acked, key, saved>> /\ faults' = faults
      /\ inst' = inst /\ check' = NoCheck
    BY DEF ExistsFails
<1>2. Onward
    BY <1>1, SameTables DEF DenylistInv, TokensOK
<1> QED BY <1>1, <1>2, NoCheckOK, NoInstance

-----------------------------------------------------------------------------
(* Connections, Redis, processes and time                                  *)

LEMMA DropStep ==
    ASSUME DenylistAssumption, DenylistInv, NEW i \in Instances, DropConnection(i)
    PROVE  DenylistInv'
<1> DEFINE v == [inst[i] EXCEPT !.conn = "broken"]
<1>1. UNCHANGED <<clock, exp, revokedAt, acked, key, saved>> /\ faults' \in 0 .. MaxFaults
    BY FaultBound DEF DropConnection
<1>2. Onward /\ InstOK(inst[i], clock', revokedAt', acked', key') /\ inst[i] \in InstRecord
    BY <1>1, SameTablesInst
<1>3. check' = check /\ inst' = [inst EXCEPT ![i] = v]
    BY DEF DropConnection
<1>4. /\ v \in InstRecord /\ v.write = inst[i].write /\ v.failed = inst[i].failed
      /\ v.copied = inst[i].copied /\ v.conn = "broken" /\ v.synced = inst[i].synced
      /\ v.task = inst[i].task
    BY <1>2 DEF InstRecord
<1> HIDE DEF v
<1>5. InstOK(v, clock', revokedAt', acked', key')
    BY <1>2, <1>4, LessTrust
<1> QED BY <1>2, <1>3, <1>4, <1>5, OneInstance

LEMMA CloseStep ==
    ASSUME DenylistAssumption, DenylistInv, NEW i \in Instances, Close(i)
    PROVE  DenylistInv'
<1> DEFINE v == [MarkedOutOfSync(inst[i]) EXCEPT !.conn = "closed", !.copied = FALSE]
<1>1. UNCHANGED <<clock, exp, revokedAt, acked, key, saved>> /\ faults' \in 0 .. MaxFaults
    BY FaultBound DEF Close, DenylistInv, TokensOK
<1>2. /\ Onward /\ InstOK(inst[i], clock', revokedAt', acked', key') /\ inst[i] \in InstRecord
      /\ inst[i].task \in TaskRecord
    BY <1>1, SameTablesInst
<1>3. check' = check /\ inst' = [inst EXCEPT ![i] = v]
    BY DEF Close
<1>4. [inst[i].task EXCEPT !.current = FALSE] \in TaskRecord
    BY <1>2 DEF TaskRecord
<1>5. /\ MarkedOutOfSync(inst[i]) \in InstRecord
      /\ MarkedOutOfSync(inst[i]).task = [inst[i].task EXCEPT !.current = FALSE]
    BY <1>2, <1>4 DEF InstRecord, MarkedOutOfSync
<1>6. /\ v \in InstRecord /\ v.write = inst[i].write /\ v.failed = inst[i].failed
      /\ v.copied = FALSE /\ v.conn = "closed" /\ v.synced = FALSE
      /\ v.task = [inst[i].task EXCEPT !.current = FALSE]
    BY <1>2, <1>5 DEF InstRecord, MarkedOutOfSync
<1>7. v.task.current = FALSE
    BY <1>2, <1>6 DEF TaskRecord
<1> HIDE DEF v
<1>8. InstOK(v, clock', revokedAt', acked', key')
    BY <1>2, <1>6, <1>7, LessTrust
<1> QED BY <1>2, <1>3, <1>6, <1>8, OneInstance

LEMMA ReadyStep ==
    ASSUME DenylistAssumption, DenylistInv, NEW i \in Instances, Ready(i)
    PROVE  DenylistInv'
<1> DEFINE x == [inst[i] EXCEPT !.conn = "open", !.copied = FALSE]
<1>1. UNCHANGED <<clock, exp, revokedAt, acked, key, saved>> /\ faults' = faults
    BY DEF Ready
<1>2. /\ Onward /\ InstOK(inst[i], clock', revokedAt', acked', key') /\ inst[i] \in InstRecord
      /\ inst[i].conn = "closed"
    BY <1>1, SameTablesInst DEF Ready
<1>3. inst' = [inst EXCEPT ![i] = Launched(x)]
    BY DEF Ready
<1>4. /\ x \in InstRecord /\ x.write = inst[i].write /\ x.failed = inst[i].failed
      /\ x.copied = FALSE /\ x.conn = "open" /\ x.synced = inst[i].synced
      /\ x.task = inst[i].task
    BY <1>2 DEF InstRecord
<1> HIDE DEF x
<1>5. InstOK(x, clock', revokedAt', acked', key')
    BY <1>2, <1>4 DEF InstOK, ListsOK, TrustOK
<1>6. PICK v : v = Launched(x)
    OBVIOUS
<1>7. InstOK(v, clock', revokedAt', acked', key') /\ v.failed = inst[i].failed
    BY <1>4, <1>5, <1>6, LaunchedOK
<1>8. InstancesOK(inst', clock', revokedAt', acked', key')
    BY <1>2, <1>3, <1>6, <1>7, InstancesStep DEF DenylistInv, Onward
<1>9. inst'[i].failed = inst[i].failed /\ \A j \in Instances \ {i} : inst'[j] = inst[j]
    BY <1>3, <1>6, <1>7 DEF DenylistInv, InstancesOK
<1>10. PICK b : b = (check.copied /\ ~(check.pc = "sent" /\ check.at = i))
    OBVIOUS
<1>11. b \in BOOLEAN /\ (b <=> check.copied /\ ~(check.pc = "sent" /\ check.at = i))
    BY <1>10
<1>12. check \in CheckRecord /\ check' = [check EXCEPT !.copied = b]
    BY <1>10 DEF Ready, DenylistInv, CheckOK
<1>13. /\ check' \in CheckRecord /\ check'.pc = check.pc /\ check'.at = check.at
       /\ check'.sid = check.sid /\ check'.told = check.told /\ check'.exp = check.exp
       /\ check'.copied = b
    BY <1>11, <1>12 DEF CheckRecord
<1>14. CheckOK(check', inst', clock', revokedAt', acked', key')
    <2>1. /\ check'.pc # "none" => check'.at \in Instances /\ check'.sid \in Sessions
          /\ check'.pc # "none" /\ check'.told = "confirmed" => check'.sid \in acked'
          /\ check'.pc # "none" /\ check'.told = "failed here" =>
                check'.sid \in inst'[check'.at].failed
        BY <1>1, <1>9, <1>13 DEF DenylistInv, CheckOK
    <2>2. ASSUME check'.copied, check'.told # "nothing", check'.pc = "sent",
                 inst'[check'.at].conn = "open"
          PROVE  Settled(check'.sid, clock', revokedAt', key')
        BY <1>1, <1>9, <1>11, <1>13, <2>2 DEF DenylistInv, CheckOK
    <2>3. ASSUME check'.copied, check'.told # "nothing", check'.pc = "accepted"
          PROVE  check'.exp > revokedAt'[check'.sid] + ACCESS_TOKEN_TTL
        BY <1>1, <1>11, <1>13, <2>3 DEF DenylistInv, CheckOK
    <2> QED BY <1>13, <2>1, <2>2, <2>3 DEF CheckOK
<1> QED BY <1>2, <1>8, <1>14 DEF DenylistInv, Onward

LEMMA CrashStep ==
    ASSUME DenylistAssumption, DenylistInv, NEW i \in Instances, CrashInstance(i)
    PROVE  DenylistInv'
<1> DEFINE v == [Booted EXCEPT !.failed = inst[i].failed]
<1>1. UNCHANGED <<clock, exp, revokedAt, acked, key, saved>> /\ faults' \in 0 .. MaxFaults
    BY FaultBound DEF CrashInstance
<1>2. Onward /\ InstOK(inst[i], clock', revokedAt', acked', key') /\ inst[i] \in InstRecord
    BY <1>1, SameTablesInst
<1>3. /\ check' = check \/ check' = NoCheck
      /\ inst' = [inst EXCEPT ![i] = v]
    BY DEF CrashInstance
<1>4. Booted \in InstRecord /\ Booted.conn = "closed" /\ Booted.task = NoTask /\ Booted.write = None
      /\ Booted.synced = FALSE /\ Booted.copied = FALSE
    BY NoTaskType DEF Booted, InstRecord
<1>5. /\ v \in InstRecord /\ v.write = None /\ v.failed = inst[i].failed
      /\ v.copied = FALSE /\ v.conn = "closed" /\ v.synced = FALSE /\ v.task = NoTask
    BY <1>2, <1>4 DEF InstRecord
<1>6. v.task.current = FALSE
    BY <1>5 DEF NoTask
<1> HIDE DEF v
<1>7. InstOK(v, clock', revokedAt', acked', key')
    BY <1>2, <1>5, <1>6, LessTrust
<1> QED BY <1>2, <1>3, <1>5, <1>7, OneInstance

(* Redis may lose any key that is not on disk; nobody is connected then.   *)
LEMMA RestartStep ==
    ASSUME DenylistAssumption, DenylistInv, RestartRedis PROVE DenylistInv'
<1>1. /\ UNCHANGED <<clock, exp, revokedAt, acked, check>> /\ faults' \in 0 .. MaxFaults
      /\ saved' = key'
    BY FaultBound DEF RestartRedis
<1>2. key \in [Sessions -> Nat] /\ saved \in [Sessions -> Nat] /\ inst \in [Instances -> InstRecord]
    BY DEF DenylistInv, TablesOK, KeysOK, InstancesOK
<1>3. PICK lost \in SUBSET Sessions :
        key' = [s \in Sessions |-> IF s \in lost THEN saved[s] ELSE key[s]]
    BY DEF RestartRedis
<1>4. KeysOK(key', revokedAt')
    <2>1. \A s \in Sessions : key'[s] = key[s] \/ key'[s] = saved[s]
        BY <1>3
    <2>2. key' \in [Sessions -> Nat]
        BY <1>2, <1>3
    <2> QED BY <1>1, <2>1, <2>2 DEF DenylistInv, TablesOK, KeysOK
<1>5. TablesOK(clock', revokedAt', acked', key') /\ KeysOK(saved', revokedAt') /\ TokensOK'
    BY <1>1, <1>4 DEF DenylistInv, TablesOK, TokensOK
<1>6. ASSUME NEW i \in Instances
      PROVE  /\ InstOK(inst'[i], clock', revokedAt', acked', key') /\ inst'[i].conn # "open"
             /\ inst'[i].failed = inst[i].failed
    <2>1. PICK x : x = inst[i]
        OBVIOUS
    <2>2. PICK v : v = [x EXCEPT !.conn = IF x.conn = "open" THEN "broken" ELSE x.conn]
        OBVIOUS
    <2>3. inst'[i] = v
        BY <2>1, <2>2 DEF RestartRedis
    <2>4. x \in InstRecord /\ InstOK(x, clock', revokedAt', acked', key)
        BY <1>1, <2>1 DEF DenylistInv, InstancesOK, InstOK
    <2>5. /\ v \in InstRecord /\ v.write = x.write /\ v.failed = x.failed /\ v.synced = x.synced
          /\ v.copied = x.copied /\ v.task = x.task
          /\ v.conn = IF x.conn = "open" THEN "broken" ELSE x.conn
        BY <2>2, <2>4 DEF InstRecord
    <2>6. ListsOK(v, clock', revokedAt')
        BY <2>4, <2>5 DEF InstOK, ListsOK
    <2>7. TrustOK(v, clock', revokedAt', acked', key')
        BY <2>4, <2>5 DEF InstOK, TrustOK
    <2> QED BY <2>1, <2>3, <2>5, <2>6, <2>7 DEF InstOK
<1>7. inst' \in [Instances -> InstRecord]
    <2>1. inst' = [i \in Instances |-> inst'[i]]
        BY DEF RestartRedis
    <2>2. \A i \in Instances : inst'[i] \in InstRecord
        BY <1>6 DEF InstOK
    <2> QED BY <2>1, <2>2
<1>8. CheckOK(check', inst', clock', revokedAt', acked', key')
    <2>1. CheckOK(check, inst, clock, revokedAt, acked, key)
        BY DEF DenylistInv
    <2>2. ~(check.pc = "sent" /\ inst'[check.at].conn = "open")
        BY <1>6, <2>1 DEF CheckOK
    <2> QED BY <1>1, <1>6, <2>1, <2>2 DEF CheckOK
<1> QED BY <1>5, <1>6, <1>7, <1>8 DEF DenylistInv, InstancesOK

LEMMA TickStep == ASSUME DenylistAssumption, DenylistInv, Tick PROVE DenylistInv'
<1>1. Onward
    BY DEF Tick, DenylistInv, Onward, TablesOK, Forward, TokensOK, DenylistAssumption
<1> QED BY <1>1, NoInstance DEF Tick

-----------------------------------------------------------------------------
LEMMA DenylistNext ==
    ASSUME DenylistAssumption, DenylistInv, [Next]_vars PROVE DenylistInv'
<1>1. CASE UNCHANGED vars
    BY <1>1 DEF vars, DenylistInv, TokensOK
<1>2. ASSUME NEW s \in Sessions, Sign(s) \/ \E i \in Instances : Revoke(i, s) \/ Authenticate(i, s)
      PROVE  DenylistInv'
    BY <1>2, SignStep, RevokeStep, AuthenticateStep
<1>3. ASSUME NEW i \in Instances, WriteKey(i) \/ WriteFails(i) PROVE DenylistInv'
    BY <1>3, WriteKeyStep, WriteFailsStep
<1>4. ASSUME NEW i \in Instances, TaskStep(i) \/ ReadFails(i) \/ RestoreFails(i)
      PROVE  DenylistInv'
    BY <1>4, LaunchStep, FindStep, RestoreStep, ReadFailsStep, RestoreFailsStep DEF TaskStep
<1>5. ASSUME NEW i \in Instances, ConnectionStep(i) \/ DropConnection(i) \/ CrashInstance(i)
      PROVE  DenylistInv'
    BY <1>5, CloseStep, ReadyStep, DropStep, CrashStep DEF ConnectionStep
<1>6. CASE Exists \/ ExistsFails \/ RestartRedis \/ Tick
    BY <1>6, ExistsStep, ExistsFailsStep, RestartStep, TickStep
<1> QED BY <1>1, <1>2, <1>3, <1>4, <1>5, <1>6 DEF Next

LEMMA DenylistInvHolds == ASSUME DenylistAssumption, DenylistInv PROVE DenylistHolds
<1>1. ASSUME NEW s \in Sessions, Settled(s, clock, revokedAt, key)
      PROVE  Live(s) \/ clock >= revokedAt[s] + ACCESS_TOKEN_TTL
    BY <1>1 DEF Settled, Live, DenylistInv, TablesOK, KeysOK, DenylistAssumption
<1>2. TypeOK
    <2>1. clock \in 1..MaxTime /\ faults \in 0..MaxFaults /\ acked \subseteq Sessions
        BY DEF DenylistInv, TablesOK, TokensOK, DenylistAssumption
    <2>2. exp \in [Sessions -> 0..(MaxTime + ACCESS_TOKEN_TTL)]
        BY DEF DenylistInv, TokensOK, DenylistAssumption
    <2>3. revokedAt \in [Sessions -> 0..MaxTime]
        BY DEF DenylistInv, TablesOK, DenylistAssumption
    <2>4. /\ key \in [Sessions -> 0..(MaxTime + ACCESS_TOKEN_TTL)]
          /\ saved \in [Sessions -> 0..(MaxTime + ACCESS_TOKEN_TTL)]
        BY DEF DenylistInv, TablesOK, KeysOK, DenylistAssumption
    <2>5. ASSUME NEW i \in Instances
          PROVE  /\ inst[i].conn \in {"open", "broken", "closed"}
                 /\ inst[i].synced \in BOOLEAN /\ inst[i].copied \in BOOLEAN
                 /\ inst[i].write \in Sessions \cup {None} /\ inst[i].failed \subseteq Sessions
                 /\ inst[i].task.pc \in {"none", "read", "restore"}
                 /\ \A s \in DOMAIN inst[i].task.found :
                        inst[i].task.found[s] \in 1..ACCESS_TOKEN_TTL
        BY DEF DenylistInv, InstancesOK, InstOK, ListsOK, InstRecord, TaskRecord
    <2>6. check.pc \in {"none", "sent", "accepted"} /\ check.sid \in Sessions \cup {None}
        BY DEF DenylistInv, CheckOK, CheckRecord
    <2> QED BY <2>1, <2>2, <2>3, <2>4, <2>5, <2>6 DEF TypeOK
<1>3. SyncedMeansComplete
    <2>1. SUFFICES ASSUME NEW i \in Instances, inst[i].synced, inst[i].copied,
                          inst[i].conn = "open", NEW s \in acked \cup inst[i].failed
                   PROVE  Live(s) \/ clock >= revokedAt[s] + ACCESS_TOKEN_TTL
        BY DEF SyncedMeansComplete
    <2>2. s \in Sessions
        BY DEF DenylistInv, TablesOK, InstancesOK, InstRecord
    <2>3. Settled(s, clock, revokedAt, key)
        BY <2>1 DEF DenylistInv, InstancesOK, InstOK, TrustOK
    <2> QED BY <1>1, <2>2, <2>3
<1>4. RevokedIsRefused
    <2>1. ASSUME AcceptedOldToken, check.copied, check.told # "nothing" PROVE FALSE
        <3>1. /\ check.pc = "accepted" /\ check.exp <= revokedAt[check.sid] + ACCESS_TOKEN_TTL
            BY <2>1 DEF AcceptedOldToken
        <3>2. /\ check.exp > revokedAt[check.sid] + ACCESS_TOKEN_TTL
              /\ check.sid \in Sessions /\ check.exp \in Nat
            BY <2>1, <3>1 DEF DenylistInv, CheckOK, CheckRecord
        <3>3. revokedAt[check.sid] \in Nat /\ ACCESS_TOKEN_TTL \in Nat
            BY <3>2 DEF DenylistInv, TablesOK, DenylistAssumption
        <3> QED BY <3>1, <3>2, <3>3
    <2> QED BY <2>1 DEF RevokedIsRefused
<1> QED BY <1>2, <1>3, <1>4 DEF DenylistHolds

(* AccessDenylist and AuthMaintenance: whatever Redis loses, whichever     *)
(* connection breaks and whichever instance dies between any two of their  *)
(* steps, an instance that trusts its denylist on a connection that was    *)
(* copied to finds every confirmed revocation there, and a token signed    *)
(* before a known revocation is not accepted; for any number of instances, *)
(* sessions and faults and any life of a token.                            *)
THEOREM DenylistStaysTrue == Spec => []DenylistHolds
<1> USE ApiAssumption
<1>1. Init => DenylistInv
    BY DenylistInit
<1>2. DenylistInv /\ [Next]_vars => DenylistInv'
    BY DenylistNext
<1>3. DenylistInv => DenylistHolds
    BY DenylistInvHolds
<1> QED BY <1>1, <1>2, <1>3, PTL DEF Spec

-----------------------------------------------------------------------------
(* Order events                                                            *)

ChangeRecord == {Events!Idle} \cup [order : Orders, status : Events!Status]

(* The changes of o so far and its events so far differ by the one change  *)
(* that is between its COMMIT and its event.                               *)
CommitsOK(o, C, L, X) ==
    \/ C[o] = L[o] /\ \A c \in Changers : X[c].order # o
    \/ \E c \in Changers :
        /\ X[c].order = o /\ C[o] = Append(L[o], X[c].status)
        /\ \A d \in Changers : X[d].order = o => d = c

CommitsInv ==
    /\ committed \in [Orders -> Seq(Events!Status)] /\ log \in [Orders -> Seq(Events!Status)]
    /\ change \in [Changers -> ChangeRecord]
    /\ \A o \in Orders \ mixed : CommitsOK(o, committed, log, change)

LEMMA IdleChange ==
    ASSUME NEW x \in ChangeRecord
    PROVE  /\ Events!Idle.order = None /\ None \notin Orders
           /\ x.order # None => x.order \in Orders /\ x.status \in Events!Status
BY ApiAssumption DEF Events!EventsAssumption, Events!Idle, ChangeRecord

LEMMA CommitsStart == Events!Init => CommitsInv
<1> SUFFICES ASSUME Events!Init PROVE CommitsInv
    OBVIOUS
<1>1. /\ committed \in [Orders -> Seq(Events!Status)] /\ log = committed
      /\ change = [c \in Changers |-> Events!Idle]
    BY DEF Events!Init
<1>2. change \in [Changers -> ChangeRecord] /\ \A c \in Changers : change[c].order = None
    BY <1>1 DEF ChangeRecord, Events!Idle
<1> QED BY <1>1, <1>2, ApiAssumption DEF CommitsInv, CommitsOK, Events!EventsAssumption

(* The COMMIT of a change.                                                 *)
LEMMA ChangeStatusStep ==
    ASSUME CommitsInv, NEW c \in Changers, NEW o \in Orders, NEW s \in Events!Status,
           Events!ChangeStatus(c, o, s)
    PROVE  CommitsInv'
<1>1. /\ change[c] = Events!Idle /\ UNCHANGED log
      /\ change' = [change EXCEPT ![c] = [order |-> o, status |-> s]]
      /\ mixed' = mixed \cup {x \in {o} : \E d \in Changers : change[d].order = x}
      /\ committed' = [x \in Orders |-> IF x = o THEN Append(committed[x], s) ELSE committed[x]]
    BY DEF Events!ChangeStatus, Events!Updated, Events!Affected
<1>2. PICK v : v = [order |-> o, status |-> s]
    OBVIOUS
<1>3. v \in ChangeRecord /\ v.order = o /\ v.status = s
    BY <1>2 DEF ChangeRecord
<1>4. /\ change' \in [Changers -> ChangeRecord]
      /\ \A d \in Changers : change'[d] = IF d = c THEN v ELSE change[d]
    BY <1>1, <1>2, <1>3 DEF CommitsInv
<1>5. committed' \in [Orders -> Seq(Events!Status)] /\ log' \in [Orders -> Seq(Events!Status)]
    BY <1>1 DEF CommitsInv
<1>6. ASSUME NEW x \in Orders \ mixed' PROVE CommitsOK(x, committed', log', change')
    <2>1. x \notin mixed /\ CommitsOK(x, committed, log, change)
        BY <1>1, <1>6 DEF CommitsInv
    <2>2. CASE x = o
        <3>1. \A d \in Changers : change[d].order # o
            BY <1>1, <1>6, <2>2
        <3>2. committed[o] = log[o]
            BY <2>1, <2>2, <3>1 DEF CommitsOK
        <3>3. committed'[o] = Append(log'[o], s)
            BY <1>1, <3>2
        <3> QED BY <1>3, <1>4, <2>2, <3>1, <3>3 DEF CommitsOK
    <2>3. CASE x # o
        <3>1. committed'[x] = committed[x] /\ log'[x] = log[x]
            BY <1>1, <2>3
        <3>2. change[c].order = None /\ x # None
            BY <1>1, IdleChange DEF ChangeRecord
        <3>3. \A d \in Changers : change'[d].order = x <=> change[d].order = x
            BY <1>3, <1>4, <2>3, <3>2
        <3>4. \A d \in Changers : change[d].order = x => change'[d] = change[d]
            BY <1>4, <3>2
        <3> QED BY <2>1, <3>1, <3>3, <3>4 DEF CommitsOK
    <2> QED BY <2>2, <2>3
<1> QED BY <1>4, <1>5, <1>6 DEF CommitsInv

(* Its event.                                                              *)
LEMMA PublishStep ==
    ASSUME CommitsInv, NEW c \in Changers, Events!Publish(c)
    PROVE  CommitsInv'
<1>1. PICK o, s : o = change[c].order /\ s = change[c].status
    OBVIOUS
<1>2. /\ o # None /\ UNCHANGED <<committed, mixed>>
      /\ change' = [change EXCEPT ![c] = Events!Idle]
      /\ log' = [log EXCEPT ![o] = Append(log[o], s)]
    BY <1>1 DEF Events!Publish, Events!Event
<1>3. o \in Orders /\ s \in Events!Status /\ Events!Idle.order = None /\ None \notin Orders
    BY <1>1, <1>2, IdleChange DEF CommitsInv
<1>4. /\ change' \in [Changers -> ChangeRecord]
      /\ \A d \in Changers : change'[d] = IF d = c THEN Events!Idle ELSE change[d]
    BY <1>2 DEF CommitsInv, ChangeRecord
<1>5. committed' \in [Orders -> Seq(Events!Status)] /\ log' \in [Orders -> Seq(Events!Status)]
    BY <1>2, <1>3 DEF CommitsInv
<1>6. ASSUME NEW x \in Orders \ mixed' PROVE CommitsOK(x, committed', log', change')
    <2>1. CommitsOK(x, committed, log, change)
        BY <1>2, <1>6 DEF CommitsInv
    <2>2. CASE x = o
        <3>1. /\ committed[o] = Append(log[o], s)
              /\ \A d \in Changers : change[d].order = o => d = c
            BY <1>1, <2>1, <2>2 DEF CommitsOK
        <3>2. log'[o] = committed'[o]
            BY <1>2, <1>3, <3>1 DEF CommitsInv
        <3>3. \A d \in Changers : change'[d].order # o
            BY <1>3, <1>4, <3>1
        <3> QED BY <2>2, <3>2, <3>3 DEF CommitsOK
    <2>3. CASE x # o
        <3>1. committed'[x] = committed[x] /\ log'[x] = log[x]
            BY <1>2, <1>3, <2>3 DEF CommitsInv
        <3>2. \A d \in Changers : change'[d].order = x <=> change[d].order = x
            BY <1>1, <1>3, <1>4, <2>3
        <3>3. \A d \in Changers : change[d].order = x => change'[d] = change[d]
            BY <1>1, <1>4, <2>3
        <3> QED BY <2>1, <3>1, <3>2, <3>3 DEF CommitsOK
    <2> QED BY <2>2, <2>3
<1> QED BY <1>4, <1>5, <1>6 DEF CommitsInv

(* A restart, after which no change is under way.                          *)
LEMMA EventsCrashStep ==
    ASSUME CommitsInv, Events!Crash
    PROVE  CommitsInv'
<1>1. /\ UNCHANGED <<committed, log>> /\ change' = [c \in Changers |-> Events!Idle]
      /\ mixed' = mixed \cup {o \in Orders : \E c \in Changers : change[c].order = o}
    BY DEF Events!Crash
<1>2. Events!Idle \in ChangeRecord /\ Events!Idle.order = None /\ None \notin Orders
    BY IdleChange DEF ChangeRecord
<1>3. change' \in [Changers -> ChangeRecord] /\ \A c \in Changers : change'[c].order = None
    BY <1>1, <1>2
<1>4. ASSUME NEW x \in Orders \ mixed' PROVE CommitsOK(x, committed', log', change')
    <2>1. CommitsOK(x, committed, log, change) /\ \A c \in Changers : change[c].order # x
        BY <1>1, <1>4 DEF CommitsInv
    <2> QED BY <1>1, <1>2, <1>3, <2>1 DEF CommitsOK
<1> QED BY <1>1, <1>3, <1>4 DEF CommitsInv

LEMMA CommitsNext == ASSUME CommitsInv, [Events!Next]_eventVars PROVE CommitsInv'
<1>1. CASE UNCHANGED <<committed, log, change, mixed>>
    BY <1>1 DEF CommitsInv
<1>2. ASSUME NEW c \in Changers,
             Events!Publish(c) \/ \E o \in Orders, s \in Events!Status : Events!ChangeStatus(c, o, s)
      PROVE  CommitsInv'
    BY <1>2, PublishStep, ChangeStatusStep
<1>3. CASE Events!Crash
    BY <1>3, EventsCrashStep
<1>4. ASSUME NEW k \in Streams,
             \/ Events!Subscribe(k) \/ Events!StreamStep(k) \/ Events!CheckUnavailable(k)
             \/ Events!ExpiryTimer(k) \/ Events!Close(k) \/ \E o \in Orders : Events!Connect(k, o)
      PROVE  UNCHANGED Events!busVars
    BY <1>4 DEF Events!Subscribe, Events!StreamStep, Events!BeginCheck, Events!WriteEvent,
                Events!CheckUnavailable, Events!ExpiryTimer, Events!Close, Events!Connect
<1>5. ASSUME NEW w \in Sockets,
             \/ Events!EnterRoom(w) \/ Events!VerdictUnavailable(w) \/ Events!LeaveRooms(w)
             \/ \E o \in Orders : Events!Join(w, o)
      PROVE  UNCHANGED Events!busVars
    BY <1>5 DEF Events!EnterRoom, Events!VerdictUnavailable, Events!LeaveRooms, Events!Join
<1>6. CASE Events!GatewayStep
    <2>1. UNCHANGED Events!busVars
        BY <1>6 DEF Events!GatewayStep, Events!FetchSockets, Events!Delivered, Events!EmitTo
    <2> QED BY <1>1, <2>1 DEF Events!busVars
<1>7. ASSUME NEW u \in Users, Events!Revoke(u) \/ Events!Expire(u)
      PROVE  UNCHANGED Events!busVars
    BY <1>7 DEF Events!Revoke, Events!Expire
<1>8. CASE UNCHANGED eventVars
    BY <1>1, <1>8 DEF eventVars
<1> QED BY <1>1, <1>2, <1>3, <1>4, <1>5, <1>6, <1>7, <1>8 DEF Events!Next, Events!busVars

(* For any orders, changers and clients: as long as the changes of an      *)
(* order do not overlap and the process lives, every committed change has  *)
(* exactly one event, in the order of the commits.                         *)
THEOREM EventsStayWithCommits == ApiSpec => []EventsFollowCommits
<1>1. ApiInit => CommitsInv
    BY CommitsStart DEF ApiInit
<1>2. CommitsInv /\ [ApiNext]_<<vars, eventVars, cardVars>> => CommitsInv'
    BY CommitsNext DEF ApiNext
<1>3. CommitsInv => EventsFollowCommits
    BY DEF CommitsInv, CommitsOK, EventsFollowCommits, Events!EventsFollowCommits
<1> QED BY <1>1, <1>2, <1>3, PTL DEF ApiSpec

-----------------------------------------------------------------------------
(* Events on their way                                                     *)
(*                                                                         *)
(* L stands for the log, M for the map of buffers, B for the buffer of one *)
(* order, I and X for the users whose tokens are revoked and expired.      *)

EventRecord == [order : Orders, n : Nat, id : Nat, status : Events!Status, late : BOOLEAN,
                replay : BOOLEAN]
EntryRecord == [order : Orders, events : Seq(EventRecord)]

(* A buffer holds the newest events of its order, numbered one by one.     *)
Numbered(b, o, l) ==
    \A j \in 1..Len(b) : /\ b[j].order = o
                         /\ b[j].n = l - Len(b) + j
                         /\ b[j].id = b[1].id + j - 1

BufferOK(x, L) ==
    /\ x \in EntryRecord /\ Len(x.events) \in 1..BUFFER_SIZE
    /\ Numbered(x.events, x.order, Len(L[x.order]))

MapOK(M, L) ==
    /\ M \in Seq(EntryRecord) /\ Len(M) <= MAX_ORDERS
    /\ \A i, j \in 1..Len(M) : M[i].order = M[j].order => i = j
    /\ \A i \in 1..Len(M) : BufferOK(M[i], L)

BufferIn(M, o) ==
    IF \E i \in 1..Len(M) : M[i].order = o
    THEN M[CHOOSE i \in 1..Len(M) : M[i].order = o].events ELSE <<>>

StreamRecord ==
    [pc : {"closed", "owner", "open", "ended"}, order : Orders \cup {None},
     queue : Seq(EventRecord), checking : BOOLEAN, base : Nat, got : Seq(EventRecord)]

(* What the client of a stream has, and will get if nothing ends it.       *)
Line(x) == IF x.pc = "open" THEN x.got \o x.queue ELSE x.got

(* Nothing of the buffer belongs between a and b, or after a.              *)
Seam(a, b, B) ==
    Events!SameNumbering(a, b) =>
        /\ a.n < b.n
        /\ \A i \in 1..Len(B) : Events!SameNumbering(a, B[i]) => B[i].n <= a.n \/ B[i].n >= b.n

Newest(a, B) == \A i \in 1..Len(B) : Events!SameNumbering(a, B[i]) => B[i].n <= a.n

Seams(s, B) == \A i \in 1..(Len(s) - 1) : Seam(s[i], s[i + 1], B)

(* The events of one order, published so far.                              *)
OfOrder(s, o, L) == \A i \in 1..Len(s) : s[i].order = o /\ s[i].n <= Len(L[o])

SeamlessOK(x, B, L) ==
    /\ OfOrder(x.got, x.order, L) /\ OfOrder(x.queue, x.order, L)
    /\ Seams(Line(x), B)
    /\ x.pc = "open" /\ Line(x) # <<>> => Newest(Line(x)[Len(Line(x))], B)

PlaceOK(k, x) ==
    /\ x \in StreamRecord /\ x.base <= Len(x.got)
    /\ x.order = None => x.pc = "closed" /\ x.got = <<>>
    /\ x.pc \in {"closed", "owner"} => x.queue = <<>> /\ ~x.checking
    /\ x.pc \in {"open", "ended"} => Owner[x.order] = UserOf[k]
    /\ x.checking => x.queue # <<>>

(* A late event waits for a check that has not begun, or for one that the  *)
(* denylist will answer.                                                   *)
CheckedOK(k, x, I, X) ==
    /\ \A i \in 1..Len(x.got) : x.got[i].late => x.got[i].replay
    /\ \A i \in 1..Len(x.queue) : x.queue[i].late => UserOf[k] \in I \cup X
    /\ x.checking /\ x.queue[1].late => UserOf[k] \in I

StreamOK(k, x, M, L, I, X) ==
    PlaceOK(k, x) /\ SeamlessOK(x, BufferIn(M, x.order), L) /\ CheckedOK(k, x, I, X)

GatewayRecord == [queue : Seq(EventRecord), targets : SUBSET Sockets, delivering : BOOLEAN]
SocketRecord == [joining : Orders \cup {None}, rooms : SUBSET Orders, got : Seq(EventRecord)]

InOrder(s) == \A i, j \in 1..Len(s) : i < j /\ s[i].order = s[j].order => s[i].n < s[j].n
Published(s, L) == \A i \in 1..Len(s) : s[i].n <= Len(L[s[i].order])

GatewayOK(g, L, I, X) ==
    /\ g \in GatewayRecord
    /\ g.targets # {} => g.delivering
    /\ g.delivering => g.queue # <<>>
    /\ Published(g.queue, L) /\ InOrder(g.queue)
    /\ \A j \in 1..Len(g.queue) : g.queue[j].late => Owner[g.queue[j].order] \in I \cup X
    /\ \A w \in g.targets : g.queue[1].late => UserOf[w] \in I

(* A socket has none of the events in the queue, except the first when it  *)
(* has had its turn.                                                       *)
Ahead(w, s, g) ==
    \A i \in 1..Len(s), j \in 1..Len(g.queue) :
        s[i].order = g.queue[j].order =>
            s[i].n < g.queue[j].n \/ (j = 1 /\ g.delivering /\ w \notin g.targets)

SocketOK(w, x, g, L) ==
    /\ x \in SocketRecord
    /\ \A o \in x.rooms : Owner[o] = UserOf[w]
    /\ Published(x.got, L) /\ InOrder(x.got) /\ \A i \in 1..Len(x.got) : ~x.got[i].late
    /\ Ahead(w, x.got, g)

EventsInv ==
    /\ status \in [Orders -> Events!Status] /\ mixed \subseteq Orders
    /\ revoked \subseteq Users /\ expired \subseteq Users /\ crashes \in 0..MaxCrashes
    /\ MapOK(buffers, log)
    /\ stream \in [Streams -> StreamRecord] /\ socket \in [Sockets -> SocketRecord]
    /\ \A k \in Streams : StreamOK(k, stream[k], buffers, log, revoked, expired)
    /\ GatewayOK(gateway, log, revoked, expired)
    /\ \A w \in Sockets : SocketOK(w, socket[w], gateway, log)

LEMMA EventsAssumed ==
    /\ Owner \in [Orders -> Users] /\ UserOf \in [Streams \cup Sockets -> Users]
    /\ BUFFER_SIZE \in Nat \ {0} /\ MAX_ORDERS \in Nat \ {0} /\ None \notin Orders
    /\ MaxCrashes \in Nat
BY ApiAssumption DEF Events!EventsAssumption

-----------------------------------------------------------------------------
(* Sequences, element by element                                           *)

LEMMA Appended ==
    ASSUME NEW S, NEW s \in Seq(S), NEW e, e \in S, NEW t, t = Append(s, e)
    PROVE  /\ t \in Seq(S) /\ Len(t) = Len(s) + 1 /\ Len(s) \in Nat
           /\ \A i \in 1..Len(t) : t[i] = IF i <= Len(s) THEN s[i] ELSE e
BY AppendProperties, LenProperties

LEMMA Joined ==
    ASSUME NEW S, NEW a \in Seq(S), NEW b \in Seq(S), NEW t, t = a \o b
    PROVE  /\ t \in Seq(S) /\ Len(t) = Len(a) + Len(b) /\ Len(a) \in Nat /\ Len(b) \in Nat
           /\ \A i \in 1..Len(t) : t[i] = IF i <= Len(a) THEN a[i] ELSE b[i - Len(a)]
BY ConcatProperties, LenProperties

LEMMA Prefix ==
    ASSUME NEW S, NEW s \in Seq(S), NEW m \in 0..Len(s), NEW t, t = SubSeq(s, 1, m)
    PROVE  t \in Seq(S) /\ Len(t) = m /\ \A i \in 1..m : t[i] = s[i]
<1>1. \A i \in 1..m : s[i] \in S
    BY ElementOfSeq, LenProperties
<1> QED BY <1>1, SubSeqProperties, LenProperties

LEMMA Tailed ==
    ASSUME NEW S, NEW s \in Seq(S), s # <<>>, NEW t, t = Tail(s)
    PROVE  /\ t \in Seq(S) /\ Len(t) = Len(s) - 1 /\ Len(s) \in Nat \ {0}
           /\ Head(s) = s[1] /\ s[1] \in S
           /\ \A i \in 1..Len(t) : t[i] = s[i + 1]
<1>1. Len(s) \in Nat \ {0}
    BY EmptySeq
<1>2. Head(s) = s[1] /\ s[1] \in S
    BY <1>1, ElementOfSeq
<1> QED BY <1>1, <1>2, HeadTailProperties

LEMMA RemovedAt ==
    ASSUME NEW S, NEW s \in Seq(S), NEW i \in 1..Len(s), NEW t, t = Events!RemoveAt(s, i)
    PROVE  /\ t \in Seq(S) /\ Len(t) = Len(s) - 1
           /\ \A j \in 1..Len(t) : t[j] = IF j < i THEN s[j] ELSE s[j + 1]
<1>0. Len(s) \in Nat /\ \A j \in 1..Len(s) : s[j] \in S
    BY LenProperties, ElementOfSeq
<1>1. PICK a : a = SubSeq(s, 1, i - 1)
    OBVIOUS
<1>2. PICK b : b = SubSeq(s, i + 1, Len(s))
    OBVIOUS
<1>3. a \in Seq(S) /\ Len(a) = i - 1 /\ \A j \in 1..Len(a) : a[j] = s[j]
    <2>1. \A j \in 1..(i - 1) : s[j] \in S
        BY <1>0
    <2>2. 1 \in Int /\ i - 1 \in Int
        BY <1>0
    <2> QED BY <1>1, <2>1, <2>2, SubSeqProperties
<1>4. b \in Seq(S) /\ Len(b) = Len(s) - i /\ \A j \in 1..Len(b) : b[j] = s[i + j]
    <2>1. \A j \in (i + 1)..Len(s) : s[j] \in S
        BY <1>0
    <2>2. i + 1 \in Int /\ Len(s) \in Int
        BY <1>0
    <2>3. /\ b \in Seq(S) /\ Len(b) = IF i + 1 <= Len(s) THEN Len(s) - (i + 1) + 1 ELSE 0
          /\ \A j \in 1..(Len(s) - (i + 1) + 1) : b[j] = s[(i + 1) + j - 1]
        BY <1>2, <2>1, <2>2, SubSeqProperties
    <2> QED BY <1>0, <2>3
<1>5. t = a \o b
    BY <1>1, <1>2 DEF Events!RemoveAt
<1>6. /\ t \in Seq(S) /\ Len(t) = Len(a) + Len(b)
      /\ \A j \in 1..Len(t) : t[j] = IF j <= Len(a) THEN a[j] ELSE b[j - Len(a)]
    <2>1. a \in Seq(S)
        BY <1>3
    <2>2. b \in Seq(S)
        BY <1>4
    <2> QED BY <2>1, <2>2, <1>5, Joined
<1>7. ASSUME NEW j \in 1..Len(t) PROVE t[j] = IF j < i THEN s[j] ELSE s[j + 1]
    <2>1. CASE j < i
        BY <1>0, <1>3, <1>4, <1>6, <2>1
    <2>2. CASE j >= i
        <3>1. t[j] = b[j - (i - 1)] /\ j - (i - 1) \in 1..Len(b)
            BY <1>0, <1>3, <1>4, <1>6, <2>2
        <3>2. i + (j - (i - 1)) = j + 1
            OBVIOUS
        <3> QED BY <1>4, <2>2, <3>1, <3>2
    <2> QED BY <1>0, <2>1, <2>2
<1> QED BY <1>0, <1>3, <1>4, <1>6, <1>7

LEMMA SameCardinality == \A S : Events!Cardinality(S) = Cardinality(S)
BY DEF Events!Cardinality, Cardinality

(* filter keeps a tail of the sequence if it keeps the places of a tail.   *)
LEMMA FilterTail ==
    ASSUME NEW S, NEW b \in Seq(S), NEW m \in 0..Len(b),
           NEW f, f = Events!Filter(b, (m + 1)..Len(b))
    PROVE  /\ f \in Seq(S) /\ Len(f) = Len(b) - m
           /\ \A n \in 1..Len(f) : f[n] = b[m + n]
<1> DEFINE T == (m + 1)..Len(b)
<1>1. Events!Cardinality(T) = Len(b) - m
    <2>1. Cardinality((m + 1)..Len(b)) = IF m + 1 > Len(b) THEN 0 ELSE Len(b) - (m + 1) + 1
        <3>1. m + 1 \in Int
            BY LenProperties
        <3>2. Len(b) \in Int
            BY LenProperties
        <3> QED BY <3>1, <3>2, FS_Interval
    <2>2. Events!Cardinality(T) = Cardinality((m + 1)..Len(b))
        BY SameCardinality
    <2>3. Len(b) \in Nat
        BY LenProperties
    <2>4. Cardinality((m + 1)..Len(b)) = Len(b) - m
        BY <2>1, <2>3
    <2> QED BY <2>2, <2>4
<1>2. ASSUME NEW n \in 1..(Len(b) - m) PROVE Events!Nth(T, n) = m + n
    <2>1. ASSUME NEW i \in T PROVE Events!Cardinality({j \in T : j < i}) = i - 1 - m
        <3>1. {j \in T : j < i} = (m + 1)..(i - 1)
            OBVIOUS
        <3>2. Cardinality((m + 1)..(i - 1)) = i - 1 - m
            BY FS_Interval
        <3> QED BY <3>1, <3>2, SameCardinality
    <2>2. m + n \in T /\ Events!Cardinality({j \in T : j < m + n}) = n - 1
        <3>1. m + n \in T
            OBVIOUS
        <3> QED BY <3>1, <2>1
    <2> DEFINE P(i) == Events!Cardinality({j \in T : j < i}) = n - 1
    <2>3. \A i \in T : P(i) => i = m + n
        BY <2>1
    <2>4. (CHOOSE i \in T : P(i)) = m + n
        <3> HIDE DEF P, T
        <3> QED BY <2>2, <2>3 DEF P
    <2> QED BY <2>4 DEF Events!Nth
<1>3. f = [n \in 1..(Len(b) - m) |-> b[Events!Nth(T, n)]]
    BY <1>1 DEF Events!Filter
<1>4. f = [n \in 1..(Len(b) - m) |-> b[m + n]]
    BY <1>2, <1>3
<1>5. \A n \in 1..(Len(b) - m) : b[m + n] \in S
    OBVIOUS
<1>6. f \in Seq(S) /\ Len(f) = Len(b) - m
    <2>1. PICK l \in Nat : l = Len(b) - m
        BY LenProperties
    <2>2. f \in [1..l -> S]
        BY ONLY <1>4, <1>5, <2>1
    <2>3. f \in Seq(S)
        BY ONLY <2>2
    <2>4. Len(f) = l
        BY ONLY <2>2, <2>3, LenProperties
    <2> QED BY <2>1, <2>3, <2>4
<1> QED BY <1>4, <1>6

LEMMA EventFields ==
    ASSUME NEW s, s \in Seq(EventRecord)
    PROVE  \A i \in 1..Len(s) : /\ s[i] \in EventRecord /\ s[i].order \in Orders
                                /\ s[i].n \in Nat /\ s[i].id \in Nat
<1> SUFFICES ASSUME NEW i \in 1..Len(s)
             PROVE  s[i] \in EventRecord /\ s[i].order \in Orders /\ s[i].n \in Nat
                    /\ s[i].id \in Nat
    OBVIOUS
<1>1. s[i] \in EventRecord
    BY ElementOfSeq
<1> QED BY <1>1 DEF EventRecord

LEMMA BufferAt ==
    ASSUME NEW M, NEW L, MapOK(M, L), NEW i \in 1..Len(M), NEW o, M[i].order = o
    PROVE  BufferIn(M, o) = M[i].events
<1> DEFINE P(j) == M[j].order = o
<1>1. \A j \in 1..Len(M) : P(j) => j = i
    BY DEF MapOK
<1>2. (CHOOSE j \in 1..Len(M) : P(j)) = i
    <2> HIDE DEF MapOK
    <2>1. P(i)
        OBVIOUS
    <2> HIDE DEF P
    <2> QED BY <1>1, <2>1
<1> QED BY <1>2 DEF BufferIn

LEMMA BufferFacts ==
    ASSUME NEW M, NEW L, MapOK(M, L), L \in [Orders -> Seq(Events!Status)], NEW o, o \in Orders,
           NEW b, b = BufferIn(M, o)
    PROVE  /\ b \in Seq(EventRecord) /\ Len(b) \in 0..BUFFER_SIZE
           /\ Numbered(b, o, Len(L[o])) /\ Len(L[o]) \in Nat
<1>0. Len(L[o]) \in Nat
    BY LenProperties
<1>1. CASE \E i \in 1..Len(M) : M[i].order = o
    <2>1. PICK i \in 1..Len(M) : M[i].order = o
        BY <1>1
    <2>2. b = M[i].events
        BY <2>1, BufferAt
    <2>3. BufferOK(M[i], L)
        BY DEF MapOK
    <2> QED BY <1>0, <2>1, <2>2, <2>3 DEF BufferOK, EntryRecord
<1>2. CASE ~ \E i \in 1..Len(M) : M[i].order = o
    <2>1. b = <<>>
        BY <1>2 DEF BufferIn
    <2>2. b \in Seq(EventRecord) /\ Len(b) = 0
        BY <2>1, EmptySeq
    <2> QED BY <1>0, <2>2, EventsAssumed DEF Numbered
<1> QED BY <1>1, <1>2

(* delete: what remains are entries of other orders.                       *)
LEMMA WithoutIt ==
    ASSUME MapOK(buffers, log), NEW o, NEW w, w = Events!Without(o)
    PROVE  /\ w \in Seq(EntryRecord) /\ Len(w) <= Len(buffers) /\ Len(w) \in Nat
           /\ \A i, j \in 1..Len(w) : w[i].order = w[j].order => i = j
           /\ \A i \in 1..Len(w) : /\ w[i].order # o
                                   /\ \E j \in 1..Len(buffers) : w[i] = buffers[j]
<1> DEFINE P(i) == buffers[i].order = o
<1>0. /\ buffers \in Seq(EntryRecord) /\ Len(buffers) \in Nat
      /\ \A i, j \in 1..Len(buffers) : buffers[i].order = buffers[j].order => i = j
    BY LenProperties DEF MapOK
<1>1. CASE Events!Has(o)
    <2>1. PICK p \in 1..Len(buffers) : P(p)
        BY <1>1 DEF Events!Has
    <2>2. Events!Place(o) = p
        <3>1. \A j \in 1..Len(buffers) : P(j) => j = p
            BY <1>0, <2>1
        <3>2. (CHOOSE j \in 1..Len(buffers) : P(j)) = p
            <4> HIDE DEF P
            <4> QED BY <2>1, <3>1
        <3> QED BY <3>2 DEF Events!Place
    <2>3. w = Events!RemoveAt(buffers, p)
        BY <1>1, <2>2 DEF Events!Without
    <2>4. /\ w \in Seq(EntryRecord) /\ Len(w) = Len(buffers) - 1
          /\ \A j \in 1..Len(w) : w[j] = IF j < p THEN buffers[j] ELSE buffers[j + 1]
        BY <1>0, <2>3, RemovedAt
    <2>5. \A i \in 1..Len(w) : \E j \in 1..Len(buffers) : w[i] = buffers[j] /\ j # p
                               /\ j = IF i < p THEN i ELSE i + 1
        BY <1>0, <2>4
    <2>6. \A i \in 1..Len(w) : w[i].order # o
        BY <1>0, <2>1, <2>5
    <2>7. \A i, j \in 1..Len(w) : w[i].order = w[j].order => i = j
        BY <1>0, <2>5
    <2> QED BY <1>0, <2>4, <2>5, <2>6, <2>7
<1>2. CASE ~Events!Has(o)
    BY <1>0, <1>2 DEF Events!Has, Events!Without
<1> QED BY <1>1, <1>2

(* The entries of the order p are some of the old ones.                    *)
SomeOf(M2, M, p) ==
    \A i \in 1..Len(M2) : M2[i].order = p => \E j \in 1..Len(M) : M2[i] = M[j]

(* An order keeps its buffer or loses it when the entries of the map are   *)
(* some of the old ones.                                                   *)
LEMMA KeptOrLost ==
    ASSUME NEW M, NEW L, MapOK(M, L), NEW M2, NEW L2, MapOK(M2, L2), NEW o,
           SomeOf(M2, M, o)
    PROVE  BufferIn(M2, o) = BufferIn(M, o) \/ BufferIn(M2, o) = <<>>
<1>1. CASE \E i \in 1..Len(M2) : M2[i].order = o
    <2>1. PICK i \in 1..Len(M2) : M2[i].order = o
        BY <1>1
    <2>2. PICK j \in 1..Len(M) : M2[i] = M[j]
        BY <2>1 DEF SomeOf
    <2>3. BufferIn(M2, o) = M2[i].events
        BY <2>1, BufferAt
    <2>4. BufferIn(M, o) = M[j].events
        BY <2>1, <2>2, BufferAt
    <2> QED BY <2>2, <2>3, <2>4
<1>2. CASE ~ \E i \in 1..Len(M2) : M2[i].order = o
    BY <1>2 DEF BufferIn
<1> QED BY <1>1, <1>2

(* d has nothing but e and what b has.                                     *)
AddsOnly(d, b, e) == \A i \in 1..Len(d) : d[i] = e \/ \E j \in 1..Len(b) : d[i] = b[j]

(* push and shift keep the numbering.                                      *)
LEMMA Pushed ==
    ASSUME NEW b, b \in Seq(EventRecord), Len(b) \in 0..BUFFER_SIZE, NEW o, NEW l, l \in Nat,
           Numbered(b, o, l), NEW e, e \in EventRecord, e.order = o, e.n = l + 1,
           e.id = Events!LastId(b) + 1, NEW d, d = Events!Shift(Append(b, e))
    PROVE  /\ d \in Seq(EventRecord) /\ Len(d) \in 1..BUFFER_SIZE /\ Numbered(d, o, l + 1)
           /\ AddsOnly(d, b, e)
<1>1. PICK c : c = Append(b, e)
    OBVIOUS
<1>2. /\ c \in Seq(EventRecord) /\ Len(c) = Len(b) + 1 /\ Len(b) \in Nat
      /\ \A i \in 1..Len(c) : c[i] = IF i <= Len(b) THEN b[i] ELSE e
    BY <1>1, Appended
<1>3. \A i \in 1..Len(c) : c[i] = e \/ \E j \in 1..Len(b) : c[i] = b[j]
    BY <1>2
<1>4. e.id = IF Len(b) = 0 THEN 1 ELSE b[1].id + Len(b)
    <2>1. CASE b = <<>>
        BY <2>1 DEF Events!LastId
    <2>2. CASE b # <<>>
        <3>1. Len(b) # 0
            BY <2>2, EmptySeq, <1>2
        <3>2. e.id = b[Len(b)].id + 1
            BY <2>2 DEF Events!LastId, Events!Last
        <3>3. b[Len(b)].id = b[1].id + Len(b) - 1 /\ b[1].id \in Nat
            BY <1>2, <3>1, EventFields DEF Numbered
        <3> QED BY <1>2, <3>1, <3>2, <3>3
    <2> QED BY <2>1, <2>2
<1>5. Numbered(c, o, l + 1)
    <2> SUFFICES ASSUME NEW i \in 1..Len(c)
                 PROVE  c[i].order = o /\ c[i].n = l + 1 - Len(c) + i /\ c[i].id = c[1].id + i - 1
        BY DEF Numbered
    <2>1. CASE i <= Len(b)
        <3>1. c[i] = b[i] /\ c[1] = b[1]
            BY <1>2, <2>1
        <3>2. b[i].order = o /\ b[i].n = l - Len(b) + i /\ b[i].id = b[1].id + i - 1
            BY <1>2, <2>1 DEF Numbered
        <3> QED BY <1>2, <3>1, <3>2
    <2>2. CASE i > Len(b)
        <3>1. c[i] = e /\ i = Len(b) + 1
            BY <1>2, <2>2
        <3>2. CASE Len(b) = 0
            BY <1>2, <1>4, <3>1, <3>2 DEF EventRecord
        <3>3. CASE Len(b) # 0
            <4>1. c[1] = b[1] /\ b[1].id \in Nat
                BY <1>2, <3>3, EventFields
            <4> QED BY <1>2, <1>4, <3>1, <3>3, <4>1
        <3> QED BY <3>2, <3>3
    <2> QED BY <1>2, <2>1, <2>2
<1>6. CASE Len(c) <= BUFFER_SIZE
    <2>1. d = c
        BY <1>1, <1>2, <1>6, EventsAssumed DEF Events!Shift
    <2> QED BY <1>2, <1>3, <1>5, <1>6, <2>1, EventsAssumed DEF AddsOnly
<1>7. CASE Len(c) > BUFFER_SIZE
    <2>1. d = Tail(c) /\ c # <<>>
        BY <1>1, <1>2, <1>7, EventsAssumed DEF Events!Shift
    <2>2. /\ d \in Seq(EventRecord) /\ Len(d) = Len(c) - 1
          /\ \A i \in 1..Len(d) : d[i] = c[i + 1]
        BY <1>2, <2>1, Tailed
    <2>3. Len(d) \in 1..BUFFER_SIZE
        BY <1>2, <1>7, <2>2, EventsAssumed
    <2>4. \A i \in 1..Len(d) : /\ d[i].order = o /\ d[i].n = (l + 1) - Len(c) + (i + 1)
                               /\ d[i].id = c[1].id + i
        <3> SUFFICES ASSUME NEW i \in 1..Len(d)
                     PROVE  /\ d[i].order = o /\ d[i].n = (l + 1) - Len(c) + (i + 1)
                            /\ d[i].id = c[1].id + i
            OBVIOUS
        <3>1. i + 1 \in 1..Len(c) /\ d[i] = c[i + 1]
            BY <1>2, <2>2
        <3>2. /\ c[i + 1].order = o /\ c[i + 1].n = (l + 1) - Len(c) + (i + 1)
              /\ c[i + 1].id = c[1].id + (i + 1) - 1
            BY <1>5, <3>1 DEF Numbered
        <3>3. PICK y \in Nat : y = c[1].id
            BY <1>2, EventFields
        <3>4. y + (i + 1) - 1 = y + i
            BY ONLY <3>3, <3>1, <1>2
        <3>5. d[i].order = o /\ d[i].n = (l + 1) - Len(c) + (i + 1)
            BY ONLY <3>1, <3>2
        <3>6. d[i].id = c[1].id + i
            BY ONLY <3>1, <3>2, <3>3, <3>4
        <3> QED BY ONLY <3>5, <3>6
    <2>5. c[1].id \in Nat
        BY <1>2, EventFields
    <2>6. Numbered(d, o, l + 1)
        BY <1>2, <2>2, <2>3, <2>4, <2>5 DEF Numbered
    <2>7. AddsOnly(d, b, e)
        BY <1>2, <1>3, <2>2 DEF AddsOnly
    <2> QED BY <2>2, <2>3, <2>6, <2>7
<1> QED BY <1>2, <1>6, <1>7, EventsAssumed

LEMMA LongerLog ==
    ASSUME NEW L, L \in [Orders -> Seq(Events!Status)], NEW o, o \in Orders,
           NEW s, s \in Events!Status, NEW L2, L2 = [L EXCEPT ![o] = Append(@, s)]
    PROVE  /\ L2 \in [Orders -> Seq(Events!Status)]
           /\ \A p \in Orders : Len(L[p]) \in Nat /\ Len(L2[p]) \in Nat
           /\ Len(L2[o]) = Len(L[o]) + 1
           /\ \A p \in Orders \ {o} : L2[p] = L[p]
<1>1. PICK t : t = Append(L[o], s)
    OBVIOUS
<1>2. t \in Seq(Events!Status) /\ Len(t) = Len(L[o]) + 1
    BY <1>1, Appended
<1>3. L2 \in [Orders -> Seq(Events!Status)] /\ L2[o] = t
    BY <1>1, <1>2
<1>4. \A p \in Orders : Len(L[p]) \in Nat /\ Len(L2[p]) \in Nat
    BY <1>3, LenProperties
<1> QED BY <1>2, <1>3, <1>4

MapWith(o, e) ==
    Events!Evict(Append(Events!Without(o),
                        [order |-> o, events |-> Events!Shift(Append(Events!Buffer(o), e))]))

LogWith(o, s) == [log EXCEPT ![o] = Append(@, s)]

(* The other orders keep their buffers, or lose them.                      *)
OthersKept(M2, M, o) ==
    \A p : p # o => BufferIn(M2, p) = BufferIn(M, p) \/ BufferIn(M2, p) = <<>>

LEMMA PublishedMap ==
    ASSUME MapOK(buffers, log), log \in [Orders -> Seq(Events!Status)], NEW o, o \in Orders,
           NEW e, e \in EventRecord, e.order = o, e.n = Len(log[o]) + 1,
           e.id = Events!LastId(Events!Buffer(o)) + 1,
           NEW s, s \in Events!Status, NEW L2, L2 = LogWith(o, s),
           NEW M2, M2 = MapWith(o, e)
    PROVE  /\ MapOK(M2, L2)
           /\ AddsOnly(BufferIn(M2, o), BufferIn(buffers, o), e)
           /\ OthersKept(M2, buffers, o)
<1>0. /\ L2 \in [Orders -> Seq(Events!Status)] /\ Len(L2[o]) = Len(log[o]) + 1
      /\ Len(log[o]) \in Nat /\ \A p \in Orders \ {o} : L2[p] = log[p]
    BY LongerLog DEF LogWith
<1>1. PICK b : b = BufferIn(buffers, o)
    OBVIOUS
<1>2. b = Events!Buffer(o)
    BY <1>1 DEF BufferIn, Events!Buffer, Events!Has, Events!Place
<1>3. /\ b \in Seq(EventRecord) /\ Len(b) \in 0..BUFFER_SIZE
      /\ Numbered(b, o, Len(log[o]))
    BY <1>1, BufferFacts
<1>4. PICK d : d = Events!Shift(Append(b, e))
    OBVIOUS
<1>5. /\ d \in Seq(EventRecord) /\ Len(d) \in 1..BUFFER_SIZE /\ Numbered(d, o, Len(log[o]) + 1)
      /\ AddsOnly(d, b, e)
    <2>1. e.id = Events!LastId(b) + 1
        BY <1>2
    <2>2. PICK l \in Nat : l = Len(log[o])
        BY <1>0
    <2>3. b \in Seq(EventRecord) /\ Len(b) \in 0..BUFFER_SIZE
        BY <1>3
    <2>4. Numbered(b, o, l) /\ e.n = l + 1
        BY <1>3, <2>2
    <2>5. /\ d \in Seq(EventRecord) /\ Len(d) \in 1..BUFFER_SIZE /\ Numbered(d, o, l + 1)
          /\ AddsOnly(d, b, e)
        BY <1>4, <2>1, <2>3, <2>4, Pushed
    <2> QED BY <2>2, <2>5
<1>6. PICK x : x = [order |-> o, events |-> d]
    OBVIOUS
<1>7. x \in EntryRecord /\ x.order = o /\ x.events = d
    BY <1>5, <1>6 DEF EntryRecord
<1>8. BufferOK(x, L2)
    BY <1>0, <1>5, <1>7 DEF BufferOK
<1>9. PICK w : w = Events!Without(o)
    OBVIOUS
<1>10. /\ w \in Seq(EntryRecord) /\ Len(w) <= Len(buffers) /\ Len(w) \in Nat
       /\ \A i, j \in 1..Len(w) : w[i].order = w[j].order => i = j
       /\ \A i \in 1..Len(w) : /\ w[i].order # o
                               /\ \E j \in 1..Len(buffers) : w[i] = buffers[j]
    BY <1>9, WithoutIt
<1>11. \A i \in 1..Len(w) : BufferOK(w[i], L2)
    <2> SUFFICES ASSUME NEW i \in 1..Len(w) PROVE BufferOK(w[i], L2)
        OBVIOUS
    <2>1. PICK j \in 1..Len(buffers) : w[i] = buffers[j]
        BY <1>10
    <2>2. BufferOK(w[i], log) /\ w[i].order # o
        BY <1>10, <2>1 DEF MapOK
    <2>3. w[i].order \in Orders
        BY <2>2 DEF BufferOK, EntryRecord
    <2> QED BY <1>0, <2>2, <2>3 DEF BufferOK
<1>12. PICK a : a = Append(w, x)
    OBVIOUS
<1>13. /\ a \in Seq(EntryRecord) /\ Len(a) = Len(w) + 1
       /\ \A i \in 1..Len(a) : a[i] = IF i <= Len(w) THEN w[i] ELSE x
    BY <1>7, <1>10, <1>12, Appended
<1>14. /\ \A i, j \in 1..Len(a) : a[i].order = a[j].order => i = j
       /\ \A i \in 1..Len(a) : BufferOK(a[i], L2)
       /\ \A i \in 1..Len(a) : a[i].order # o => \E j \in 1..Len(buffers) : a[i] = buffers[j]
       /\ a[Len(a)] = x
    <2>1. \A i \in 1..Len(a) : (a[i] = w[i] /\ i \in 1..Len(w)) \/ (a[i] = x /\ i = Len(w) + 1)
        <3> SUFFICES ASSUME NEW i \in 1..Len(a)
                     PROVE  (a[i] = w[i] /\ i \in 1..Len(w)) \/ (a[i] = x /\ i = Len(w) + 1)
            OBVIOUS
        <3>1. CASE i <= Len(w)
            BY <1>10, <1>13, <3>1
        <3>2. CASE i > Len(w)
            BY <1>10, <1>13, <3>2
        <3> QED BY <1>10, <3>1, <3>2
    <2>2. \A i, j \in 1..Len(a) : a[i].order = a[j].order => i = j
        BY <1>7, <1>10, <2>1
    <2>3. \A i \in 1..Len(a) : BufferOK(a[i], L2)
        BY <1>8, <1>11, <2>1
    <2>4. \A i \in 1..Len(a) : a[i].order # o => \E j \in 1..Len(buffers) : a[i] = buffers[j]
        BY <1>7, <1>10, <2>1
    <2>5. a[Len(a)] = x
        BY <1>10, <1>13
    <2> QED BY <2>2, <2>3, <2>4, <2>5
<1>15. M2 = Events!Evict(a)
    BY <1>2, <1>4, <1>6, <1>9, <1>12 DEF MapWith
<1>16. Len(buffers) \in Nat /\ Len(buffers) <= MAX_ORDERS /\ MAX_ORDERS \in Nat \ {0}
    BY LenProperties, EventsAssumed DEF MapOK
<1>17. \E t \in 0..1 :
          /\ M2 \in Seq(EntryRecord) /\ Len(M2) = Len(a) - t /\ Len(M2) \in 1..MAX_ORDERS
          /\ \A i \in 1..Len(M2) : M2[i] = a[i + t]
    <2>1. CASE Len(a) <= MAX_ORDERS
        <3>1. M2 = a
            BY <1>10, <1>13, <1>15, <1>16, <2>1 DEF Events!Evict
        <3>2. Len(M2) \in 1..MAX_ORDERS /\ Len(M2) = Len(a) - 0
            BY <1>10, <1>13, <1>16, <2>1, <3>1
        <3>3. \A i \in 1..Len(M2) : M2[i] = a[i + 0]
            BY <1>10, <1>13, <3>1
        <3>4. M2 \in Seq(EntryRecord)
            BY <1>13, <3>1
        <3> WITNESS 0 \in 0..1
        <3> QED BY <3>2, <3>3, <3>4
    <2>2. CASE Len(a) > MAX_ORDERS
        <3>0. a # <<>>
            BY <1>10, <1>13, <1>16, <2>2, EmptySeq
        <3>4. a \in Seq(EntryRecord)
            BY <1>13
        <3>1. M2 = Tail(a)
            BY <1>15, <2>2 DEF Events!Evict
        <3>2. M2 \in Seq(EntryRecord) /\ Len(M2) = Len(a) - 1 /\ \A i \in 1..Len(M2) : M2[i] = a[i + 1]
            BY ONLY <3>0, <3>4, <3>1, Tailed
        <3>3. Len(M2) \in 1..MAX_ORDERS
            BY <1>10, <1>13, <1>16, <2>2, <3>2
        <3> WITNESS 1 \in 0..1
        <3> QED BY <3>2, <3>3
    <2> QED BY <1>10, <1>13, <1>16, <2>1, <2>2
<1>18. PICK t \in 0..1 :
          /\ M2 \in Seq(EntryRecord) /\ Len(M2) = Len(a) - t /\ Len(M2) \in 1..MAX_ORDERS
          /\ \A i \in 1..Len(M2) : M2[i] = a[i + t]
    BY <1>17
<1>19. \A i \in 1..Len(M2) : M2[i] = a[i + t] /\ i + t \in 1..Len(a)
    BY <1>10, <1>13, <1>18
<1>20. MapOK(M2, L2)
    <2>1. \A i, j \in 1..Len(M2) : M2[i].order = M2[j].order => i = j
        <3> SUFFICES ASSUME NEW i \in 1..Len(M2), NEW j \in 1..Len(M2), M2[i].order = M2[j].order
                     PROVE  i = j
            OBVIOUS
        <3>0. a[i + t].order = a[j + t].order /\ i + t \in 1..Len(a) /\ j + t \in 1..Len(a)
            BY <1>19
        <3>1. i + t = j + t
            BY <1>14, <3>0
        <3> QED BY <3>1, <1>18
    <2>2. \A i \in 1..Len(M2) : BufferOK(M2[i], L2)
        BY <1>14, <1>19
    <2>3. Len(M2) <= MAX_ORDERS
        BY <1>16, <1>18
    <2> QED BY <1>18, <2>1, <2>2, <2>3 DEF MapOK
<1>21. BufferIn(M2, o) = d
    <2>1. Len(M2) \in 1..Len(M2) /\ M2[Len(M2)] = x
        BY <1>10, <1>13, <1>14, <1>16, <1>18, <1>19
    <2> QED BY <1>7, <1>20, <2>1, BufferAt
<1>22. ASSUME NEW p, p # o
       PROVE  BufferIn(M2, p) = BufferIn(buffers, p) \/ BufferIn(M2, p) = <<>>
    <2>1. SomeOf(M2, buffers, p)
        <3> SUFFICES ASSUME NEW i \in 1..Len(M2), M2[i].order = p
                     PROVE  \E j \in 1..Len(buffers) : M2[i] = buffers[j]
            BY DEF SomeOf
        <3>1. i + t \in 1..Len(a) /\ a[i + t] = M2[i]
            BY <1>19
        <3>2. a[i + t].order # o
            BY <1>22, <3>1
        <3> QED BY ONLY <1>14, <3>1, <3>2
    <2>2. MapOK(buffers, log)
        OBVIOUS
    <2> QED BY ONLY <1>20, <2>1, <2>2, KeptOrLost
<1>23. AddsOnly(BufferIn(M2, o), BufferIn(buffers, o), e)
    BY <1>1, <1>5, <1>21
<1> QED BY <1>20, <1>22, <1>23 DEF OthersKept

-----------------------------------------------------------------------------
(* The line of a stream                                                    *)

LEMMA SeamsOfPrefix ==
    ASSUME NEW s, s \in Seq(EventRecord), NEW t, t \in Seq(EventRecord), Len(t) <= Len(s),
           \A i \in 1..Len(t) : t[i] = s[i], NEW B, Seams(s, B)
    PROVE  Seams(t, B)
<1>0. Len(s) \in Nat /\ Len(t) \in Nat
    BY LenProperties
<1> SUFFICES ASSUME NEW i \in 1..(Len(t) - 1) PROVE Seam(t[i], t[i + 1], B)
    BY DEF Seams
<1>1. i \in 1..(Len(s) - 1) /\ i \in 1..Len(t) /\ i + 1 \in 1..Len(t)
    BY <1>0
<1>2. Seam(s[i], s[i + 1], B)
    BY <1>1 DEF Seams
<1> QED BY <1>1, <1>2

(* What a buffer has in addition is newer than the line; what it loses     *)
(* does not matter.                                                        *)
AddsNewer(B, B2, l) == \A i \in 1..Len(B2) : B2[i].n > l \/ \E j \in 1..Len(B) : B2[i] = B[j]

LEMMA SeamsOfNewer ==
    ASSUME NEW s, s \in Seq(EventRecord), NEW l, l \in Nat, \A i \in 1..Len(s) : s[i].n <= l,
           NEW B, NEW B2, B2 \in Seq(EventRecord), Seams(s, B),
           AddsNewer(B, B2, l)
    PROVE  Seams(s, B2)
<1>0. Len(s) \in Nat /\ \A i \in 1..Len(s) : s[i].n \in Nat
    BY LenProperties, EventFields
<1> SUFFICES ASSUME NEW i \in 1..(Len(s) - 1), Events!SameNumbering(s[i], s[i + 1])
             PROVE  /\ s[i].n < s[i + 1].n
                    /\ \A m \in 1..Len(B2) : Events!SameNumbering(s[i], B2[m]) =>
                            B2[m].n <= s[i].n \/ B2[m].n >= s[i + 1].n
    BY DEF Seams, Seam
<1>1. /\ s[i].n < s[i + 1].n
      /\ \A m \in 1..Len(B) : Events!SameNumbering(s[i], B[m]) =>
              B[m].n <= s[i].n \/ B[m].n >= s[i + 1].n
    BY DEF Seams, Seam
<1>2. s[i + 1].n <= l /\ s[i + 1].n \in Nat
    BY <1>0
<1>3. ASSUME NEW m \in 1..Len(B2), Events!SameNumbering(s[i], B2[m])
      PROVE  B2[m].n <= s[i].n \/ B2[m].n >= s[i + 1].n
    <2>1. CASE B2[m].n > l
        <3>1. B2[m].n \in Nat
            BY EventFields
        <3> QED BY <1>2, <2>1, <3>1
    <2>2. CASE \E j \in 1..Len(B) : B2[m] = B[j]
        BY <1>1, <1>3, <2>2
    <2> QED BY <2>1, <2>2 DEF AddsNewer
<1> QED BY <1>1, <1>3

LEMMA SeamsOfAppend ==
    ASSUME NEW s, s \in Seq(EventRecord), NEW e, e \in EventRecord, NEW B, Seams(s, B),
           s # <<>> => Seam(s[Len(s)], e, B), NEW t, t = Append(s, e)
    PROVE  Seams(t, B)
<1>0. /\ t \in Seq(EventRecord) /\ Len(t) = Len(s) + 1 /\ Len(s) \in Nat
      /\ \A i \in 1..Len(t) : t[i] = IF i <= Len(s) THEN s[i] ELSE e
    BY Appended
<1> SUFFICES ASSUME NEW i \in 1..(Len(t) - 1) PROVE Seam(t[i], t[i + 1], B)
    BY DEF Seams
<1>1. CASE i < Len(s)
    <2>1. t[i] = s[i] /\ t[i + 1] = s[i + 1] /\ i \in 1..(Len(s) - 1)
        BY <1>0, <1>1
    <2> QED BY <2>1 DEF Seams
<1>2. CASE i >= Len(s)
    <2>1. t[i] = s[Len(s)] /\ t[i + 1] = e /\ Len(s) # 0
        BY <1>0, <1>2
    <2>2. s # <<>>
        BY <2>1, EmptySeq
    <2> QED BY <2>1, <2>2
<1> QED BY <1>0, <1>1, <1>2

(* f is the tail of b behind m, where the ids greater than a are.          *)
TailFrom(f, b, a, m) ==
    /\ \A i \in 1..Len(b) : b[i].id > a <=> i > m
    /\ f \in Seq(EventRecord) /\ Len(f) = Len(b) - m
    /\ \A i \in 1..Len(f) : f[i] = b[m + i]

(* filter((event) => event.id > lastId) keeps a tail of the buffer.        *)
LEMMA MissedIsTail ==
    ASSUME NEW o, NEW b, b = Events!Buffer(o), b \in Seq(EventRecord), NEW l,
           Numbered(b, o, l), NEW a, a \in Nat
    PROVE  \E m \in 0..Len(b) : TailFrom(Events!MissedSince(o, a), b, a, m)
<1>0. Len(b) \in Nat /\ \A i \in 1..Len(b) : b[i].id \in Nat
    BY LenProperties, EventFields
<1>1. \A i \in 1..Len(b) : b[i].id = b[1].id + i - 1
    BY DEF Numbered
<1>2. \E m \in 0..Len(b) : \A i \in 1..Len(b) : b[i].id > a <=> i > m
    <2>1. CASE Len(b) = 0 \/ b[1].id > a
        <3>1. ASSUME NEW i \in 1..Len(b) PROVE b[i].id > a <=> i > 0
            BY <1>0, <1>1, <2>1
        <3> WITNESS 0 \in 0..Len(b)
        <3> QED BY <3>1
    <2>2. CASE Len(b) # 0 /\ b[1].id <= a /\ a - b[1].id + 1 <= Len(b)
        <3>1. a - b[1].id + 1 \in 0..Len(b)
            BY <1>0, <2>2
        <3>2. ASSUME NEW i \in 1..Len(b) PROVE b[i].id > a <=> i > a - b[1].id + 1
            <4>1. PICK v \in Nat : v = b[1].id
                BY <1>0, <2>2
            <4>2. b[i].id = v + i - 1
                BY <1>1, <4>1
            <4>3. v + i - 1 > a <=> i > a - v + 1
                OBVIOUS
            <4> QED BY <4>1, <4>2, <4>3
        <3> WITNESS a - b[1].id + 1 \in 0..Len(b)
        <3> QED BY <3>2
    <2>3. CASE Len(b) # 0 /\ b[1].id <= a /\ a - b[1].id + 1 > Len(b)
        <3>1. ASSUME NEW i \in 1..Len(b) PROVE b[i].id > a <=> i > Len(b)
            BY <1>0, <1>1, <2>3
        <3> WITNESS Len(b) \in 0..Len(b)
        <3> QED BY <3>1
    <2>4. Len(b) = 0 \/ b[1].id \in Nat
        BY <1>0
    <2>5. Len(b) = 0 \/ b[1].id > a \/ b[1].id <= a
        BY <2>4
    <2>6. Len(b) = 0 \/ a - b[1].id + 1 <= Len(b) \/ a - b[1].id + 1 > Len(b)
        BY <1>0, <2>4
    <2> QED BY <2>1, <2>2, <2>3, <2>5, <2>6
<1>3. PICK m \in 0..Len(b) : \A i \in 1..Len(b) : b[i].id > a <=> i > m
    BY <1>2
<1>4. {i \in 1..Len(b) : b[i].id > a} = (m + 1)..Len(b)
    BY <1>0, <1>3
<1>5. PICK f : f = Events!MissedSince(o, a)
    OBVIOUS
<1>6. f = Events!Filter(b, (m + 1)..Len(b))
    BY <1>4, <1>5 DEF Events!MissedSince
<1>7. /\ f \in Seq(EventRecord) /\ Len(f) = Len(b) - m
      /\ \A i \in 1..Len(f) : f[i] = b[m + i]
    BY <1>6, FilterTail
<1> QED BY <1>3, <1>5, <1>7 DEF TailFrom

LEMMA ReplayedFields ==
    ASSUME NEW f, f \in Seq(EventRecord), NEW r, r = Events!Replayed(f)
    PROVE  /\ r \in Seq(EventRecord) /\ Len(r) = Len(f)
           /\ \A i \in 1..Len(r) : /\ r[i].order = f[i].order /\ r[i].n = f[i].n
                                   /\ r[i].id = f[i].id /\ r[i].replay
<1>0. Len(f) \in Nat
    BY LenProperties
<1> DEFINE g(i) == [f[i] EXCEPT !.replay = TRUE]
<1>1. ASSUME NEW i \in 1..Len(f)
      PROVE  /\ g(i) \in EventRecord /\ g(i).order = f[i].order /\ g(i).n = f[i].n
             /\ g(i).id = f[i].id /\ g(i).replay
    <2>1. f[i] \in EventRecord
        BY EventFields
    <2> QED BY <2>1 DEF EventRecord
<1>2. r = [i \in 1..Len(f) |-> g(i)]
    BY DEF Events!Replayed
<1> HIDE DEF g
<1>3. r \in Seq(EventRecord) /\ Len(r) = Len(f) /\ \A i \in 1..Len(r) : r[i] = g(i)
    BY <1>0, <1>1, <1>2
<1> QED BY <1>1, <1>3

LEMMA JoinedCases ==
    ASSUME NEW S, NEW a, a \in Seq(S), NEW b, b \in Seq(S), NEW l, l = a \o b
    PROVE  /\ Len(a) \in Nat /\ Len(b) \in Nat /\ l \in Seq(S) /\ Len(l) = Len(a) + Len(b)
           /\ \A i \in 1..Len(a) : i \in 1..Len(l) /\ l[i] = a[i]
           /\ \A i \in 1..Len(l) : (i \in 1..Len(a) /\ l[i] = a[i])
                                  \/ (i - Len(a) \in 1..Len(b) /\ l[i] = b[i - Len(a)])
<1>1. /\ Len(a) \in Nat /\ Len(b) \in Nat /\ l \in Seq(S) /\ Len(l) = Len(a) + Len(b)
      /\ \A i \in 1..Len(l) : l[i] = IF i <= Len(a) THEN a[i] ELSE b[i - Len(a)]
    BY Joined
<1>2. \A i \in 1..Len(a) : i \in 1..Len(l) /\ l[i] = a[i]
    BY <1>1
<1>3. ASSUME NEW i \in 1..Len(l)
      PROVE  (i \in 1..Len(a) /\ l[i] = a[i])
             \/ (i - Len(a) \in 1..Len(b) /\ l[i] = b[i - Len(a)])
    <2>1. CASE i <= Len(a)
        BY <1>1, <2>1
    <2>2. CASE i > Len(a)
        BY <1>1, <2>2
    <2> QED BY <1>1, <2>1, <2>2
<1> QED BY <1>1, <1>2, <1>3

LEMMA LineFields ==
    ASSUME NEW x, x \in StreamRecord, NEW a, a = x.got, NEW b, b = x.queue, NEW l, l = Line(x)
    PROVE  /\ a \in Seq(EventRecord) /\ Len(a) \in Nat
           /\ b \in Seq(EventRecord) /\ Len(b) \in Nat
           /\ l \in Seq(EventRecord) /\ Len(l) \in Nat
           /\ \A i \in 1..Len(a) : i \in 1..Len(l) /\ l[i] = a[i]
           /\ x.pc # "open" => l = a
           /\ x.pc = "open" => Len(l) = Len(a) + Len(b)
           /\ \A i \in 1..Len(l) : (i \in 1..Len(a) /\ l[i] = a[i])
                                  \/ (i - Len(a) \in 1..Len(b) /\ l[i] = b[i - Len(a)])
<1>1. a \in Seq(EventRecord)
    BY DEF StreamRecord
<1>2. b \in Seq(EventRecord)
    BY DEF StreamRecord
<1>3. Len(a) \in Nat /\ Len(b) \in Nat
    BY ONLY <1>1, <1>2, LenProperties
<1>4. CASE x.pc = "open"
    <2>1. l = a \o b
        BY <1>4 DEF Line
    <2>2. /\ l \in Seq(EventRecord) /\ Len(l) = Len(a) + Len(b)
          /\ \A i \in 1..Len(a) : i \in 1..Len(l) /\ l[i] = a[i]
          /\ \A i \in 1..Len(l) : (i \in 1..Len(a) /\ l[i] = a[i])
                                 \/ (i - Len(a) \in 1..Len(b) /\ l[i] = b[i - Len(a)])
        BY ONLY <1>1, <1>2, <2>1, JoinedCases
    <2>3. Len(l) \in Nat
        BY ONLY <1>3, <2>2
    <2> QED BY <1>1, <1>2, <1>3, <1>4, <2>2, <2>3, Zenon
<1>5. CASE x.pc # "open"
    <2>1. l = a
        BY <1>5 DEF Line
    <2> QED BY <1>1, <1>2, <1>3, <1>5, <2>1, Zenon
<1> QED BY <1>4, <1>5

LEMMA LineOfOrder ==
    ASSUME NEW x, x \in StreamRecord, NEW o, NEW L, OfOrder(x.got, o, L), OfOrder(x.queue, o, L)
    PROVE  OfOrder(Line(x), o, L)
<1>1. PICK a, b, l : a = x.got /\ b = x.queue /\ l = Line(x)
    OBVIOUS
<1>2. \A i \in 1..Len(l) : (i \in 1..Len(a) /\ l[i] = a[i])
                          \/ (i - Len(a) \in 1..Len(b) /\ l[i] = b[i - Len(a)])
    <2>1. x \in StreamRecord
        OBVIOUS
    <2> QED BY ONLY <1>1, <2>1, LineFields
<1>3. OfOrder(a, o, L) /\ OfOrder(b, o, L)
    BY <1>1
<1>4. OfOrder(l, o, L)
    BY <1>2, <1>3 DEF OfOrder
<1> QED BY <1>1, <1>4

(* A step that adds nothing to the line of a stream.                       *)
LEMMA StreamMoves ==
    ASSUME NEW k, NEW x, NEW y, NEW M, NEW L, NEW I, NEW X, StreamOK(k, x, M, L, I, X),
           PlaceOK(k, y), y.order = x.order, CheckedOK(k, y, I, X),
           \A i \in 1..Len(y.queue) : \E j \in 1..Len(x.queue) : y.queue[i] = x.queue[j],
           Len(Line(y)) <= Len(Line(x)), \A i \in 1..Len(Line(y)) : Line(y)[i] = Line(x)[i],
           y.pc = "open" => x.pc = "open" /\ Len(Line(y)) = Len(Line(x))
    PROVE  StreamOK(k, y, M, L, I, X)
<1>0. x \in StreamRecord /\ y \in StreamRecord
    BY DEF StreamOK, PlaceOK
<1>1. PICK B : B = BufferIn(M, x.order)
    OBVIOUS
<1>2. SeamlessOK(x, B, L)
    BY <1>1 DEF StreamOK
<1>3. PICK l : l = Line(x)
    OBVIOUS
<1>4. PICK m : m = Line(y)
    OBVIOUS
<1>4a. PICK g : g = y.got
    OBVIOUS
<1>5. l \in Seq(EventRecord) /\ Len(l) \in Nat
    BY <1>0, <1>3, LineFields
<1>6. /\ m \in Seq(EventRecord) /\ Len(m) \in Nat
      /\ \A i \in 1..Len(g) : i \in 1..Len(m) /\ m[i] = g[i]
    BY <1>0, <1>4, <1>4a, LineFields
<1>7. Len(m) <= Len(l) /\ \A i \in 1..Len(m) : m[i] = l[i]
    BY <1>3, <1>4
<1>8. OfOrder(l, x.order, L)
    BY <1>0, <1>2, <1>3, LineOfOrder DEF SeamlessOK
<1>9. OfOrder(y.got, y.order, L)
    <2>1. \A i \in 1..Len(g) : g[i] = l[i] /\ i \in 1..Len(l)
        BY ONLY <1>5, <1>6, <1>7
    <2>2. OfOrder(g, x.order, L)
        BY <1>8, <2>1 DEF OfOrder
    <2> QED BY <1>4a, <2>2
<1>10. OfOrder(y.queue, y.order, L)
    BY <1>2 DEF SeamlessOK, OfOrder
<1>11. Seams(m, B)
    <2>1. Seams(l, B)
        BY <1>2, <1>3 DEF SeamlessOK
    <2> QED BY <1>5, <1>6, <1>7, <2>1, SeamsOfPrefix
<1>12. ASSUME y.pc = "open", m # <<>> PROVE Newest(m[Len(m)], B)
    <2>1. Len(m) = Len(l) /\ x.pc = "open" /\ Len(m) # 0
        BY <1>3, <1>4, <1>6, <1>12, EmptySeq
    <2>2. m[Len(m)] = l[Len(l)] /\ l # <<>>
        BY <1>5, <1>6, <1>7, <2>1
    <2>3. Newest(l[Len(l)], B)
        BY <1>2, <1>3, <2>1, <2>2 DEF SeamlessOK
    <2> QED BY <2>2, <2>3
<1>13. SeamlessOK(y, BufferIn(M, y.order), L)
    BY <1>1, <1>4, <1>9, <1>10, <1>11, <1>12 DEF SeamlessOK
<1> QED BY <1>13 DEF StreamOK

(* The buffer and the log of another order change, or the buffer is lost.  *)
LEMMA StreamKeeps ==
    ASSUME NEW k, NEW x, NEW M, NEW L, NEW M2, NEW L2, NEW I, NEW X, StreamOK(k, x, M, L, I, X),
           BufferIn(M2, x.order) = BufferIn(M, x.order) \/ BufferIn(M2, x.order) = <<>>,
           x.order \in Orders => L2[x.order] = L[x.order]
    PROVE  StreamOK(k, x, M2, L2, I, X)
<1>1. PICK B : B = BufferIn(M, x.order)
    OBVIOUS
<1>2. PICK B2 : B2 = BufferIn(M2, x.order)
    OBVIOUS
<1>3. B2 = B \/ B2 = <<>>
    BY <1>1, <1>2
<1>4. SeamlessOK(x, B, L) /\ x \in StreamRecord
    BY <1>1 DEF StreamOK, PlaceOK
<1>5. Seams(Line(x), B2)
    BY <1>3, <1>4 DEF SeamlessOK, Seams, Seam
<1>6. x.pc = "open" /\ Line(x) # <<>> => Newest(Line(x)[Len(Line(x))], B2)
    BY <1>3, <1>4 DEF SeamlessOK, Newest
<1>7. OfOrder(x.got, x.order, L2) /\ OfOrder(x.queue, x.order, L2)
    <2>1. CASE x.order \in Orders
        BY <1>4, <2>1 DEF SeamlessOK, OfOrder
    <2>2. CASE x.order = None
        <3>1. x.got = <<>> /\ x.queue = <<>>
            BY <2>2 DEF StreamOK, PlaceOK
        <3> QED BY <3>1 DEF OfOrder
    <2> QED BY <1>4, <2>1, <2>2 DEF StreamRecord
<1>8. SeamlessOK(x, B2, L2)
    BY <1>5, <1>6, <1>7 DEF SeamlessOK
<1> QED BY <1>2, <1>8 DEF StreamOK

LEMMA MoreInvalid ==
    ASSUME NEW k, NEW x, NEW M, NEW L, NEW I, NEW X, StreamOK(k, x, M, L, I, X),
           NEW I2, NEW X2, I \subseteq I2, X \subseteq X2
    PROVE  StreamOK(k, x, M, L, I2, X2)
BY DEF StreamOK, CheckedOK

-----------------------------------------------------------------------------
(* The steps of a stream                                                   *)

(* A step of one stream.                                                   *)
LEMMA OneStream ==
    ASSUME EventsInv, NEW k, k \in Streams, NEW y,
           StreamOK(k, y, buffers, log, revoked, expired), stream' = [stream EXCEPT ![k] = y],
           UNCHANGED <<status, mixed, revoked, expired, crashes, buffers, log, socket, gateway>>
    PROVE  EventsInv'
<1>1. y \in StreamRecord
    BY DEF StreamOK, PlaceOK
<1>2. stream' \in [Streams -> StreamRecord]
    BY <1>1 DEF EventsInv
<1>3. ASSUME NEW j \in Streams
      PROVE  StreamOK(j, stream'[j], buffers, log, revoked, expired)
    <2>1. stream'[j] = IF j = k THEN y ELSE stream[j]
        BY DEF EventsInv
    <2> QED BY <2>1 DEF EventsInv
<1> QED BY <1>2, <1>3 DEF EventsInv

LEMMA NoClientFields ==
    ASSUME NEW x, x \in StreamRecord, NEW g, g \in Seq(EventRecord), NEW y, y = Events!HungUp(x, g)
    PROVE  /\ y \in StreamRecord /\ y.pc = "closed" /\ y.order = x.order /\ y.queue = <<>>
           /\ ~y.checking /\ y.base = Len(g) /\ y.got = g
<1>1. y = [pc |-> "closed", order |-> x.order, queue |-> <<>>, checking |-> FALSE,
           base |-> Len(g), got |-> g]
    BY DEF Events!HungUp, Events!NoClient
<1>2. x.order \in Orders \cup {None} /\ Len(g) \in Nat /\ <<>> \in Seq(EventRecord)
    BY LenProperties, EmptySeq DEF StreamRecord
<1>3. y \in StreamRecord
    BY <1>1, <1>2 DEF StreamRecord
<1> QED BY <1>1, <1>3

LEMMA HungUpOK ==
    ASSUME NEW k, NEW x, NEW M, NEW L, NEW I, NEW X, StreamOK(k, x, M, L, I, X),
           NEW g, g \in Seq(EventRecord), Len(g) <= Len(x.got),
           \A i \in 1..Len(g) : g[i] = x.got[i], NEW y, y = Events!HungUp(x, g)
    PROVE  StreamOK(k, y, M, L, I, X)
<1>0. x \in StreamRecord
    BY DEF StreamOK, PlaceOK
<1>1. /\ y \in StreamRecord /\ y.pc = "closed" /\ y.order = x.order /\ y.queue = <<>>
      /\ ~y.checking /\ y.base = Len(g) /\ y.got = g
    BY <1>0, NoClientFields
<1>2. PICK h : h = x.got
    OBVIOUS
<1>3. PICK l : l = Line(x)
    OBVIOUS
<1>4. /\ h \in Seq(EventRecord) /\ Len(h) \in Nat /\ Len(l) \in Nat
      /\ \A i \in 1..Len(h) : i \in 1..Len(l) /\ l[i] = h[i]
    BY <1>0, <1>2, <1>3, LineFields
<1>5. Len(g) \in Nat /\ Len(g) <= Len(h) /\ \A i \in 1..Len(g) : g[i] = h[i]
    BY <1>2, LenProperties
<1>6. Len(g) <= Len(l) /\ \A i \in 1..Len(g) : i \in 1..Len(h) /\ g[i] = l[i]
    BY ONLY <1>4, <1>5
<1>7. Line(y) = g
    BY <1>1 DEF Line
<1>8. x.order = None => g = <<>>
    <2>1. ASSUME x.order = None PROVE g = <<>>
        <3>1. Len(h) = 0
            BY <1>2, <2>1 DEF StreamOK, PlaceOK
        <3>2. Len(g) = 0
            BY ONLY <1>5, <3>1
        <3> QED BY <3>2, EmptySeq
    <2> QED BY <2>1
<1>9. PlaceOK(k, y)
    BY <1>1, <1>5, <1>8 DEF PlaceOK
<1>10. \A i \in 1..Len(g) : g[i].late => g[i].replay
    BY <1>2, <1>6 DEF StreamOK, CheckedOK
<1>11. CheckedOK(k, y, I, X)
    BY <1>1, <1>10 DEF CheckedOK
<1>12. /\ Len(Line(y)) <= Len(Line(x)) /\ \A i \in 1..Len(Line(y)) : Line(y)[i] = Line(x)[i]
       /\ y.pc # "open" /\ \A i \in 1..Len(y.queue) : FALSE
    BY <1>1, <1>3, <1>6, <1>7
<1> QED BY <1>1, <1>9, <1>11, <1>12, StreamMoves

(* What a step of a stream that has been subscribed leaves of the line.    *)
LEMMA SubscribedMoves ==
    ASSUME NEW k, NEW x, NEW M, NEW L, NEW I, NEW X, StreamOK(k, x, M, L, I, X),
           NEW y, y \in StreamRecord, y.order = x.order, y.base = x.base,
           x.pc \in {"open", "ended"}, y.pc \in {"open", "ended"},
           x.pc = "ended" => y.pc = "ended", y.checking => y.queue # <<>>,
           y.got = x.got, y.queue = x.queue \/ (y.queue = <<>> /\ y.pc = "ended"),
           y.checking /\ y.queue[1].late => UserOf[k] \in I
    PROVE  StreamOK(k, y, M, L, I, X)
<1>0. x \in StreamRecord
    BY DEF StreamOK, PlaceOK
<1>1. PlaceOK(k, y)
    BY DEF StreamOK, PlaceOK, StreamRecord
<1>2. CheckedOK(k, y, I, X)
    BY DEF StreamOK, CheckedOK
<1>3. \A i \in 1..Len(y.queue) : \E j \in 1..Len(x.queue) : y.queue[i] = x.queue[j]
    OBVIOUS
<1>4. /\ Len(Line(y)) <= Len(Line(x)) /\ \A i \in 1..Len(Line(y)) : Line(y)[i] = Line(x)[i]
      /\ y.pc = "open" => x.pc = "open" /\ Len(Line(y)) = Len(Line(x))
    <2>1. PICK g : g = x.got
        OBVIOUS
    <2>2. PICK l : l = Line(x)
        OBVIOUS
    <2>3. /\ Len(g) \in Nat /\ Len(l) \in Nat /\ \A i \in 1..Len(g) : i \in 1..Len(l) /\ l[i] = g[i]
        BY <1>0, <2>1, <2>2, LineFields
    <2>4. CASE y.pc = "open"
        <3>1. Line(y) = Line(x) /\ x.pc = "open"
            BY <2>4 DEF Line
        <3> QED BY <2>2, <2>3, <2>4, <3>1
    <2>5. CASE y.pc = "ended"
        <3>1. Line(y) = g
            BY <2>1, <2>5 DEF Line
        <3>2. Len(g) <= Len(l) /\ \A i \in 1..Len(g) : g[i] = l[i]
            BY ONLY <2>3
        <3> QED BY <2>2, <2>5, <3>1, <3>2
    <2> QED BY <2>4, <2>5
<1> QED BY <1>1, <1>2, <1>3, <1>4, StreamMoves

LEMMA EndFields ==
    ASSUME NEW x, x \in StreamRecord, NEW y, y = Events!End(x)
    PROVE  /\ y \in StreamRecord /\ y.pc = "ended" /\ y.order = x.order /\ y.queue = <<>>
           /\ ~y.checking /\ y.base = x.base /\ y.got = x.got
<1>1. y = [pc |-> "ended", order |-> x.order, queue |-> <<>>, checking |-> FALSE,
           base |-> x.base, got |-> x.got]
    BY DEF Events!End, StreamRecord
<1>2. <<>> \in Seq(EventRecord)
    BY EmptySeq
<1>3. y \in StreamRecord
    BY <1>1, <1>2 DEF StreamRecord
<1> QED BY <1>1, <1>3

LEMMA EndOK ==
    ASSUME NEW k, NEW x, NEW M, NEW L, NEW I, NEW X, StreamOK(k, x, M, L, I, X),
           x.queue # <<>>, NEW y, y = Events!End(x)
    PROVE  StreamOK(k, y, M, L, I, X)
<1>1. x \in StreamRecord /\ x.pc \in {"open", "ended"}
    BY DEF StreamOK, PlaceOK, StreamRecord
<1>2. /\ y \in StreamRecord /\ y.pc = "ended" /\ y.order = x.order /\ y.queue = <<>>
      /\ ~y.checking /\ y.base = x.base /\ y.got = x.got
    BY <1>1, EndFields
<1> QED BY <1>1, <1>2, SubscribedMoves

LEMMA ConnectStep ==
    ASSUME EventsInv, NEW k \in Streams, NEW o \in Orders, Events!Connect(k, o)
    PROVE  EventsInv'
<1>1. PICK x : x = stream[k]
    OBVIOUS
<1>2. x \in StreamRecord /\ StreamOK(k, x, buffers, log, revoked, expired)
    BY <1>1 DEF EventsInv
<1>3. x.pc = "closed" /\ x.order \in {o, None}
    BY <1>1 DEF Events!Connect
<1>4. PICK y : y = [x EXCEPT !.pc = "owner", !.order = o]
    OBVIOUS
<1>5. stream' = [stream EXCEPT ![k] = y]
    BY <1>1, <1>4 DEF Events!Connect
<1>6. /\ y \in StreamRecord /\ y.pc = "owner" /\ y.order = o /\ y.queue = x.queue
      /\ y.checking = x.checking /\ y.base = x.base /\ y.got = x.got
    BY <1>2, <1>4 DEF StreamRecord
<1>7. Line(x) = x.got /\ Line(y) = x.got
    BY <1>3, <1>6 DEF Line
<1>8. x.queue = <<>> /\ ~x.checking
    BY <1>2, <1>3 DEF StreamOK, PlaceOK
<1>9. PlaceOK(k, y)
    BY <1>2, <1>6, <1>8, EventsAssumed DEF StreamOK, PlaceOK
<1>10. CheckedOK(k, y, revoked, expired)
    BY <1>2, <1>6 DEF StreamOK, CheckedOK
<1>11. StreamOK(k, y, buffers, log, revoked, expired)
    <2>1. CASE x.order = o
        BY <1>2, <1>6, <1>7, <1>9, <1>10, <2>1 DEF StreamOK, SeamlessOK
    <2>2. CASE x.order = None
        <3>1. x.got = <<>>
            BY <1>2, <2>2 DEF StreamOK, PlaceOK
        <3>2. OfOrder(<<>>, o, log) /\ \A B : Seams(<<>>, B)
            BY DEF OfOrder, Seams
        <3>3. SeamlessOK(y, BufferIn(buffers, o), log)
            BY <1>6, <1>7, <1>8, <3>1, <3>2 DEF SeamlessOK
        <3> QED BY <1>6, <1>9, <1>10, <3>3 DEF StreamOK
    <2> QED BY <1>3, <2>1, <2>2
<1> QED BY <1>5, <1>11, OneStream DEF Events!Connect, Events!busVars, Events!tokenVars

LEMMA CheckStep ==
    ASSUME EventsInv, NEW k \in Streams, Events!BeginCheck(k)
    PROVE  EventsInv'
<1>1. PICK x : x = stream[k]
    OBVIOUS
<1>2. x \in StreamRecord /\ StreamOK(k, x, buffers, log, revoked, expired)
    BY <1>1 DEF EventsInv
<1>3. x.queue # <<>> /\ ~x.checking
    BY <1>1 DEF Events!BeginCheck
<1>4. PICK y : y = IF Events!HasExpired(UserOf[k]) THEN Events!End(x)
                   ELSE [x EXCEPT !.checking = TRUE]
    OBVIOUS
<1>5. stream' = [stream EXCEPT ![k] = y]
    BY <1>1, <1>4 DEF Events!BeginCheck
<1>6. StreamOK(k, y, buffers, log, revoked, expired)
    <2>1. CASE Events!HasExpired(UserOf[k])
        BY <1>2, <1>3, <1>4, <2>1, EndOK
    <2>2. CASE ~Events!HasExpired(UserOf[k])
        <3>1. /\ y \in StreamRecord /\ y.pc = x.pc /\ y.order = x.order /\ y.queue = x.queue
              /\ y.checking /\ y.base = x.base /\ y.got = x.got
            BY <1>2, <1>4, <2>2 DEF StreamRecord
        <3>2. x.pc \in {"open", "ended"}
            BY <1>2, <1>3 DEF StreamOK, PlaceOK, StreamRecord
        <3>3. 1 \in 1..Len(x.queue)
            <4>1. PICK q : q = x.queue
                OBVIOUS
            <4>2. q \in Seq(EventRecord) /\ q # <<>>
                BY <1>2, <1>3, <4>1 DEF StreamRecord
            <4>3. 1 \in 1..Len(q)
                BY ONLY <4>2, EmptySeq
            <4> QED BY <4>1, <4>3
        <3>4. y.queue[1].late => UserOf[k] \in revoked
            BY <1>2, <2>2, <3>1, <3>3 DEF StreamOK, CheckedOK, Events!HasExpired
        <3> QED BY <1>2, <1>3, <3>1, <3>2, <3>4, SubscribedMoves
    <2> QED BY <2>1, <2>2
<1> QED BY <1>5, <1>6, OneStream DEF Events!BeginCheck, Events!busVars, Events!tokenVars

LEMMA UnavailableStep ==
    ASSUME EventsInv, NEW k \in Streams, Events!CheckUnavailable(k)
    PROVE  EventsInv'
<1>1. PICK x : x = stream[k]
    OBVIOUS
<1>2. StreamOK(k, x, buffers, log, revoked, expired) /\ x.queue # <<>>
    BY <1>1 DEF EventsInv, Events!CheckUnavailable
<1>3. PICK y : y = Events!End(x)
    OBVIOUS
<1>4. stream' = [stream EXCEPT ![k] = y]
    BY <1>1, <1>3 DEF Events!CheckUnavailable
<1>5. StreamOK(k, y, buffers, log, revoked, expired)
    BY <1>2, <1>3, EndOK
<1> QED BY <1>4, <1>5, OneStream DEF Events!CheckUnavailable, Events!busVars, Events!tokenVars

LEMMA TimerStep ==
    ASSUME EventsInv, NEW k \in Streams, Events!ExpiryTimer(k)
    PROVE  EventsInv'
<1>1. PICK x : x = stream[k]
    OBVIOUS
<1>2. x \in StreamRecord /\ StreamOK(k, x, buffers, log, revoked, expired) /\ x.pc = "open"
    BY <1>1 DEF EventsInv, Events!ExpiryTimer
<1>3. PICK y : y = [x EXCEPT !.pc = "ended"]
    OBVIOUS
<1>4. stream' = [stream EXCEPT ![k] = y]
    BY <1>1, <1>3 DEF Events!ExpiryTimer
<1>5. /\ y \in StreamRecord /\ y.pc = "ended" /\ y.order = x.order /\ y.queue = x.queue
      /\ y.checking = x.checking /\ y.base = x.base /\ y.got = x.got
    BY <1>2, <1>3 DEF StreamRecord
<1>6. /\ y.checking => y.queue # <<>>
      /\ y.checking /\ y.queue[1].late => UserOf[k] \in revoked
    BY <1>2, <1>5 DEF StreamOK, PlaceOK, CheckedOK
<1>7. StreamOK(k, y, buffers, log, revoked, expired)
    BY <1>2, <1>5, <1>6, SubscribedMoves
<1> QED BY <1>4, <1>7, OneStream DEF Events!ExpiryTimer, Events!busVars, Events!tokenVars

LEMMA CloseStreamStep ==
    ASSUME EventsInv, NEW k \in Streams, Events!Close(k)
    PROVE  EventsInv'
<1>1. PICK x : x = stream[k]
    OBVIOUS
<1>2. x \in StreamRecord /\ StreamOK(k, x, buffers, log, revoked, expired)
    BY <1>1 DEF EventsInv
<1>3. PICK m \in x.base..Len(x.got) :
          stream' = [stream EXCEPT ![k] = Events!HungUp(stream[k], SubSeq(stream[k].got, 1, m))]
    BY <1>1 DEF Events!Close
<1>4. PICK h : h = x.got
    OBVIOUS
<1>5. h \in Seq(EventRecord) /\ x.base \in Nat
    BY <1>2, <1>4 DEF StreamRecord
<1>6. PICK g : g = SubSeq(h, 1, m)
    OBVIOUS
<1>7. m \in 0..Len(h)
    BY <1>3, <1>4, <1>5
<1>8. g \in Seq(EventRecord) /\ Len(g) = m /\ \A i \in 1..m : g[i] = h[i]
    BY ONLY <1>5, <1>6, <1>7, Prefix
<1>9. Len(g) <= Len(h)
    BY <1>5, <1>7, <1>8, LenProperties
<1>10. PICK y : y = Events!HungUp(x, g)
    OBVIOUS
<1>11. StreamOK(k, y, buffers, log, revoked, expired)
    BY <1>2, <1>4, <1>8, <1>9, <1>10, HungUpOK
<1>12. stream' = [stream EXCEPT ![k] = y]
    BY <1>1, <1>3, <1>4, <1>6, <1>10
<1> QED BY <1>11, <1>12, OneStream DEF Events!Close, Events!busVars, Events!tokenVars

(* The head of the queue moves to the end of what has been received.       *)
LEMMA LineMoves ==
    ASSUME NEW S, NEW g, g \in Seq(S), NEW q, q \in Seq(S), q # <<>>,
           NEW g2, g2 = Append(g, Head(q)), NEW q2, q2 = Tail(q)
    PROVE  g2 \o q2 = g \o q
<1>1. /\ q2 \in Seq(S) /\ Len(q2) = Len(q) - 1 /\ Len(q) \in Nat \ {0}
      /\ Head(q) = q[1] /\ q[1] \in S /\ \A i \in 1..Len(q2) : q2[i] = q[i + 1]
    BY Tailed
<1>2. /\ g2 \in Seq(S) /\ Len(g2) = Len(g) + 1 /\ Len(g) \in Nat
      /\ \A i \in 1..Len(g2) : g2[i] = IF i <= Len(g) THEN g[i] ELSE Head(q)
    BY <1>1, Appended
<1>3. PICK a : a = g \o q
    OBVIOUS
<1>4. PICK b : b = g2 \o q2
    OBVIOUS
<1>5. /\ a \in Seq(S) /\ Len(a) = Len(g) + Len(q)
      /\ \A i \in 1..Len(a) : a[i] = IF i <= Len(g) THEN g[i] ELSE q[i - Len(g)]
    BY <1>3, Joined
<1>6. /\ b \in Seq(S) /\ Len(b) = Len(g2) + Len(q2)
      /\ \A i \in 1..Len(b) : b[i] = IF i <= Len(g2) THEN g2[i] ELSE q2[i - Len(g2)]
    <2>1. g2 \in Seq(S)
        BY <1>2
    <2>2. q2 \in Seq(S)
        BY <1>1
    <2> QED BY ONLY <1>4, <2>1, <2>2, Joined
<1>7. PICK m, n : m = Len(g) /\ n = Len(q) - 1 /\ m \in Nat /\ n \in Nat
    BY ONLY <1>1, <1>2
<1>8. Len(g2) = m + 1 /\ Len(q2) = n /\ Len(q) = n + 1
    BY ONLY <1>1, <1>2, <1>7
<1>9. Len(a) = m + n + 1 /\ Len(b) = m + n + 1
    BY ONLY <1>5, <1>6, <1>7, <1>8
<1>10. ASSUME NEW i \in 1..(m + n + 1) PROVE a[i] = b[i]
    <2>1. a[i] = IF i <= m THEN g[i] ELSE q[i - m]
        BY ONLY <1>5, <1>7, <1>9, i \in 1..(m + n + 1)
    <2>2. b[i] = IF i <= m + 1 THEN g2[i] ELSE q2[i - (m + 1)]
        BY ONLY <1>6, <1>8, <1>9, i \in 1..(m + n + 1)
    <2>3. CASE i <= m
        <3>1. g2[i] = g[i]
            BY ONLY <1>2, <1>7, <1>8, <2>3, i \in 1..(m + n + 1)
        <3> QED BY ONLY <1>7, <2>1, <2>2, <2>3, <3>1, i \in 1..(m + n + 1)
    <2>4. CASE i = m + 1
        <3>1. g2[m + 1] = q[1]
            BY ONLY <1>1, <1>2, <1>7, <1>8
        <3>2. i - m = 1
            BY ONLY <1>7, <2>4
        <3> QED BY ONLY <1>7, <2>1, <2>2, <2>4, <3>1, <3>2
    <2>5. CASE i > m + 1
        <3>1. i - (m + 1) \in 1..n /\ (i - (m + 1)) + 1 = i - m
            BY ONLY <1>7, <2>5, i \in 1..(m + n + 1)
        <3>2. q2[i - (m + 1)] = q[i - m]
            BY ONLY <1>1, <1>8, <3>1
        <3> QED BY ONLY <1>7, <2>1, <2>2, <2>5, <3>2, i \in 1..(m + n + 1)
    <2> QED BY ONLY <1>7, <2>3, <2>4, <2>5, i \in 1..(m + n + 1)
<1> QED BY <1>3, <1>4, <1>5, <1>6, <1>9, <1>10, SeqEqual

Written(x, q, g) == [x EXCEPT !.queue = q, !.checking = FALSE, !.got = g]

LEMMA WrittenFields ==
    ASSUME NEW x, x \in StreamRecord, NEW q, q \in Seq(EventRecord), NEW g, g \in Seq(EventRecord),
           NEW y, y = Written(x, q, g)
    PROVE  /\ y \in StreamRecord /\ y.pc = x.pc /\ y.order = x.order /\ y.queue = q
           /\ ~y.checking /\ y.base = x.base /\ y.got = g
<1>1. y = [pc |-> x.pc, order |-> x.order, queue |-> q, checking |-> FALSE,
           base |-> x.base, got |-> g]
    BY DEF Written, StreamRecord
<1>2. y \in StreamRecord
    BY <1>1 DEF StreamRecord
<1> QED BY <1>1, <1>2

LEMMA WriteStep ==
    ASSUME EventsInv, NEW k \in Streams, Events!WriteEvent(k)
    PROVE  EventsInv'
<1>1. PICK x : x = stream[k]
    OBVIOUS
<1>2. x \in StreamRecord /\ StreamOK(k, x, buffers, log, revoked, expired) /\ x.checking
    BY <1>1 DEF EventsInv, Events!WriteEvent
<1>3. x.queue # <<>> /\ x.pc \in {"open", "ended"}
    BY <1>2 DEF StreamOK, PlaceOK, StreamRecord
<1>4. PICK q : q = x.queue
    OBVIOUS
<1>5. PICK g : g = x.got
    OBVIOUS
<1>6. q \in Seq(EventRecord) /\ g \in Seq(EventRecord) /\ q # <<>>
    BY <1>2, <1>3, <1>4, <1>5 DEF StreamRecord
<1>7. PICK q2 : q2 = Tail(q)
    OBVIOUS
<1>8. /\ q2 \in Seq(EventRecord) /\ Len(q2) = Len(q) - 1 /\ Len(q) \in Nat \ {0}
      /\ Head(q) = q[1] /\ q[1] \in EventRecord /\ \A i \in 1..Len(q2) : q2[i] = q[i + 1]
    BY ONLY <1>6, <1>7, Tailed
<1>9. PICK g2 : g2 = Append(g, Head(q))
    OBVIOUS
<1>10. Head(q) \in EventRecord
    BY ONLY <1>8
<1>11. /\ g2 \in Seq(EventRecord) /\ Len(g2) = Len(g) + 1 /\ Len(g) \in Nat
       /\ \A i \in 1..Len(g2) : g2[i] = IF i <= Len(g) THEN g[i] ELSE Head(q)
    BY ONLY <1>6, <1>9, <1>10, Appended
<1>12. PICK y : y = IF Events!IsDenied(UserOf[k]) THEN Events!End(x)
                    ELSE [x EXCEPT !.queue = Tail(x.queue), !.checking = FALSE,
                                   !.got = IF x.pc = "open" THEN Append(x.got, Head(x.queue))
                                           ELSE x.got]
    OBVIOUS
<1>13. stream' = [stream EXCEPT ![k] = y]
    BY <1>1, <1>12 DEF Events!WriteEvent
<1>14. CASE Events!IsDenied(UserOf[k])
    <2>1. StreamOK(k, y, buffers, log, revoked, expired)
        BY <1>2, <1>3, <1>12, <1>14, EndOK
    <2> QED BY <1>13, <2>1, OneStream DEF Events!WriteEvent, Events!busVars, Events!tokenVars
<1>15. CASE ~Events!IsDenied(UserOf[k])
    <2>1. PICK h \in Seq(EventRecord) : h = IF x.pc = "open" THEN g2 ELSE g
        BY <1>6, <1>11
    <2>2. y = Written(x, q2, h)
        BY <1>4, <1>5, <1>7, <1>9, <1>12, <1>15, <2>1 DEF Written
    <2>3. /\ y \in StreamRecord /\ y.pc = x.pc /\ y.order = x.order /\ y.queue = q2
          /\ ~y.checking /\ y.base = x.base /\ y.got = h
        <3>1. q2 \in Seq(EventRecord)
            BY <1>8
        <3>2. x \in StreamRecord
            BY <1>2
        <3>3. h \in Seq(EventRecord)
            BY <2>1
        <3> QED BY ONLY <2>2, <3>1, <3>2, <3>3, WrittenFields
    <2>4. Len(g) <= Len(h) /\ Len(h) \in Nat
        BY <1>11, <2>1
    <2>5. x.base <= Len(g) /\ x.base \in Nat
        BY <1>2, <1>5 DEF StreamOK, PlaceOK, StreamRecord
    <2>6. x.order # None /\ Owner[x.order] = UserOf[k]
        BY <1>2, <1>3 DEF StreamOK, PlaceOK
    <2>7. PlaceOK(k, y)
        <3>1. y.base <= Len(y.got)
            BY <2>3, <2>4, <2>5
        <3> QED BY <1>3, <2>3, <2>6, <3>1 DEF PlaceOK
    <2>8. ~Head(q).late
        <3>1. x.queue[1].late => UserOf[k] \in revoked
            BY <1>2 DEF StreamOK, CheckedOK
        <3> QED BY <1>4, <1>8, <1>15, <3>1 DEF Events!IsDenied
    <2>9. \A i \in 1..Len(h) : h[i].late => h[i].replay
        <3>1. \A i \in 1..Len(g) : g[i].late => g[i].replay
            BY <1>2, <1>5 DEF StreamOK, CheckedOK
        <3>2. \A i \in 1..Len(g2) : g2[i].late => g2[i].replay
            BY <1>11, <2>8, <3>1
        <3> QED BY <2>1, <3>1, <3>2
    <2>10. \A i \in 1..Len(q2) : i + 1 \in 1..Len(q) /\ q2[i] = q[i + 1]
        BY ONLY <1>8
    <2>11. CheckedOK(k, y, revoked, expired)
        <3>1. \A i \in 1..Len(q) : q[i].late => UserOf[k] \in revoked \cup expired
            BY <1>2, <1>4 DEF StreamOK, CheckedOK
        <3> QED BY <2>3, <2>9, <2>10, <3>1 DEF CheckedOK
    <2>12. Line(y) = Line(x)
        <3>1. CASE x.pc = "open"
            <4>1. g2 \o q2 = g \o q
                BY ONLY <1>6, <1>7, <1>9, LineMoves
            <4> QED BY <1>4, <1>5, <2>1, <2>3, <3>1, <4>1 DEF Line
        <3>2. CASE x.pc = "ended"
            BY <1>5, <2>1, <2>3, <3>2 DEF Line
        <3> QED BY <1>3, <3>1, <3>2
    <2>13. Len(Line(x)) \in Nat
        BY <1>2, LineFields
    <2>14. \A i \in 1..Len(y.queue) : \E j \in 1..Len(x.queue) : y.queue[i] = x.queue[j]
        BY <1>4, <2>3, <2>10
    <2>15. /\ Len(Line(y)) <= Len(Line(x)) /\ \A i \in 1..Len(Line(y)) : Line(y)[i] = Line(x)[i]
           /\ y.pc = "open" => x.pc = "open" /\ Len(Line(y)) = Len(Line(x))
        BY <2>3, <2>12, <2>13
    <2>16. StreamOK(k, y, buffers, log, revoked, expired)
        BY <1>2, <2>3, <2>7, <2>11, <2>14, <2>15, StreamMoves
    <2> QED BY <1>13, <2>16, OneStream DEF Events!WriteEvent, Events!busVars, Events!tokenVars
<1> QED BY <1>14, <1>15

-----------------------------------------------------------------------------
(* Subscribe: the replay                                                   *)

(* The events the client has, then the rest of the buffer.                 *)
LEMMA ReplayIsSeam ==
    ASSUME NEW b, b \in Seq(EventRecord), NEW o, NEW l, l \in Nat, Numbered(b, o, l),
           NEW g, g \in Seq(EventRecord), g # <<>>, Seams(g, b),
           NEW r, r \in Seq(EventRecord), NEW m, m \in 0..Len(b), Len(r) = Len(b) - m,
           \A i \in 1..Len(b) : b[i].id > g[Len(g)].id <=> i > m,
           \A i \in 1..Len(r) : r[i].n = b[m + i].n /\ r[i].id = b[m + i].id,
           NEW t, t = g \o r
    PROVE  Seams(t, b) /\ Newest(t[Len(t)], b)
<1>1. /\ Len(b) \in Nat /\ Len(g) \in Nat \ {0} /\ Len(r) \in Nat
      /\ \A i \in 1..Len(b) : b[i].id \in Nat /\ b[i].n \in Nat
      /\ \A i \in 1..Len(g) : g[i].id \in Nat /\ g[i].n \in Nat
      /\ \A i \in 1..Len(r) : r[i].id \in Nat /\ r[i].n \in Nat
    BY LenProperties, EmptySeq, EventFields
<1>2. /\ t \in Seq(EventRecord) /\ Len(t) = Len(g) + Len(r)
      /\ \A i \in 1..Len(t) : t[i] = IF i <= Len(g) THEN g[i] ELSE r[i - Len(g)]
    BY ONLY g \in Seq(EventRecord), r \in Seq(EventRecord), t = g \o r, Joined
<1>3. \A i, j \in 1..Len(b) : i <= j => b[i].n <= b[j].n
    BY <1>1 DEF Numbered
<1>4. \A i, j \in 1..Len(b) : i < j => b[i].n < b[j].n
    BY <1>1 DEF Numbered
<1>5. PICK a : a = g[Len(g)]
    OBVIOUS
<1>6. a.id \in Nat /\ a.n \in Nat /\ \A i \in 1..Len(b) : b[i].id > a.id <=> i > m
    BY <1>1, <1>5
<1>7. ASSUME NEW j \in 1..Len(b), Events!SameNumbering(a, b[j])
      PROVE  b[j].n > a.n <=> j > m
    BY <1>1, <1>6, <1>7 DEF Events!SameNumbering
<1>8. \A i \in 1..Len(r) : m + i \in 1..Len(b) /\ r[i].n = b[m + i].n /\ r[i].id = b[m + i].id
    BY <1>1
<1>9. ASSUME NEW i \in 1..(Len(t) - 1) PROVE Seam(t[i], t[i + 1], b)
    <2>1. CASE i < Len(g)
        <3>1. t[i] = g[i] /\ t[i + 1] = g[i + 1] /\ i \in 1..(Len(g) - 1)
            BY <1>1, <1>2, <2>1
        <3> QED BY <3>1 DEF Seams
    <2>2. CASE i = Len(g)
        <3>1. t[i] = a /\ t[i + 1] = r[1] /\ 1 \in 1..Len(r)
            BY <1>1, <1>2, <1>5, <2>2
        <3>2. r[1].n = b[m + 1].n /\ r[1].id = b[m + 1].id /\ m + 1 \in 1..Len(b)
            BY <1>8, <3>1
        <3>3. ASSUME Events!SameNumbering(a, r[1])
              PROVE  /\ a.n < r[1].n
                     /\ \A j \in 1..Len(b) : Events!SameNumbering(a, b[j]) =>
                            b[j].n <= a.n \/ b[j].n >= r[1].n
            <4>1. Events!SameNumbering(a, b[m + 1])
                BY <3>2, <3>3 DEF Events!SameNumbering
            <4>2. a.n < r[1].n
                <5>1. b[m + 1].n > a.n
                    <6>1. b[m + 1].n > a.n <=> m + 1 > m
                        BY <1>7, <3>2, <4>1
                    <6>2. m + 1 > m
                        BY <1>1
                    <6> QED BY <6>1, <6>2
                <5> QED BY <1>1, <1>6, <3>2, <5>1
            <4>3. ASSUME NEW j \in 1..Len(b), Events!SameNumbering(a, b[j])
                  PROVE  b[j].n <= a.n \/ b[j].n >= r[1].n
                <5>1. CASE j > m
                    BY <1>1, <1>3, <3>2, <5>1
                <5>2. CASE j <= m
                    BY <1>1, <1>6, <1>7, <4>3, <5>2
                <5> QED BY <5>1, <5>2
            <4> QED BY <4>2, <4>3
        <3> QED BY <3>1, <3>3 DEF Seam
    <2>3. CASE i > Len(g)
        <3>1. PICK p : p = i - Len(g)
            OBVIOUS
        <3>2. p \in 1..Len(r) /\ p + 1 \in 1..Len(r) /\ t[i] = r[p] /\ t[i + 1] = r[p + 1]
            BY <1>1, <1>2, <2>3, <3>1
        <3>3. /\ r[p].n = b[m + p].n /\ r[p + 1].n = b[m + p + 1].n
              /\ m + p \in 1..Len(b) /\ m + p + 1 \in 1..Len(b)
            <4>1. m + (p + 1) = m + p + 1
                BY <3>2
            <4> QED BY <1>8, <3>2, <4>1
        <3>4. r[p].n < r[p + 1].n
            <4>1. m + p < m + p + 1
                BY <3>2
            <4> QED BY <1>4, <3>3, <4>1
        <3>5. ASSUME NEW j \in 1..Len(b) PROVE b[j].n <= r[p].n \/ b[j].n >= r[p + 1].n
            <4>1. CASE j <= m + p
                BY <1>3, <3>3, <4>1
            <4>2. CASE j >= m + p + 1
                BY <1>3, <3>3, <4>2
            <4> QED BY <3>2, <4>1, <4>2
        <3> QED BY <3>2, <3>4, <3>5 DEF Seam
    <2> QED BY <1>1, <2>1, <2>2, <2>3
<1>10. Newest(t[Len(t)], b)
    <2>1. CASE Len(r) = 0
        <3>1. t[Len(t)] = a /\ m = Len(b)
            BY <1>1, <1>2, <1>5, <2>1
        <3>2. ASSUME NEW j \in 1..Len(b), Events!SameNumbering(a, b[j]) PROVE b[j].n <= a.n
            BY <1>1, <1>6, <1>7, <3>1, <3>2
        <3> QED BY <3>1, <3>2 DEF Newest
    <2>2. CASE Len(r) # 0
        <3>1. t[Len(t)] = r[Len(r)] /\ Len(r) \in 1..Len(r) /\ m + Len(r) = Len(b)
            BY <1>1, <1>2, <2>2
        <3>2. r[Len(r)].n = b[Len(b)].n /\ Len(b) \in 1..Len(b)
            BY <1>8, <3>1
        <3>3. \A j \in 1..Len(b) : b[j].n <= b[Len(b)].n
            BY <1>1, <1>3, <3>2
        <3> QED BY <3>1, <3>2, <3>3 DEF Newest
    <2> QED BY <2>1, <2>2
<1> QED BY <1>9, <1>10 DEF Seams

Opened(x, n, g) == [x EXCEPT !.pc = "open", !.base = n, !.got = g]

LEMMA OpenedFields ==
    ASSUME NEW x, x \in StreamRecord, NEW n, n \in Nat, NEW g, g \in Seq(EventRecord),
           NEW y, y = Opened(x, n, g)
    PROVE  /\ y \in StreamRecord /\ y.pc = "open" /\ y.order = x.order /\ y.queue = x.queue
           /\ y.checking = x.checking /\ y.base = n /\ y.got = g
<1>1. y = [pc |-> "open", order |-> x.order, queue |-> x.queue, checking |-> x.checking,
           base |-> n, got |-> g]
    BY DEF Opened, StreamRecord
<1>2. y \in StreamRecord
    BY <1>1 DEF StreamRecord
<1> QED BY <1>1, <1>2

(* What a client with the events g has after the replay.                   *)
SeenWith(o, g) == g \o Events!Replayed(Events!MissedSince(o, g[Len(g)].id))

LEMMA SeenFields ==
    ASSUME MapOK(buffers, log), log \in [Orders -> Seq(Events!Status)], NEW o, o \in Orders,
           NEW b, b = BufferIn(buffers, o), NEW g, g \in Seq(EventRecord), g # <<>>,
           OfOrder(g, o, log), Seams(g, b), NEW t, t = SeenWith(o, g)
    PROVE  /\ t \in Seq(EventRecord) /\ Len(g) <= Len(t) /\ OfOrder(t, o, log)
           /\ Seams(t, b) /\ Newest(t[Len(t)], b)
           /\ \A i \in 1..Len(t) : t[i].replay \/ \E j \in 1..Len(g) : t[i] = g[j]
<1>1. b \in Seq(EventRecord) /\ Numbered(b, o, Len(log[o])) /\ Len(log[o]) \in Nat
    BY BufferFacts
<1>2. b = Events!Buffer(o)
    BY DEF BufferIn, Events!Buffer, Events!Has, Events!Place
<1>3. PICK a : a = g[Len(g)].id
    OBVIOUS
<1>4. Len(g) \in Nat \ {0} /\ Len(b) \in Nat
    BY <1>1, LenProperties, EmptySeq
<1>5. a \in Nat
    BY <1>3, <1>4, EventFields
<1>f. PICK f : f = Events!MissedSince(o, a)
    OBVIOUS
<1>r. PICK r : r = Events!Replayed(f)
    OBVIOUS
<1>t. t = g \o r
    BY <1>3, <1>f, <1>r DEF SeenWith
<1>6. PICK m \in 0..Len(b) :
          /\ \A i \in 1..Len(b) : b[i].id > a <=> i > m
          /\ f \in Seq(EventRecord) /\ Len(f) = Len(b) - m
          /\ \A i \in 1..Len(f) : f[i] = b[m + i]
    <2>1. b \in Seq(EventRecord)
        BY <1>1
    <2>2. PICK l : Numbered(b, o, l)
        BY <1>1
    <2>3. \E m \in 0..Len(b) : TailFrom(Events!MissedSince(o, a), b, a, m)
        BY ONLY <1>2, <1>5, <2>1, <2>2, MissedIsTail
    <2> QED BY <1>f, <2>3 DEF TailFrom
<1>7. /\ r \in Seq(EventRecord) /\ Len(r) = Len(f)
      /\ \A i \in 1..Len(r) : /\ r[i].order = f[i].order /\ r[i].n = f[i].n
                              /\ r[i].id = f[i].id /\ r[i].replay
    <2>1. f \in Seq(EventRecord)
        BY <1>6
    <2> QED BY <1>r, <2>1, ReplayedFields
<1>8. \A i \in 1..Len(r) : /\ r[i].order = b[m + i].order /\ r[i].n = b[m + i].n
                           /\ r[i].id = b[m + i].id /\ r[i].replay
    BY <1>6, <1>7
<1>9. Seams(t, b) /\ Newest(t[Len(t)], b)
    <2>1. PICK l \in Nat : l = Len(log[o]) /\ Numbered(b, o, l)
        BY <1>1
    <2>2. r \in Seq(EventRecord) /\ Len(r) = Len(b) - m
        BY <1>6, <1>7
    <2>3. \A i \in 1..Len(r) : r[i].n = b[m + i].n /\ r[i].id = b[m + i].id
        BY <1>8
    <2>4. \A i \in 1..Len(b) : b[i].id > g[Len(g)].id <=> i > m
        BY <1>3, <1>6
    <2> QED BY <1>1, <1>t, <2>1, <2>2, <2>3, <2>4, ReplayIsSeam
<1>10. /\ Len(g) \in Nat /\ Len(r) \in Nat /\ t \in Seq(EventRecord) /\ Len(t) = Len(g) + Len(r)
       /\ \A i \in 1..Len(t) : (i \in 1..Len(g) /\ t[i] = g[i])
                               \/ (i - Len(g) \in 1..Len(r) /\ t[i] = r[i - Len(g)])
    <2>1. r \in Seq(EventRecord)
        BY <1>7
    <2> QED BY <1>t, <2>1, JoinedCases
<1>11. OfOrder(r, o, log)
    <2> SUFFICES ASSUME NEW i \in 1..Len(r) PROVE r[i].order = o /\ r[i].n <= Len(log[o])
        BY DEF OfOrder
    <2>1. m + i \in 1..Len(b)
        BY <1>4, <1>6, <1>7
    <2>2. b[m + i].order = o /\ b[m + i].n = Len(log[o]) - Len(b) + (m + i)
        BY <1>1, <2>1 DEF Numbered
    <2>3. b[m + i].n <= Len(log[o])
        BY <1>1, <1>4, <2>1, <2>2
    <2> QED BY <1>8, <2>2, <2>3
<1>12. OfOrder(t, o, log)
    BY <1>10, <1>11 DEF OfOrder
<1>13. \A i \in 1..Len(t) : t[i].replay \/ \E j \in 1..Len(g) : t[i] = g[j]
    BY <1>8, <1>10
<1>14. Len(g) <= Len(t)
    BY <1>10
<1> QED BY <1>9, <1>10, <1>12, <1>13, <1>14

LEMMA SubscribeStep ==
    ASSUME EventsInv, CommitsInv, NEW k \in Streams, Events!Subscribe(k)
    PROVE  EventsInv'
<1>1. PICK x : x = stream[k]
    OBVIOUS
<1>2. /\ x \in StreamRecord /\ StreamOK(k, x, buffers, log, revoked, expired) /\ x.pc = "owner"
      /\ MapOK(buffers, log) /\ log \in [Orders -> Seq(Events!Status)]
    BY <1>1 DEF EventsInv, CommitsInv, Events!Subscribe
<1>3. PICK o : o = x.order
    OBVIOUS
<1>4. o \in Orders /\ x.queue = <<>> /\ ~x.checking
    BY <1>2, <1>3 DEF StreamOK, PlaceOK, StreamRecord
<1>5. PICK g : g = x.got
    OBVIOUS
<1>6. g \in Seq(EventRecord) /\ Len(g) \in Nat
    BY <1>2, <1>5, LenProperties DEF StreamRecord
<1>7. PICK b : b = BufferIn(buffers, o)
    OBVIOUS
<1>8. OfOrder(g, o, log) /\ Seams(g, b)
    BY <1>2, <1>3, <1>5, <1>7 DEF StreamOK, SeamlessOK, Line
<1>9. PICK r : r = Events!Replayed(Events!MissedSince(o, Events!Last(g).id))
    OBVIOUS
<1>10. PICK t : t = IF g = <<>> THEN <<>> ELSE g \o r
    OBVIOUS
<1>11. PICK y : y = IF Owner[o] # UserOf[k] THEN Events!HungUp(x, g) ELSE Opened(x, Len(g), t)
    OBVIOUS
<1>12. stream' = [stream EXCEPT ![k] = y]
    BY <1>1, <1>3, <1>5, <1>9, <1>10, <1>11 DEF Events!Subscribe, Opened
<1>13. /\ t \in Seq(EventRecord) /\ Len(g) <= Len(t) /\ OfOrder(t, o, log) /\ Seams(t, b)
       /\ t # <<>> => Newest(t[Len(t)], b)
       /\ \A i \in 1..Len(t) : t[i].replay \/ \E j \in 1..Len(g) : t[i] = g[j]
    <2>1. CASE g = <<>>
        BY <1>8, <1>10, <2>1, EmptySeq
    <2>2. CASE g # <<>>
        <3>1. r = Events!Replayed(Events!MissedSince(o, g[Len(g)].id))
            BY <1>9 DEF Events!Last
        <3>2. t = g \o r
            BY <1>10, <2>2
        <3>3. t = SeenWith(o, g)
            BY <3>1, <3>2 DEF SeenWith
        <3>5. MapOK(buffers, log) /\ log \in [Orders -> Seq(Events!Status)]
            BY <1>2
        <3>6. o \in Orders /\ g \in Seq(EventRecord)
            BY <1>4, <1>6
        <3>7. OfOrder(g, o, log) /\ Seams(g, b)
            BY <1>8
        <3>8. /\ t \in Seq(EventRecord) /\ Len(g) <= Len(t) /\ OfOrder(t, o, log)
              /\ Seams(t, b) /\ Newest(t[Len(t)], b)
              /\ \A i \in 1..Len(t) : t[i].replay \/ \E j \in 1..Len(g) : t[i] = g[j]
            BY ONLY <1>7, <2>2, <3>3, <3>5, <3>6, <3>7, SeenFields
        <3> QED BY <3>8
    <2> QED BY <2>1, <2>2
<1>14. CASE Owner[o] # UserOf[k]
    <2>1. y = Events!HungUp(x, g)
        BY <1>11, <1>14
    <2>2. StreamOK(k, y, buffers, log, revoked, expired)
        BY <1>2, <1>5, <1>6, <2>1, HungUpOK
    <2> QED BY <1>12, <2>2, OneStream DEF Events!Subscribe, Events!busVars, Events!tokenVars
<1>15. CASE Owner[o] = UserOf[k]
    <2>1. y = Opened(x, Len(g), t)
        BY <1>11, <1>15
    <2>2. /\ y \in StreamRecord /\ y.pc = "open" /\ y.order = x.order /\ y.queue = x.queue
          /\ y.checking = x.checking /\ y.base = Len(g) /\ y.got = t
        BY <1>2, <1>6, <1>13, <2>1, OpenedFields
    <2>3. PlaceOK(k, y)
        BY <1>3, <1>4, <1>13, <1>15, <2>2, EventsAssumed DEF PlaceOK
    <2>4. \A i \in 1..Len(t) : t[i].late => t[i].replay
        <3>1. \A i \in 1..Len(g) : g[i].late => g[i].replay
            BY <1>2, <1>5 DEF StreamOK, CheckedOK
        <3> QED BY <1>13, <3>1
    <2>5. CheckedOK(k, y, revoked, expired)
        BY <1>4, <2>2, <2>4 DEF CheckedOK
    <2>6. Line(y) = t
        <3>1. t \o <<>> = t
            BY <1>13, ConcatEmptySeq
        <3> QED BY <1>4, <2>2, <3>1 DEF Line
    <2>7. OfOrder(x.queue, o, log)
        BY <1>4 DEF OfOrder
    <2>8. SeamlessOK(y, b, log)
        BY <1>3, <1>13, <2>2, <2>6, <2>7 DEF SeamlessOK
    <2>9. StreamOK(k, y, buffers, log, revoked, expired)
        BY <1>3, <1>7, <2>2, <2>3, <2>5, <2>8 DEF StreamOK
    <2> QED BY <1>12, <2>9, OneStream DEF Events!Subscribe, Events!busVars, Events!tokenVars
<1> QED BY <1>14, <1>15

-----------------------------------------------------------------------------
(* Publish: the streams                                                    *)

(* The event e is the newest of its order: B is the buffer before it, B2   *)
(* the one with it, and l the number of events before it.                  *)
Fresh(B, B2, e, l) ==
    /\ l \in Nat /\ e \in EventRecord /\ e.n = l + 1
    /\ B2 \in Seq(EventRecord)
    /\ AddsOnly(B2, B, e)
    /\ \A i \in 1..Len(B2) : B2[i].n <= l + 1

LEMMA FreshSeams ==
    ASSUME NEW B, NEW B2, NEW e, NEW l, Fresh(B, B2, e, l),
           NEW s, s \in Seq(EventRecord), \A i \in 1..Len(s) : s[i].n <= l, Seams(s, B)
    PROVE  /\ Seams(s, B2) /\ Newest(e, B2)
           /\ s # <<>> /\ Newest(s[Len(s)], B) => Seams(Append(s, e), B2)
<1>1. /\ l \in Nat /\ e \in EventRecord /\ e.n = l + 1 /\ B2 \in Seq(EventRecord)
      /\ \A i \in 1..Len(B2) : B2[i] = e \/ \E j \in 1..Len(B) : B2[i] = B[j]
      /\ \A i \in 1..Len(B2) : B2[i].n <= l + 1
    BY DEF Fresh, AddsOnly
<1>2. Seams(s, B2)
    <2>1. AddsNewer(B, B2, l)
        BY <1>1 DEF AddsNewer
    <2>2. l \in Nat
        BY <1>1
    <2>3. B2 \in Seq(EventRecord)
        BY <1>1
    <2>4. s \in Seq(EventRecord) /\ Seams(s, B) /\ \A i \in 1..Len(s) : s[i].n <= l
        OBVIOUS
    <2> QED BY ONLY <2>1, <2>2, <2>3, <2>4, SeamsOfNewer
<1>3. Newest(e, B2)
    BY <1>1 DEF Newest
<1>4. ASSUME s # <<>>, Newest(s[Len(s)], B) PROVE Seams(Append(s, e), B2)
    <2>1. PICK a : a = s[Len(s)]
        OBVIOUS
    <2>2. a.n \in Nat /\ a.n <= l
        <3>1. Len(s) \in 1..Len(s)
            BY <1>4, EmptySeq
        <3> QED BY <2>1, <3>1, EventFields
    <2>3. ASSUME NEW i \in 1..Len(B2), Events!SameNumbering(a, B2[i])
          PROVE  B2[i].n <= a.n \/ B2[i].n >= e.n
        <3>1. CASE B2[i] = e
            BY <1>1, <3>1
        <3>2. CASE \E j \in 1..Len(B) : B2[i] = B[j]
            BY <1>4, <2>1, <2>3, <3>2 DEF Newest
        <3> QED BY <1>1, <3>1, <3>2
    <2>4. Seam(a, e, B2)
        BY <1>1, <2>2, <2>3 DEF Seam
    <2> QED BY <1>1, <1>2, <2>1, <2>4, SeamsOfAppend
<1> QED BY <1>2, <1>3, <1>4

LEMMA JoinAppended ==
    ASSUME NEW S, NEW g, g \in Seq(S), NEW q, q \in Seq(S), NEW e, e \in S
    PROVE  g \o Append(q, e) = Append(g \o q, e)
<1>1. PICK r : r = <<e>>
    OBVIOUS
<1>2. r \in Seq(S)
    BY <1>1
<1>3. Append(q, e) = q \o r
    BY <1>1, AppendIsConcat
<1>4. g \o q \in Seq(S)
    BY ConcatProperties
<1>5. Append(g \o q, e) = (g \o q) \o r
    BY <1>1, <1>4, AppendIsConcat
<1>6. (g \o q) \o r = g \o (q \o r)
    BY <1>2, ConcatAssociative
<1> QED BY <1>3, <1>5, <1>6

QueuedFor(x, e) == [x EXCEPT !.queue = Append(x.queue, e)]

LEMMA QueuedFields ==
    ASSUME NEW x, x \in StreamRecord, NEW e, e \in EventRecord, NEW y, y = QueuedFor(x, e)
    PROVE  /\ y \in StreamRecord /\ y.pc = x.pc /\ y.order = x.order
           /\ y.queue = Append(x.queue, e) /\ y.checking = x.checking /\ y.base = x.base
           /\ y.got = x.got
<1>1. PICK q : q = Append(x.queue, e)
    OBVIOUS
<1>2. q \in Seq(EventRecord)
    BY <1>1, AppendProperties DEF StreamRecord
<1>3. y = [pc |-> x.pc, order |-> x.order, queue |-> q, checking |-> x.checking,
           base |-> x.base, got |-> x.got]
    BY <1>1 DEF QueuedFor, StreamRecord
<1>4. y \in StreamRecord
    BY <1>2, <1>3 DEF StreamRecord
<1> QED BY <1>1, <1>3, <1>4

(* Sequences of events of one order stay so when the log grows.            *)
LEMMA OfOrderStays ==
    ASSUME NEW s, s \in Seq(EventRecord), NEW o, NEW L, NEW L2, OfOrder(s, o, L),
           Len(L[o]) \in Nat, Len(L2[o]) = Len(L[o]) + 1
    PROVE  OfOrder(s, o, L2)
<1> SUFFICES ASSUME NEW i \in 1..Len(s) PROVE s[i].order = o /\ s[i].n <= Len(L2[o])
    BY DEF OfOrder
<1>1. s[i].order = o /\ s[i].n <= Len(L[o]) /\ s[i].n \in Nat
    BY EventFields DEF OfOrder
<1> QED BY <1>1

(* A stream of the order that the event is put in the queue of.            *)
LEMMA StreamQueues ==
    ASSUME NEW k, NEW x, NEW M, NEW L, NEW M2, NEW L2, NEW I, NEW X, StreamOK(k, x, M, L, I, X),
           x.order \in Orders, x.pc \in {"open", "ended"}, NEW e, e.order = x.order,
           e.late => Owner[x.order] \in I \cup X,
           Fresh(BufferIn(M, x.order), BufferIn(M2, x.order), e, Len(L[x.order])),
           Len(L2[x.order]) = Len(L[x.order]) + 1, NEW y, y = QueuedFor(x, e)
    PROVE  StreamOK(k, y, M2, L2, I, X)
<1>1. PICK o, B, B2, l : /\ o = x.order /\ B = BufferIn(M, o) /\ B2 = BufferIn(M2, o)
                         /\ l = Len(L[o])
    OBVIOUS
<1>2. PICK g, q, s : g = x.got /\ q = x.queue /\ s = Line(x)
    OBVIOUS
<1>3. x \in StreamRecord /\ PlaceOK(k, x) /\ SeamlessOK(x, B, L) /\ CheckedOK(k, x, I, X)
    BY <1>1 DEF StreamOK, PlaceOK
<1>4. Fresh(B, B2, e, l)
    BY <1>1
<1>5. e \in EventRecord /\ l \in Nat /\ e.n = l + 1
    BY <1>4 DEF Fresh
<1>6. /\ y \in StreamRecord /\ y.pc = x.pc /\ y.order = x.order /\ y.queue = Append(x.queue, e)
      /\ y.checking = x.checking /\ y.base = x.base /\ y.got = x.got
    BY <1>3, <1>5, QueuedFields
<1>7. /\ g \in Seq(EventRecord) /\ q \in Seq(EventRecord) /\ s \in Seq(EventRecord)
      /\ Len(s) \in Nat
    BY <1>2, <1>3, LineFields
<1>8. PICK p : p = Append(q, e)
    OBVIOUS
<1>9. /\ p \in Seq(EventRecord) /\ Len(p) = Len(q) + 1 /\ Len(q) \in Nat
      /\ \A i \in 1..Len(p) : p[i] = IF i <= Len(q) THEN q[i] ELSE e
    BY ONLY <1>5, <1>7, <1>8, Appended
<1>10. \A i \in 1..Len(p) : p[i] = e \/ (i \in 1..Len(q) /\ p[i] = q[i])
    BY <1>9
<1>11. PlaceOK(k, y)
    <2>1. p # <<>>
        BY <1>9, EmptySeq
    <2> QED BY <1>2, <1>3, <1>6, <1>8, <2>1, EventsAssumed DEF PlaceOK
<1>12. CheckedOK(k, y, I, X)
    <2>1. Owner[x.order] = UserOf[k]
        BY <1>3 DEF PlaceOK
    <2>2. \A i \in 1..Len(p) : p[i].late => UserOf[k] \in I \cup X
        BY <1>2, <1>3, <1>10, <2>1 DEF CheckedOK
    <2>3. ASSUME x.checking, p[1].late PROVE UserOf[k] \in I
        <3>1. q # <<>>
            BY <1>2, <1>3, <2>3 DEF PlaceOK
        <3>2. p[1] = q[1]
            BY <1>7, <1>9, <3>1, EmptySeq
        <3> QED BY <1>2, <1>3, <2>3, <3>2 DEF CheckedOK
    <2> QED BY <1>2, <1>3, <1>6, <1>8, <2>2, <2>3 DEF CheckedOK
<1>13. OfOrder(g, o, L2) /\ OfOrder(q, o, L2)
    <2>1. OfOrder(g, o, L) /\ OfOrder(q, o, L)
        BY <1>1, <1>2, <1>3 DEF SeamlessOK
    <2>2. Len(L[o]) \in Nat /\ Len(L2[o]) = Len(L[o]) + 1
        BY <1>1, <1>5
    <2> QED BY <1>7, <2>1, <2>2, OfOrderStays
<1>14. OfOrder(p, o, L2)
    BY <1>1, <1>5, <1>10, <1>13 DEF OfOrder
<1>15. \A i \in 1..Len(s) : s[i].n <= l
    <2>1. OfOrder(s, o, L)
        BY <1>1, <1>2, <1>3, LineOfOrder DEF SeamlessOK
    <2> QED BY <1>1, <2>1 DEF OfOrder
<1>16. Seams(s, B)
    BY <1>2, <1>3 DEF SeamlessOK
<1>17. /\ Seams(s, B2) /\ Newest(e, B2)
       /\ s # <<>> /\ Newest(s[Len(s)], B) => Seams(Append(s, e), B2)
    BY <1>4, <1>7, <1>15, <1>16, FreshSeams
<1>18. CASE x.pc = "open"
    <2>1. PICK t : t = Append(s, e)
        OBVIOUS
    <2>2. Line(y) = t
        <3>1. s = g \o q
            BY <1>2, <1>18 DEF Line
        <3>2. Line(y) = g \o Append(q, e)
            BY <1>2, <1>6, <1>18 DEF Line
        <3>3. g \in Seq(EventRecord)
            BY <1>7
        <3>4. q \in Seq(EventRecord)
            BY <1>7
        <3>5. e \in EventRecord
            BY <1>5
        <3>6. g \o Append(q, e) = Append(g \o q, e)
            BY ONLY <3>3, <3>4, <3>5, JoinAppended
        <3> QED BY <2>1, <3>1, <3>2, <3>6
    <2>3. t[Len(t)] = e
        BY <1>5, <1>7, <2>1, AppendProperties
    <2>4. Seams(t, B2)
        <3>1. CASE s = <<>>
            <4>1. Len(t) = 1
                BY <1>5, <1>7, <2>1, <3>1, AppendProperties
            <4> QED BY <4>1 DEF Seams
        <3>2. CASE s # <<>>
            BY <1>2, <1>3, <1>17, <1>18, <2>1, <3>2 DEF SeamlessOK
        <3> QED BY <3>1, <3>2
    <2>5. SeamlessOK(y, B2, L2)
        BY <1>1, <1>2, <1>6, <1>8, <1>13, <1>14, <1>17, <2>2, <2>3, <2>4 DEF SeamlessOK
    <2> QED BY <1>1, <1>6, <1>11, <1>12, <2>5 DEF StreamOK
<1>19. CASE x.pc = "ended"
    <2>1. Line(y) = s
        BY <1>2, <1>6, <1>19 DEF Line
    <2>2. SeamlessOK(y, B2, L2)
        BY <1>1, <1>2, <1>6, <1>8, <1>13, <1>14, <1>17, <1>19, <2>1 DEF SeamlessOK
    <2> QED BY <1>1, <1>6, <1>11, <1>12, <2>2 DEF StreamOK
<1> QED BY <1>18, <1>19

(* A stream of the order that is not subscribed.                           *)
LEMMA StreamMisses ==
    ASSUME NEW k, NEW x, NEW M, NEW L, NEW M2, NEW L2, NEW I, NEW X, StreamOK(k, x, M, L, I, X),
           x.order \in Orders, x.pc \in {"closed", "owner"}, NEW e,
           Fresh(BufferIn(M, x.order), BufferIn(M2, x.order), e, Len(L[x.order])),
           Len(L2[x.order]) = Len(L[x.order]) + 1
    PROVE  StreamOK(k, x, M2, L2, I, X)
<1>1. PICK o, B, B2, l : /\ o = x.order /\ B = BufferIn(M, o) /\ B2 = BufferIn(M2, o)
                         /\ l = Len(L[o])
    OBVIOUS
<1>2. PICK g : g = x.got
    OBVIOUS
<1>3. x \in StreamRecord /\ SeamlessOK(x, B, L) /\ x.queue = <<>>
    BY <1>1 DEF StreamOK, PlaceOK
<1>4. g \in Seq(EventRecord) /\ Line(x) = g
    BY <1>2, <1>3 DEF StreamRecord, Line
<1>5. Fresh(B, B2, e, l) /\ l \in Nat
    BY <1>1 DEF Fresh
<1>6. OfOrder(g, o, L) /\ Seams(g, B)
    BY <1>1, <1>2, <1>3, <1>4 DEF SeamlessOK
<1>7. Seams(g, B2)
    <2>1. \A i \in 1..Len(g) : g[i].n <= l
        BY <1>1, <1>6 DEF OfOrder
    <2> QED BY <1>4, <1>5, <1>6, <2>1, FreshSeams
<1>8. OfOrder(g, o, L2)
    <2>1. Len(L[o]) \in Nat /\ Len(L2[o]) = Len(L[o]) + 1
        BY <1>1, <1>5
    <2> QED BY <1>4, <1>6, <2>1, OfOrderStays
<1>9. OfOrder(x.queue, o, L2)
    BY <1>3 DEF OfOrder
<1>10. SeamlessOK(x, B2, L2)
    BY <1>1, <1>2, <1>4, <1>7, <1>8, <1>9 DEF SeamlessOK
<1> QED BY <1>1, <1>10 DEF StreamOK

-----------------------------------------------------------------------------
(* Publish: the gateway and the sockets                                    *)

(* L2 is the log L after one more event of o.                              *)
OneMore(L, L2, o) ==
    \A p \in Orders : /\ Len(L[p]) \in Nat /\ Len(L2[p]) \in Nat
                      /\ Len(L2[p]) = IF p = o THEN Len(L[p]) + 1 ELSE Len(L[p])

LEMMA PublishedStays ==
    ASSUME NEW s, s \in Seq(EventRecord), NEW L, NEW L2, NEW o, OneMore(L, L2, o), Published(s, L)
    PROVE  Published(s, L2)
<1> SUFFICES ASSUME NEW i \in 1..Len(s) PROVE s[i].n <= Len(L2[s[i].order])
    BY DEF Published
<1>1. PICK p : p = s[i].order
    OBVIOUS
<1>2. p \in Orders /\ s[i].n \in Nat
    BY <1>1, EventFields
<1>3. s[i].n <= Len(L[p])
    BY <1>1 DEF Published
<1>4. Len(L[p]) \in Nat /\ Len(L2[p]) \in Nat /\ Len(L[p]) <= Len(L2[p])
    BY <1>2 DEF OneMore
<1> QED BY <1>1, <1>2, <1>3, <1>4

(* Everything published so far comes before the new event of its order.    *)
LEMMA BeforeIt ==
    ASSUME NEW s, s \in Seq(EventRecord), NEW L, Published(s, L), NEW e, e \in EventRecord,
           Len(L[e.order]) \in Nat, e.n = Len(L[e.order]) + 1
    PROVE  \A i \in 1..Len(s) : s[i].order = e.order => s[i].n < e.n
<1> SUFFICES ASSUME NEW i \in 1..Len(s), s[i].order = e.order PROVE s[i].n < e.n
    OBVIOUS
<1>1. s[i].n <= Len(L[e.order]) /\ s[i].n \in Nat
    BY EventFields DEF Published
<1> QED BY <1>1

LEMMA QueueGrows ==
    ASSUME NEW q, q \in Seq(EventRecord), NEW L, NEW L2, NEW e, e \in EventRecord,
           OneMore(L, L2, e.order), e.n = Len(L[e.order]) + 1, Published(q, L), InOrder(q),
           NEW p, p = Append(q, e)
    PROVE  Published(p, L2) /\ InOrder(p)
<1>1. /\ p \in Seq(EventRecord) /\ Len(p) = Len(q) + 1 /\ Len(q) \in Nat
      /\ \A i \in 1..Len(p) : p[i] = IF i <= Len(q) THEN q[i] ELSE e
    BY Appended
<1>2. \A i \in 1..Len(p) : (i \in 1..Len(q) /\ p[i] = q[i]) \/ (i = Len(q) + 1 /\ p[i] = e)
    BY <1>1
<1>3. e.order \in Orders
    BY DEF EventRecord
<1>4. Len(L[e.order]) \in Nat /\ Len(L2[e.order]) = e.n /\ Len(L2[e.order]) \in Nat
    BY <1>3 DEF OneMore
<1>5. \A i \in 1..Len(q) : q[i].order = e.order => q[i].n < e.n
    BY <1>4, BeforeIt
<1>6. Published(q, L2)
    BY PublishedStays
<1>7. Published(p, L2)
    <2> SUFFICES ASSUME NEW i \in 1..Len(p) PROVE p[i].n <= Len(L2[p[i].order])
        BY DEF Published
    <2>1. CASE i \in 1..Len(q) /\ p[i] = q[i]
        BY <1>6, <2>1 DEF Published
    <2>2. CASE p[i] = e
        BY <1>4, <2>2
    <2> QED BY <1>2, <2>1, <2>2
<1>8. InOrder(p)
    <2> SUFFICES ASSUME NEW i \in 1..Len(p), NEW j \in 1..Len(p), i < j, p[i].order = p[j].order
                 PROVE  p[i].n < p[j].n
        BY DEF InOrder
    <2>1. i \in 1..Len(q) /\ p[i] = q[i]
        BY <1>1, <1>2
    <2>2. CASE j \in 1..Len(q) /\ p[j] = q[j]
        BY <2>1, <2>2 DEF InOrder
    <2>3. CASE p[j] = e
        BY <1>5, <2>1, <2>3
    <2> QED BY <1>2, <2>2, <2>3
<1> QED BY <1>7, <1>8

GatewayWith(g, e) == [g EXCEPT !.queue = Append(g.queue, e)]

LEMMA GatewayFields ==
    ASSUME NEW g, g \in GatewayRecord, NEW e, e \in EventRecord, NEW h, h = GatewayWith(g, e)
    PROVE  /\ h \in GatewayRecord /\ h.queue = Append(g.queue, e) /\ h.targets = g.targets
           /\ h.delivering = g.delivering
<1>1. PICK q : q = Append(g.queue, e)
    OBVIOUS
<1>2. q \in Seq(EventRecord)
    BY <1>1, AppendProperties DEF GatewayRecord
<1>3. h = [queue |-> q, targets |-> g.targets, delivering |-> g.delivering]
    BY <1>1 DEF GatewayWith, GatewayRecord
<1>4. h \in GatewayRecord
    BY <1>2, <1>3 DEF GatewayRecord
<1> QED BY <1>1, <1>3, <1>4

LEMMA GatewayQueues ==
    ASSUME NEW g, NEW L, NEW L2, NEW I, NEW X, GatewayOK(g, L, I, X), NEW e, e \in EventRecord,
           OneMore(L, L2, e.order), e.n = Len(L[e.order]) + 1,
           e.late => Owner[e.order] \in I \cup X, NEW h, h = GatewayWith(g, e)
    PROVE  GatewayOK(h, L2, I, X)
<1>1. g \in GatewayRecord
    BY DEF GatewayOK
<1>2. /\ h \in GatewayRecord /\ h.queue = Append(g.queue, e) /\ h.targets = g.targets
      /\ h.delivering = g.delivering
    BY <1>1, GatewayFields
<1>3. PICK q, p : q = g.queue /\ p = h.queue
    OBVIOUS
<1>4. q \in Seq(EventRecord) /\ p = Append(q, e)
    BY <1>1, <1>2, <1>3 DEF GatewayRecord
<1>5. /\ Len(p) = Len(q) + 1 /\ Len(q) \in Nat
      /\ \A i \in 1..Len(p) : p[i] = IF i <= Len(q) THEN q[i] ELSE e
    BY ONLY <1>4, e \in EventRecord, Appended
<1>6. Published(p, L2) /\ InOrder(p)
    <2>1. Published(q, L) /\ InOrder(q)
        BY <1>3 DEF GatewayOK
    <2> QED BY <1>4, <2>1, QueueGrows
<1>7. \A j \in 1..Len(p) : p[j].late => Owner[p[j].order] \in I \cup X
    <2>1. \A j \in 1..Len(q) : q[j].late => Owner[q[j].order] \in I \cup X
        BY <1>3 DEF GatewayOK
    <2>2. \A j \in 1..Len(p) : p[j] = e \/ (j \in 1..Len(q) /\ p[j] = q[j])
        BY <1>5
    <2> QED BY <2>1, <2>2
<1>8. p # <<>>
    BY <1>5, EmptySeq
<1>9. ASSUME NEW w \in h.targets, p[1].late PROVE UserOf[w] \in I
    <2>1. q # <<>> /\ w \in g.targets
        BY <1>2, <1>3, <1>9 DEF GatewayOK
    <2>2. p[1] = q[1]
        BY <1>4, <1>5, <2>1, EmptySeq
    <2> QED BY <1>3, <1>9, <2>1, <2>2 DEF GatewayOK
<1> QED BY <1>1, <1>2, <1>3, <1>6, <1>7, <1>8, <1>9 DEF GatewayOK

LEMMA SocketWaits ==
    ASSUME NEW w, NEW x, NEW g, g \in GatewayRecord, NEW L, NEW L2, SocketOK(w, x, g, L),
           NEW e, e \in EventRecord, OneMore(L, L2, e.order), e.n = Len(L[e.order]) + 1,
           NEW h, h = GatewayWith(g, e)
    PROVE  SocketOK(w, x, h, L2)
<1>1. /\ h.queue = Append(g.queue, e) /\ h.targets = g.targets /\ h.delivering = g.delivering
    BY GatewayFields
<1>2. PICK q, p, s : q = g.queue /\ p = h.queue /\ s = x.got
    OBVIOUS
<1>3. q \in Seq(EventRecord) /\ p = Append(q, e) /\ s \in Seq(EventRecord) /\ Published(s, L)
    BY <1>1, <1>2 DEF GatewayRecord, SocketOK, SocketRecord
<1>4. /\ Len(p) = Len(q) + 1 /\ Len(q) \in Nat
      /\ \A i \in 1..Len(p) : p[i] = IF i <= Len(q) THEN q[i] ELSE e
    BY ONLY <1>3, e \in EventRecord, Appended
<1>5. Published(s, L2)
    BY <1>3, PublishedStays
<1>6. \A i \in 1..Len(s) : s[i].order = e.order => s[i].n < e.n
    <2>1. Len(L[e.order]) \in Nat
        BY DEF OneMore, EventRecord
    <2> QED BY <1>3, <2>1, BeforeIt
<1>7. ASSUME NEW i \in 1..Len(s), NEW j \in 1..Len(p), s[i].order = p[j].order
      PROVE  s[i].n < p[j].n \/ (j = 1 /\ h.delivering /\ w \notin h.targets)
    <2>1. CASE j <= Len(q)
        <3>1. j \in 1..Len(q) /\ p[j] = q[j]
            BY <1>4, <2>1
        <3> QED BY <1>1, <1>2, <1>7, <3>1 DEF SocketOK, Ahead
    <2>2. CASE j > Len(q)
        <3>1. p[j] = e
            BY <1>4, <2>2
        <3> QED BY <1>6, <1>7, <3>1
    <2> QED BY <1>4, <2>1, <2>2
<1> QED BY <1>2, <1>5, <1>7 DEF SocketOK, Ahead

(* Nobody is connected, and the gateway has nothing to do.                 *)
LEMMA GatewayStays ==
    ASSUME NEW g, NEW L, NEW L2, NEW I, NEW X, NEW o, GatewayOK(g, L, I, X), OneMore(L, L2, o)
    PROVE  GatewayOK(g, L2, I, X)
<1>1. Published(g.queue, L2)
    BY PublishedStays DEF GatewayOK, GatewayRecord
<1> QED BY <1>1 DEF GatewayOK

LEMMA EventOfOrder ==
    ASSUME EventsInv, CommitsInv, NEW o, o \in Orders, NEW s, s \in Events!Status,
           NEW e, e = Events!Event(o, s)
    PROVE  /\ e \in EventRecord /\ e.order = o /\ e.status = s /\ e.n = Len(log[o]) + 1
           /\ e.id = Events!LastId(Events!Buffer(o)) + 1
           /\ e.late => Owner[o] \in revoked \cup expired
<1>1. PICK b : b = BufferIn(buffers, o)
    OBVIOUS
<1>2. b = Events!Buffer(o)
    BY <1>1 DEF BufferIn, Events!Buffer, Events!Has, Events!Place
<1>3. b \in Seq(EventRecord) /\ Len(log[o]) \in Nat
    BY <1>1, BufferFacts DEF EventsInv, CommitsInv
<1>4. Events!LastId(b) \in Nat
    <2>1. CASE b = <<>>
        BY <2>1 DEF Events!LastId
    <2>2. CASE b # <<>>
        <3>1. Len(b) \in 1..Len(b)
            BY <1>3, <2>2, EmptySeq
        <3>2. b[Len(b)].id \in Nat
            BY <1>3, <3>1, EventFields
        <3> QED BY <2>2, <3>2 DEF Events!LastId, Events!Last
    <2> QED BY <2>1, <2>2
<1>5. PICK i \in Nat : i = Events!LastId(Events!Buffer(o)) + 1
    BY <1>2, <1>4
<1>6. PICK n \in Nat : n = Len(log[o]) + 1
    BY <1>3
<1>7. PICK t : t = (Owner[o] \in revoked \cup expired)
    OBVIOUS
<1>l. t \in BOOLEAN
    BY <1>7
<1>8. e = [order |-> o, n |-> n, id |-> i, status |-> s, late |-> t, replay |-> FALSE]
    BY <1>5, <1>6, <1>7 DEF Events!Event
<1>9. e \in EventRecord
    BY <1>5, <1>6, <1>8, <1>l DEF EventRecord
<1>10. e.late = t
    BY <1>8
<1>11. e.late => Owner[o] \in revoked \cup expired
    BY <1>7, <1>10
<1> QED BY <1>5, <1>6, <1>8, <1>9, <1>11

LEMMA PublishedStep ==
    ASSUME EventsInv, CommitsInv, NEW c \in Changers, Events!Publish(c)
    PROVE  EventsInv'
<1>1. PICK o, s : o = change[c].order /\ s = change[c].status
    OBVIOUS
<1>2. o \in Orders /\ s \in Events!Status
    <2>1. o # None /\ change[c] \in ChangeRecord
        BY <1>1 DEF CommitsInv, Events!Publish
    <2>2. change[c] \in [order : Orders, status : Events!Status]
        BY <1>1, <2>1 DEF ChangeRecord, Events!Idle
    <2> QED BY <1>1, <2>2
<1>3. PICK e : e = Events!Event(o, s)
    OBVIOUS
<1>4. /\ e \in EventRecord /\ e.order = o /\ e.status = s /\ e.n = Len(log[o]) + 1
      /\ e.id = Events!LastId(Events!Buffer(o)) + 1
      /\ e.late => Owner[o] \in revoked \cup expired
    BY <1>2, <1>3, EventOfOrder
<1>5. /\ log' = [log EXCEPT ![o] = Append(@, s)]
      /\ buffers' = MapWith(o, e)
      /\ stream' = Events!Enqueued(e)
      /\ gateway' = IF Sockets = {} THEN gateway ELSE GatewayWith(gateway, e)
      /\ UNCHANGED <<status, mixed, revoked, expired, crashes, socket>>
    BY <1>1, <1>3, <1>4 DEF Events!Publish, Events!tokenVars, Events!Queued,
        GatewayWith, MapWith
<1>6. MapOK(buffers, log) /\ log \in [Orders -> Seq(Events!Status)]
    BY DEF EventsInv, CommitsInv
<1>7. PICK L2, M2 : L2 = log' /\ M2 = buffers'
    OBVIOUS
<1>8. /\ L2 \in [Orders -> Seq(Events!Status)] /\ Len(L2[o]) = Len(log[o]) + 1
      /\ \A p \in Orders : Len(log[p]) \in Nat /\ Len(L2[p]) \in Nat
      /\ \A p \in Orders \ {o} : L2[p] = log[p]
    BY <1>2, <1>5, <1>6, <1>7, LongerLog
<1>9. OneMore(log, L2, o)
    BY <1>2, <1>8 DEF OneMore
<1>10. /\ MapOK(M2, L2)
       /\ AddsOnly(BufferIn(M2, o), BufferIn(buffers, o), e)
       /\ OthersKept(M2, buffers, o)
    <2>1. MapOK(buffers, log)
        BY <1>6
    <2>2. log \in [Orders -> Seq(Events!Status)]
        BY <1>6
    <2>3. o \in Orders /\ s \in Events!Status
        BY <1>2
    <2>4. e \in EventRecord /\ e.order = o /\ e.n = Len(log[o]) + 1
        BY <1>4
    <2>5. e.id = Events!LastId(Events!Buffer(o)) + 1
        BY <1>4
    <2>6. L2 = LogWith(o, s) /\ M2 = MapWith(o, e)
        BY <1>5, <1>7 DEF LogWith
    <2> QED BY ONLY <2>1, <2>2, <2>3, <2>4, <2>5, <2>6, PublishedMap
<1>11. Fresh(BufferIn(buffers, o), BufferIn(M2, o), e, Len(log[o]))
    <2>1. PICK B2 : B2 = BufferIn(M2, o)
        OBVIOUS
    <2>2. /\ B2 \in Seq(EventRecord) /\ Numbered(B2, o, Len(L2[o]))
          /\ Len(L2[o]) \in Nat
        BY <1>2, <1>8, <1>10, <2>1, BufferFacts
    <2>3. Len(B2) \in Nat
        BY <2>2, LenProperties
    <2>4. \A i \in 1..Len(B2) : B2[i].n <= Len(log[o]) + 1
        BY <1>2, <1>8, <2>2, <2>3 DEF Numbered
    <2> QED BY <1>2, <1>4, <1>8, <1>10, <2>1, <2>2, <2>4 DEF Fresh
<1>12. ASSUME NEW k \in Streams
       PROVE  StreamOK(k, stream'[k], M2, L2, revoked, expired)
    <2>1. PICK x : x = stream[k]
        OBVIOUS
    <2>2. x \in StreamRecord /\ StreamOK(k, x, buffers, log, revoked, expired)
        BY <2>1 DEF EventsInv
    <2>3. stream'[k] = IF x.pc \in {"open", "ended"} /\ x.order = o THEN QueuedFor(x, e) ELSE x
        BY <1>4, <1>5, <2>1 DEF Events!Enqueued, Events!Queued, QueuedFor
    <2>4. CASE x.order = o /\ x.pc \in {"open", "ended"}
        <3>1. stream'[k] = QueuedFor(x, e)
            BY <2>3, <2>4
        <3>2. StreamOK(k, QueuedFor(x, e), M2, L2, revoked, expired)
            BY <1>2, <1>4, <1>8, <1>11, <2>2, <2>4, StreamQueues
        <3> QED BY <3>1, <3>2
    <2>5. CASE x.order = o /\ x.pc \notin {"open", "ended"}
        <3>1. x.pc \in {"closed", "owner"} /\ stream'[k] = x
            BY <2>2, <2>3, <2>5 DEF StreamRecord
        <3>2. StreamOK(k, x, M2, L2, revoked, expired)
            BY <1>2, <1>8, <1>11, <2>2, <2>5, <3>1, StreamMisses
        <3> QED BY <3>1, <3>2
    <2>6. CASE x.order # o
        <3>1. stream'[k] = x
            BY <2>3, <2>6
        <3>2. BufferIn(M2, x.order) = BufferIn(buffers, x.order) \/ BufferIn(M2, x.order) = <<>>
            BY <1>10, <2>6 DEF OthersKept
        <3>3. x.order \in Orders => L2[x.order] = log[x.order]
            BY <1>8, <2>6
        <3>4. StreamOK(k, x, M2, L2, revoked, expired)
            BY <2>2, <3>2, <3>3, StreamKeeps
        <3> QED BY <3>1, <3>4
    <2> QED BY <2>4, <2>5, <2>6
<1>13. stream' \in [Streams -> StreamRecord]
    <2>1. \A k \in Streams : stream'[k] \in StreamRecord
        BY <1>12 DEF StreamOK, PlaceOK
    <2>2. stream' = [k \in Streams |-> stream'[k]]
        BY <1>5 DEF Events!Enqueued
    <2> QED BY <2>1, <2>2
<1>14. GatewayOK(gateway', L2, revoked, expired)
    <2>1. GatewayOK(gateway, log, revoked, expired)
        BY DEF EventsInv
    <2>2. CASE Sockets = {}
        <3>1. gateway' = gateway
            BY <1>5, <2>2
        <3>2. GatewayOK(gateway, L2, revoked, expired)
            BY <1>9, <2>1, GatewayStays
        <3> QED BY <3>1, <3>2
    <2>3. CASE Sockets # {}
        <3>1. PICK h : h = GatewayWith(gateway, e)
            OBVIOUS
        <3>2. OneMore(log, L2, e.order) /\ e.n = Len(log[e.order]) + 1
              /\ (e.late => Owner[e.order] \in revoked \cup expired)
            BY <1>4, <1>9
        <3>3. GatewayOK(h, L2, revoked, expired)
            BY <1>4, <2>1, <3>1, <3>2, GatewayQueues
        <3> QED BY <1>5, <2>3, <3>1, <3>3
    <2> QED BY <2>2, <2>3
<1>15. ASSUME NEW w \in Sockets PROVE SocketOK(w, socket[w], gateway', L2)
    <2>1. SocketOK(w, socket[w], gateway, log) /\ gateway \in GatewayRecord
        BY DEF EventsInv, GatewayOK
    <2>2. gateway' = GatewayWith(gateway, e)
        BY <1>5
    <2>3. OneMore(log, L2, e.order) /\ e.n = Len(log[e.order]) + 1
        BY <1>4, <1>9
    <2> QED BY <1>4, <2>1, <2>2, <2>3, SocketWaits
<1>16. socket' \in [Sockets -> SocketRecord] /\ \A w \in Sockets : socket'[w] = socket[w]
    BY <1>5 DEF EventsInv
<1> QED BY <1>5, <1>7, <1>10, <1>12, <1>13, <1>14, <1>15, <1>16 DEF EventsInv

-----------------------------------------------------------------------------
(* The steps of the gateway and of the sockets                             *)

(* A step that leaves the bus and the streams alone.                       *)
LEMMA SocketsMove ==
    ASSUME EventsInv,
           UNCHANGED <<status, mixed, revoked, expired, crashes, buffers, log, stream>>,
           GatewayOK(gateway', log, revoked, expired), DOMAIN socket' = Sockets,
           socket' = [w \in Sockets |-> socket'[w]],
           \A w \in Sockets : SocketOK(w, socket'[w], gateway', log)
    PROVE  EventsInv'
<1>1. socket' \in [Sockets -> SocketRecord]
    BY DEF SocketOK
<1> QED BY <1>1 DEF EventsInv

(* A step of one socket that receives nothing.                             *)
LEMMA OneSocket ==
    ASSUME EventsInv, NEW w, w \in Sockets, NEW y, y \in SocketRecord, y.got = socket[w].got,
           \A o \in y.rooms : Owner[o] = UserOf[w], socket' = [socket EXCEPT ![w] = y],
           UNCHANGED <<status, mixed, revoked, expired, crashes, buffers, log, stream>>,
           GatewayOK(gateway', log, revoked, expired),
           \A v \in Sockets : Ahead(v, socket[v].got, gateway')
    PROVE  EventsInv'
<1>1. socket \in [Sockets -> SocketRecord]
    BY DEF EventsInv
<1>2. ASSUME NEW v \in Sockets PROVE SocketOK(v, socket'[v], gateway', log)
    <2>1. socket'[v] = IF v = w THEN y ELSE socket[v]
        BY <1>1
    <2>2. SocketOK(v, socket[v], gateway, log)
        BY DEF EventsInv
    <2> QED BY <2>1, <2>2 DEF SocketOK
<1>3. socket' = [v \in Sockets |-> socket'[v]] /\ DOMAIN socket' = Sockets
    BY <1>1
<1> QED BY <1>2, <1>3, SocketsMove

LEMMA AheadNow == ASSUME EventsInv PROVE \A w \in Sockets : Ahead(w, socket[w].got, gateway)
BY DEF EventsInv, SocketOK

LEMMA DisconnectedFields ==
    ASSUME NEW x, x \in SocketRecord, NEW y, y = Events!Disconnected(x)
    PROVE  y \in SocketRecord /\ y.rooms = {} /\ y.got = x.got
<1>1. y = [joining |-> None, rooms |-> {}, got |-> x.got]
    BY DEF Events!Disconnected, Events!NoSocket
<1> QED BY <1>1 DEF SocketRecord

LEMMA JoinStep ==
    ASSUME EventsInv, NEW w \in Sockets, NEW o \in Orders, Events!Join(w, o)
    PROVE  EventsInv'
<1>1. PICK x : x = socket[w]
    OBVIOUS
<1>2. x \in SocketRecord /\ SocketOK(w, x, gateway, log)
    BY <1>1 DEF EventsInv
<1>3. PICK y : y = [x EXCEPT !.joining = o]
    OBVIOUS
<1>4. y = [joining |-> o, rooms |-> x.rooms, got |-> x.got]
    BY <1>2, <1>3 DEF SocketRecord
<1>5. y \in SocketRecord /\ y.rooms = x.rooms /\ y.got = x.got
    BY <1>2, <1>4 DEF SocketRecord
<1>6. \A p \in y.rooms : Owner[p] = UserOf[w]
    BY <1>2, <1>5 DEF SocketOK
<1>7. socket' = [socket EXCEPT ![w] = y]
    BY <1>1, <1>3 DEF Events!Join
<1>8. UNCHANGED <<status, mixed, revoked, expired, crashes, buffers, log, stream, gateway>>
    BY DEF Events!Join, Events!busVars, Events!tokenVars
<1>9. /\ GatewayOK(gateway', log, revoked, expired)
      /\ \A v \in Sockets : Ahead(v, socket[v].got, gateway')
    BY <1>8, AheadNow DEF EventsInv
<1> QED BY <1>1, <1>5, <1>6, <1>7, <1>8, <1>9, OneSocket

LEMMA EnteredFields ==
    ASSUME NEW x, x \in SocketRecord, NEW R, R \subseteq Orders,
           NEW y, y = [x EXCEPT !.joining = None, !.rooms = R]
    PROVE  y = [joining |-> None, rooms |-> R, got |-> x.got]
BY DEF SocketRecord

LEMMA EnterStep ==
    ASSUME EventsInv, NEW w \in Sockets, Events!EnterRoom(w)
    PROVE  EventsInv'
<1>1. PICK x : x = socket[w]
    OBVIOUS
<1>2. x \in SocketRecord /\ SocketOK(w, x, gateway, log)
    BY <1>1 DEF EventsInv
<1>3. PICK R : /\ socket' = [socket EXCEPT ![w] = [socket[w] EXCEPT !.joining = None, !.rooms = R]]
               /\ R = socket[w].rooms \cup {o \in {socket[w].joining} : Owner[o] = UserOf[w]}
    BY Zenon DEF Events!EnterRoom
<1>4. x.joining \in Orders
    BY <1>1, <1>2 DEF SocketRecord, Events!EnterRoom
<1>5. R \subseteq Orders /\ \A p \in R : Owner[p] = UserOf[w]
    BY <1>1, <1>2, <1>3, <1>4 DEF SocketRecord, SocketOK
<1>6. PICK y : y = [joining |-> None, rooms |-> R, got |-> x.got]
    OBVIOUS
<1>7. y \in SocketRecord /\ y.got = x.got /\ y.rooms = R
    BY <1>2, <1>5, <1>6 DEF SocketRecord
<1>10. socket' = [socket EXCEPT ![w] = y]
    <2>1. [x EXCEPT !.joining = None, !.rooms = R] = y
        <3>1. x \in SocketRecord
            BY <1>2
        <3>2. R \subseteq Orders
            BY <1>5
        <3> QED BY ONLY <1>6, <3>1, <3>2, EnteredFields
    <2> QED BY <1>1, <1>3, <2>1
<1>8. UNCHANGED <<status, mixed, revoked, expired, crashes, buffers, log, stream, gateway>>
    BY DEF Events!EnterRoom, Events!busVars, Events!tokenVars
<1>9. /\ GatewayOK(gateway', log, revoked, expired)
      /\ \A v \in Sockets : Ahead(v, socket[v].got, gateway')
    BY <1>8, AheadNow DEF EventsInv
<1> QED BY <1>1, <1>5, <1>7, <1>8, <1>9, <1>10, OneSocket

LEMMA LeaveStep ==
    ASSUME EventsInv, NEW w \in Sockets, Events!LeaveRooms(w)
    PROVE  EventsInv'
<1>1. PICK y : y = Events!Disconnected(socket[w])
    OBVIOUS
<1>2. y \in SocketRecord /\ y.rooms = {} /\ y.got = socket[w].got
    BY <1>1, DisconnectedFields DEF EventsInv
<1>3. socket' = [socket EXCEPT ![w] = y]
    BY <1>1 DEF Events!LeaveRooms
<1>4. UNCHANGED <<status, mixed, revoked, expired, crashes, buffers, log, stream, gateway>>
    BY DEF Events!LeaveRooms, Events!busVars, Events!tokenVars
<1>5. /\ GatewayOK(gateway', log, revoked, expired)
      /\ \A v \in Sockets : Ahead(v, socket[v].got, gateway')
    BY <1>4, AheadNow DEF EventsInv
<1> QED BY <1>2, <1>3, <1>4, <1>5, OneSocket

(* The gateway after the verdict on w: one target less.                    *)
LessTarget(g, w) == [g EXCEPT !.targets = g.targets \ {w}]

LEMMA LessTargetOK ==
    ASSUME EventsInv, NEW w, NEW h, h = LessTarget(gateway, w)
    PROVE  /\ h.queue = gateway.queue /\ h.targets = gateway.targets \ {w}
           /\ h.delivering = gateway.delivering
           /\ GatewayOK(h, log, revoked, expired)
           /\ \A v \in Sockets : Ahead(v, socket[v].got, h)
<1>1. GatewayOK(gateway, log, revoked, expired) /\ gateway \in GatewayRecord
    BY DEF EventsInv, GatewayOK
<1>2. h = [queue |-> gateway.queue, targets |-> gateway.targets \ {w},
           delivering |-> gateway.delivering]
    BY <1>1 DEF LessTarget, GatewayRecord
<1>3. /\ h.queue = gateway.queue /\ h.targets = gateway.targets \ {w}
      /\ h.delivering = gateway.delivering
    BY <1>2
<1>4. h \in GatewayRecord
    BY <1>1, <1>2 DEF GatewayRecord
<1>5. GatewayOK(h, log, revoked, expired)
    BY <1>1, <1>3, <1>4 DEF GatewayOK
<1>6. \A v \in Sockets : Ahead(v, socket[v].got, h)
    BY <1>3, AheadNow DEF Ahead
<1> QED BY <1>3, <1>5, <1>6

LEMMA VerdictStep ==
    ASSUME EventsInv, NEW w \in Sockets, Events!VerdictUnavailable(w)
    PROVE  EventsInv'
<1>1. PICK y : y = Events!Disconnected(socket[w])
    OBVIOUS
<1>2. y \in SocketRecord /\ y.rooms = {} /\ y.got = socket[w].got
    BY <1>1, DisconnectedFields DEF EventsInv
<1>3. /\ socket' = [socket EXCEPT ![w] = y] /\ gateway' = LessTarget(gateway, w)
      /\ UNCHANGED <<status, mixed, revoked, expired, crashes, buffers, log, stream>>
    BY <1>1 DEF Events!VerdictUnavailable, Events!busVars, Events!tokenVars, LessTarget
<1>4. /\ GatewayOK(gateway', log, revoked, expired)
      /\ \A v \in Sockets : Ahead(v, socket[v].got, gateway')
    BY <1>3, LessTargetOK
<1> QED BY <1>2, <1>3, <1>4, OneSocket

Fetched(g, T) == [g EXCEPT !.delivering = TRUE, !.targets = T]

LEMMA FetchedFields ==
    ASSUME NEW g, g \in GatewayRecord, NEW T, T \subseteq Sockets, NEW h, h = Fetched(g, T)
    PROVE  h \in GatewayRecord /\ h.queue = g.queue /\ h.targets = T /\ h.delivering
<1>1. h = [queue |-> g.queue, targets |-> T, delivering |-> TRUE]
    BY DEF Fetched, GatewayRecord
<1> QED BY <1>1 DEF GatewayRecord

LEMMA FetchStep ==
    ASSUME EventsInv, Events!FetchSockets
    PROVE  EventsInv'
<1>1. PICK q : q = gateway.queue
    OBVIOUS
<1>2. PICK R : R = {w \in Sockets : Head(gateway.queue).order \in socket[w].rooms}
    OBVIOUS
<1>3. PICK T : T = {w \in R : ~Events!HasExpired(UserOf[w])}
    OBVIOUS
<1>4. /\ gateway.queue # <<>> /\ ~gateway.delivering
      /\ gateway' = [gateway EXCEPT !.delivering = TRUE,
                                    !.targets = {w \in R : ~Events!HasExpired(UserOf[w])}]
      /\ socket' = [w \in Sockets |-> IF w \in R /\ Events!HasExpired(UserOf[w])
                                      THEN Events!Disconnected(socket[w]) ELSE socket[w]]
      /\ UNCHANGED <<status, mixed, revoked, expired, crashes, buffers, log, stream>>
    BY <1>2, Zenon DEF Events!FetchSockets, Events!busVars, Events!tokenVars
<1>5. gateway \in GatewayRecord /\ GatewayOK(gateway, log, revoked, expired)
    BY DEF EventsInv, GatewayOK
<1>6. q \in Seq(EventRecord) /\ q # <<>>
    BY <1>1, <1>4, <1>5 DEF GatewayRecord
<1>7. Head(q) = q[1] /\ 1 \in 1..Len(q)
    BY ONLY <1>6, EmptySeq
<1>8. R \subseteq Sockets /\ T \subseteq Sockets
    BY <1>2, <1>3
<1>9. PICK h : h = Fetched(gateway, T)
    OBVIOUS
<1>10. gateway' = h
    BY <1>3, <1>4, <1>9 DEF Fetched
<1>11. h \in GatewayRecord /\ h.queue = q /\ h.targets = T /\ h.delivering
    BY <1>1, <1>5, <1>8, <1>9, FetchedFields
<1>12. ASSUME NEW w \in T, q[1].late PROVE UserOf[w] \in revoked
    <2>1. w \in Sockets /\ q[1].order \in socket[w].rooms /\ UserOf[w] \notin expired
        BY <1>1, <1>2, <1>3, <1>7 DEF Events!HasExpired
    <2>2. Owner[q[1].order] = UserOf[w]
        BY <2>1 DEF EventsInv, SocketOK
    <2>3. Owner[q[1].order] \in revoked \cup expired
        BY <1>1, <1>5, <1>7, <1>12 DEF GatewayOK
    <2> QED BY <2>1, <2>2, <2>3
<1>13. GatewayOK(h, log, revoked, expired)
    BY <1>1, <1>5, <1>6, <1>11, <1>12 DEF GatewayOK
<1>14. ASSUME NEW w \in Sockets PROVE SocketOK(w, socket'[w], h, log)
    <2>1. SocketOK(w, socket[w], gateway, log) /\ socket[w] \in SocketRecord
        BY DEF EventsInv, SocketOK
    <2>2. Ahead(w, socket[w].got, h)
        BY <1>1, <1>4, <1>11, <2>1 DEF SocketOK, Ahead
    <2>3. SocketOK(w, socket[w], h, log)
        BY <2>1, <2>2 DEF SocketOK
    <2>4. PICK y : y = Events!Disconnected(socket[w])
        OBVIOUS
    <2>5. y \in SocketRecord /\ y.rooms = {} /\ y.got = socket[w].got
        BY <2>1, <2>4, DisconnectedFields
    <2>6. SocketOK(w, y, h, log)
        BY <2>3, <2>5 DEF SocketOK
    <2> QED BY <1>4, <2>3, <2>4, <2>6
<1>15. DOMAIN socket' = Sockets /\ socket' = [w \in Sockets |-> socket'[w]]
    BY <1>4
<1> QED BY <1>4, <1>10, <1>13, <1>14, <1>15, SocketsMove

Emitted(x, e) == [x EXCEPT !.got = Append(x.got, e)]

LEMMA EmittedFields ==
    ASSUME NEW x, x \in SocketRecord, NEW e, e \in EventRecord, NEW y, y = Emitted(x, e)
    PROVE  y \in SocketRecord /\ y.rooms = x.rooms /\ y.got = Append(x.got, e)
<1>1. PICK s : s = Append(x.got, e)
    OBVIOUS
<1>2. s \in Seq(EventRecord)
    BY <1>1, AppendProperties DEF SocketRecord
<1>3. y = [joining |-> x.joining, rooms |-> x.rooms, got |-> s]
    BY <1>1 DEF Emitted, SocketRecord
<1> QED BY <1>1, <1>2, <1>3 DEF SocketRecord

(* The socket gets the first event of the queue, which it does not have.   *)
LEMMA EmittedOK ==
    ASSUME NEW w, NEW x, NEW g, NEW L, NEW I, NEW X, SocketOK(w, x, g, L), GatewayOK(g, L, I, X),
           w \in g.targets, UserOf[w] \notin I, NEW e, e = g.queue[1], NEW h, h \in GatewayRecord,
           h.queue = g.queue, h.delivering, w \notin h.targets, NEW y, y = Emitted(x, e)
    PROVE  SocketOK(w, y, h, L)
<1>1. PICK q, s : q = g.queue /\ s = x.got
    OBVIOUS
<1>2. x \in SocketRecord /\ g \in GatewayRecord
    BY DEF SocketOK, GatewayOK
<1>3. q \in Seq(EventRecord) /\ s \in Seq(EventRecord) /\ q # <<>>
    BY <1>1, <1>2 DEF SocketRecord, GatewayRecord, GatewayOK
<1>4. 1 \in 1..Len(q) /\ e = q[1]
    BY <1>1, <1>3, EmptySeq
<1>5. e \in EventRecord
    BY <1>3, <1>4, EventFields
<1>6. y \in SocketRecord /\ y.rooms = x.rooms /\ y.got = Append(x.got, e)
    BY <1>2, <1>5, EmittedFields
<1>7. PICK t : t = Append(s, e)
    OBVIOUS
<1>8. /\ t \in Seq(EventRecord) /\ Len(t) = Len(s) + 1 /\ Len(s) \in Nat
      /\ \A i \in 1..Len(t) : t[i] = IF i <= Len(s) THEN s[i] ELSE e
    BY ONLY <1>3, <1>5, <1>7, Appended
<1>9. \A i \in 1..Len(t) : (i \in 1..Len(s) /\ t[i] = s[i]) \/ (i = Len(s) + 1 /\ t[i] = e)
    BY ONLY <1>8
<1>10. Published(s, L) /\ InOrder(s) /\ \A i \in 1..Len(s) : ~s[i].late
    BY <1>1 DEF SocketOK
<1>11. Published(q, L) /\ InOrder(q) /\ (q[1].late => UserOf[w] \in I)
    BY <1>1 DEF GatewayOK
<1>12. \A i \in 1..Len(s) : s[i].order = e.order => s[i].n < e.n
    BY <1>1, <1>4 DEF SocketOK, Ahead
<1>13. Published(t, L)
    BY <1>4, <1>9, <1>10, <1>11 DEF Published
<1>14. InOrder(t)
    <2> SUFFICES ASSUME NEW i \in 1..Len(t), NEW j \in 1..Len(t), i < j, t[i].order = t[j].order
                 PROVE  t[i].n < t[j].n
        BY DEF InOrder
    <2>1. i \in 1..Len(s) /\ t[i] = s[i]
        BY <1>8, <1>9
    <2>2. CASE j \in 1..Len(s) /\ t[j] = s[j]
        BY <1>10, <2>1, <2>2 DEF InOrder
    <2>3. CASE t[j] = e
        BY <1>12, <2>1, <2>3
    <2> QED BY <1>9, <2>2, <2>3
<1>15. \A i \in 1..Len(t) : ~t[i].late
    BY <1>4, <1>9, <1>10, <1>11
<1>16. Ahead(w, t, h)
    <2> SUFFICES ASSUME NEW i \in 1..Len(t), NEW j \in 1..Len(q), t[i].order = q[j].order, j # 1
                 PROVE  t[i].n < q[j].n
        BY <1>1 DEF Ahead
    <2>1. CASE i \in 1..Len(s) /\ t[i] = s[i]
        BY <1>1, <2>1 DEF SocketOK, Ahead
    <2>2. CASE t[i] = e
        BY <1>3, <1>4, <1>11, <2>2, LenProperties DEF InOrder
    <2> QED BY <1>9, <2>1, <2>2
<1> QED BY <1>1, <1>6, <1>7, <1>13, <1>14, <1>15, <1>16 DEF SocketOK

LEMMA EmitStep ==
    ASSUME EventsInv, NEW w \in Sockets, Events!EmitTo(w)
    PROVE  EventsInv'
<1>1. PICK x, q, e, h : /\ x = socket[w] /\ q = gateway.queue /\ e = Head(gateway.queue)
                        /\ h = LessTarget(gateway, w)
    OBVIOUS
<1>2. PICK y : y = IF Events!IsDenied(UserOf[w]) THEN Events!Disconnected(x)
                   ELSE IF e.order \in x.rooms THEN Emitted(x, e) ELSE x
    OBVIOUS
<1>3. /\ w \in gateway.targets /\ gateway' = h /\ socket' = [socket EXCEPT ![w] = y]
      /\ UNCHANGED <<status, mixed, revoked, expired, crashes, buffers, log, stream>>
    BY <1>1, <1>2 DEF Events!EmitTo, Events!busVars, Events!tokenVars, LessTarget, Emitted
<1>4. /\ h.queue = gateway.queue /\ h.targets = gateway.targets \ {w}
      /\ h.delivering = gateway.delivering
      /\ GatewayOK(h, log, revoked, expired)
      /\ \A v \in Sockets : Ahead(v, socket[v].got, h)
    BY <1>1, LessTargetOK
<1>5. /\ x \in SocketRecord /\ SocketOK(w, x, gateway, log)
      /\ GatewayOK(gateway, log, revoked, expired) /\ gateway \in GatewayRecord
    BY <1>1 DEF EventsInv, GatewayOK
<1>6. gateway.delivering /\ gateway.queue # <<>>
    BY <1>3, <1>5 DEF GatewayOK
<1>7. SocketOK(w, x, h, log)
    BY <1>1, <1>4, <1>5 DEF SocketOK
<1>8. SocketOK(w, y, h, log)
    <2>1. CASE Events!IsDenied(UserOf[w])
        <3>1. y = Events!Disconnected(x)
            BY <1>2, <2>1
        <3>2. y \in SocketRecord /\ y.rooms = {} /\ y.got = x.got
            BY <1>5, <3>1, DisconnectedFields
        <3> QED BY <1>7, <3>2 DEF SocketOK
    <2>2. CASE ~Events!IsDenied(UserOf[w]) /\ e.order \in x.rooms
        <3>1. y = Emitted(x, e)
            BY <1>2, <2>2
        <3>2. e = gateway.queue[1]
            <4>1. q \in Seq(EventRecord) /\ q # <<>>
                BY <1>1, <1>5, <1>6 DEF GatewayRecord
            <4>2. Head(q) = q[1]
                BY ONLY <4>1, EmptySeq
            <4> QED BY <1>1, <4>2
        <3>3. h \in GatewayRecord /\ h.delivering /\ w \notin h.targets
            BY <1>4, <1>6 DEF GatewayOK
        <3>4. UserOf[w] \notin revoked
            BY <2>2 DEF Events!IsDenied
        <3> QED BY <1>3, <1>4, <1>5, <3>1, <3>2, <3>3, <3>4, EmittedOK
    <2>3. CASE ~Events!IsDenied(UserOf[w]) /\ e.order \notin x.rooms
        BY <1>2, <1>7, <2>3
    <2> QED BY <2>1, <2>2, <2>3
<1>9. socket \in [Sockets -> SocketRecord]
    BY DEF EventsInv
<1>10. ASSUME NEW v \in Sockets PROVE SocketOK(v, socket'[v], h, log)
    <2>1. socket'[v] = IF v = w THEN y ELSE socket[v]
        BY <1>3, <1>9
    <2>2. SocketOK(v, socket[v], gateway, log)
        BY DEF EventsInv
    <2>3. SocketOK(v, socket[v], h, log)
        BY <1>4, <2>2 DEF SocketOK
    <2> QED BY <1>8, <2>1, <2>3
<1>11. socket' = [v \in Sockets |-> socket'[v]] /\ DOMAIN socket' = Sockets
    BY <1>3, <1>9
<1> QED BY <1>3, <1>4, <1>10, <1>11, SocketsMove

Handled(g) == [g EXCEPT !.delivering = FALSE, !.queue = Tail(g.queue)]

LEMMA DeliveredStep ==
    ASSUME EventsInv, Events!Delivered
    PROVE  EventsInv'
<1>1. PICK q, p, h : q = gateway.queue /\ p = Tail(q) /\ h = Handled(gateway)
    OBVIOUS
<1>2. gateway \in GatewayRecord /\ GatewayOK(gateway, log, revoked, expired)
    BY DEF EventsInv, GatewayOK
<1>3. /\ gateway.delivering /\ gateway.targets = {} /\ gateway' = h
      /\ UNCHANGED <<status, mixed, revoked, expired, crashes, buffers, log, stream, socket>>
    BY <1>1 DEF Events!Delivered, Events!busVars, Events!tokenVars, Handled
<1>4. q \in Seq(EventRecord) /\ q # <<>>
    BY <1>1, <1>2, <1>3 DEF GatewayRecord, GatewayOK
<1>5. /\ p \in Seq(EventRecord) /\ Len(p) = Len(q) - 1 /\ Len(q) \in Nat \ {0}
      /\ \A i \in 1..Len(p) : p[i] = q[i + 1]
    BY <1>1, <1>4, Tailed
<1>6. \A i \in 1..Len(p) : i + 1 \in 2..Len(q) /\ i + 1 \in 1..Len(q) /\ p[i] = q[i + 1]
    BY ONLY <1>5
<1>7. h = [queue |-> p, targets |-> {}, delivering |-> FALSE]
    BY <1>1, <1>2, <1>3 DEF Handled, GatewayRecord
<1>8. h \in GatewayRecord /\ h.queue = p /\ h.targets = {} /\ ~h.delivering
    BY <1>5, <1>7 DEF GatewayRecord
<1>9. Published(p, log) /\ InOrder(p)
    <2>1. Published(q, log) /\ InOrder(q)
        BY <1>1, <1>2 DEF GatewayOK
    <2>2. Published(p, log)
        BY <1>6, <2>1 DEF Published
    <2>3. InOrder(p)
        <3> SUFFICES ASSUME NEW i \in 1..Len(p), NEW j \in 1..Len(p), i < j,
                            p[i].order = p[j].order
                     PROVE  p[i].n < p[j].n
            BY DEF InOrder
        <3>1. i + 1 \in 1..Len(q) /\ j + 1 \in 1..Len(q) /\ i + 1 < j + 1
            BY <1>6
        <3> QED BY <1>6, <2>1, <3>1 DEF InOrder
    <2> QED BY <2>2, <2>3
<1>10. \A j \in 1..Len(p) : p[j].late => Owner[p[j].order] \in revoked \cup expired
    BY <1>1, <1>2, <1>6 DEF GatewayOK
<1>11. GatewayOK(h, log, revoked, expired)
    BY <1>8, <1>9, <1>10 DEF GatewayOK
<1>12. ASSUME NEW w \in Sockets PROVE SocketOK(w, socket'[w], h, log)
    <2>1. SocketOK(w, socket[w], gateway, log)
        BY DEF EventsInv
    <2>2. Ahead(w, socket[w].got, h)
        <3> SUFFICES ASSUME NEW i \in 1..Len(socket[w].got), NEW j \in 1..Len(p),
                            socket[w].got[i].order = p[j].order
                     PROVE  socket[w].got[i].n < p[j].n
            BY <1>8 DEF Ahead
        <3>1. j + 1 \in 1..Len(q) /\ p[j] = q[j + 1] /\ j + 1 # 1
            BY <1>6
        <3> QED BY <1>1, <2>1, <3>1 DEF SocketOK, Ahead
    <2> QED BY <1>3, <2>1, <2>2 DEF SocketOK
<1>13. DOMAIN socket' = Sockets /\ socket' = [w \in Sockets |-> socket'[w]]
    BY <1>3 DEF EventsInv
<1> QED BY <1>3, <1>11, <1>12, <1>13, SocketsMove

-----------------------------------------------------------------------------
(* The other steps                                                         *)

(* The UPDATE of a change, which sends nothing yet.                        *)
LEMMA StatusStep ==
    ASSUME EventsInv, NEW c \in Changers, NEW o \in Orders, NEW s \in Events!Status,
           Events!ChangeStatus(c, o, s)
    PROVE  EventsInv'
<1>1. UNCHANGED <<revoked, expired, crashes, buffers, log, stream, socket, gateway>>
    BY DEF Events!ChangeStatus, Events!tokenVars
<1>2. status' \in [Orders -> Events!Status]
    <2>1. PICK U : U = Events!Updated(o, s)
        OBVIOUS
    <2>2. status' = [x \in Orders |-> IF x \in U THEN s ELSE status[x]]
        BY <2>1 DEF Events!ChangeStatus
    <2> QED BY <2>2 DEF EventsInv
<1>3. mixed' \subseteq Orders
    <2>1. PICK S : S = {x \in {o} : \E d \in Changers : change[d].order = x}
        OBVIOUS
    <2>2. mixed' = mixed \cup S
        BY <2>1, Zenon DEF Events!ChangeStatus
    <2>3. S \subseteq {o}
        BY <2>1
    <2> QED BY <2>2, <2>3 DEF EventsInv
<1> QED BY <1>1, <1>2, <1>3 DEF EventsInv

(* More tokens are invalid.                                                *)
LEMMA TokensStep ==
    ASSUME EventsInv, NEW u \in Users, Events!Revoke(u) \/ Events!Expire(u)
    PROVE  EventsInv'
<1>1. UNCHANGED <<status, mixed, crashes, buffers, log, stream, socket, gateway>>
    BY DEF Events!Revoke, Events!Expire, Events!busVars
<1>2. PICK I, X : I = revoked' /\ X = expired'
    OBVIOUS
<1>3. revoked \subseteq I /\ expired \subseteq X /\ I \subseteq Users /\ X \subseteq Users
    BY <1>2 DEF Events!Revoke, Events!Expire, EventsInv
<1>4. ASSUME NEW k \in Streams PROVE StreamOK(k, stream[k], buffers, log, I, X)
    <2>1. StreamOK(k, stream[k], buffers, log, revoked, expired)
        BY DEF EventsInv
    <2> QED BY <1>3, <2>1, MoreInvalid
<1>5. GatewayOK(gateway, log, I, X)
    <2>1. GatewayOK(gateway, log, revoked, expired)
        BY DEF EventsInv
    <2>2. /\ \A j \in 1..Len(gateway.queue) :
                gateway.queue[j].late => Owner[gateway.queue[j].order] \in I \cup X
          /\ \A w \in gateway.targets : gateway.queue[1].late => UserOf[w] \in I
        BY <1>3, <2>1 DEF GatewayOK
    <2> QED BY <2>1, <2>2 DEF GatewayOK
<1> QED BY <1>1, <1>2, <1>3, <1>4, <1>5 DEF EventsInv

LEMMA WaitingFields ==
    /\ Events!Waiting.queue = <<>> /\ Events!Waiting.targets = {} /\ ~Events!Waiting.delivering
    /\ Events!Waiting \in GatewayRecord /\ Len(Events!Waiting.queue) = 0
<1>1. <<>> \in Seq(EventRecord) /\ Len(<<>>) = 0
    BY EmptySeq
<1> QED BY <1>1 DEF Events!Waiting, GatewayRecord

(* The bus of a process that has just started.                             *)
LEMMA EmptyBus ==
    ASSUME NEW L, NEW I, NEW X
    PROVE  /\ MapOK(<<>>, L) /\ \A o : BufferIn(<<>>, o) = <<>>
           /\ GatewayOK(Events!Waiting, L, I, X)
           /\ \A w, s : Ahead(w, s, Events!Waiting)
<1>1. <<>> \in Seq(EntryRecord) /\ Len(<<>>) = 0 /\ 0 <= MAX_ORDERS
    BY EmptySeq, EventsAssumed
<1>2. MapOK(<<>>, L)
    BY <1>1 DEF MapOK
<1>3. \A o : BufferIn(<<>>, o) = <<>>
    BY <1>1 DEF BufferIn
<1>4. GatewayOK(Events!Waiting, L, I, X)
    BY WaitingFields DEF GatewayOK, Published, InOrder
<1>5. \A w, s : Ahead(w, s, Events!Waiting)
    BY WaitingFields DEF Ahead
<1> QED BY <1>2, <1>3, <1>4, <1>5

LEMMA BusCrashStep ==
    ASSUME EventsInv, Events!Crash
    PROVE  EventsInv'
<1>1. /\ UNCHANGED <<status, log, revoked, expired>>
      /\ buffers' = <<>> /\ gateway' = Events!Waiting
      /\ stream' = [k \in Streams |-> Events!HungUp(stream[k], stream[k].got)]
      /\ socket' = [w \in Sockets |-> Events!Disconnected(socket[w])]
    BY DEF Events!Crash, Events!tokenVars
<1>2. mixed' \subseteq Orders
    <2>1. PICK S : S = {o \in Orders : \E c \in Changers : change[c].order = o}
        OBVIOUS
    <2>2. mixed' = mixed \cup S
        BY <2>1, Zenon DEF Events!Crash
    <2>3. S \subseteq Orders
        BY <2>1
    <2> QED BY <2>2, <2>3 DEF EventsInv
<1>3. crashes' \in 0..MaxCrashes
    BY EventsAssumed DEF Events!Crash, EventsInv
<1>4. PICK G : G = Events!Waiting
    OBVIOUS
<1>5. /\ MapOK(<<>>, log) /\ \A o : BufferIn(<<>>, o) = <<>>
      /\ GatewayOK(G, log, revoked, expired) /\ \A w, s : Ahead(w, s, G)
    BY <1>4, EmptyBus
<1>6. ASSUME NEW k \in Streams PROVE StreamOK(k, stream'[k], <<>>, log, revoked, expired)
    <2>1. PICK x, y : x = stream[k] /\ y = Events!HungUp(x, x.got)
        OBVIOUS
    <2>2. StreamOK(k, x, buffers, log, revoked, expired) /\ x.got \in Seq(EventRecord)
        BY <2>1 DEF EventsInv, StreamRecord
    <2>3. Len(x.got) <= Len(x.got)
        BY <2>2, LenProperties
    <2>4. StreamOK(k, y, buffers, log, revoked, expired)
        BY <2>1, <2>2, <2>3, HungUpOK
    <2>5. StreamOK(k, y, <<>>, log, revoked, expired)
        BY <1>5, <2>4, StreamKeeps
    <2> QED BY <1>1, <2>1, <2>5
<1>7. ASSUME NEW w \in Sockets PROVE SocketOK(w, socket'[w], G, log)
    <2>1. PICK x, y : x = socket[w] /\ y = Events!Disconnected(x)
        OBVIOUS
    <2>2. x \in SocketRecord /\ SocketOK(w, x, gateway, log)
        BY <2>1 DEF EventsInv
    <2>3. y \in SocketRecord /\ y.rooms = {} /\ y.got = x.got
        BY <2>1, <2>2, DisconnectedFields
    <2>4. SocketOK(w, y, G, log)
        BY <1>5, <2>2, <2>3 DEF SocketOK
    <2> QED BY <1>1, <2>1, <2>4
<1>8. stream' \in [Streams -> StreamRecord] /\ socket' \in [Sockets -> SocketRecord]
    <2>1. stream' = [k \in Streams |-> stream'[k]] /\ socket' = [w \in Sockets |-> socket'[w]]
        BY <1>1
    <2> QED BY <1>6, <1>7, <2>1 DEF StreamOK, PlaceOK, SocketOK
<1> QED BY <1>1, <1>2, <1>3, <1>4, <1>5, <1>6, <1>7, <1>8 DEF EventsInv

LEMMA EventsStart == Events!Init => EventsInv
<1> SUFFICES ASSUME Events!Init PROVE EventsInv
    OBVIOUS
<1>1. /\ status = [o \in Orders |-> "pending"] /\ mixed = {}
      /\ revoked = {} /\ expired = {} /\ crashes = 0
      /\ buffers = <<>> /\ gateway = Events!Waiting
      /\ stream = [k \in Streams |-> Events!NoClient]
      /\ socket = [w \in Sockets |-> Events!NoSocket]
    BY DEF Events!Init
<1>2. PICK E : E = <<>>
    OBVIOUS
<1>3. E \in Seq(EventRecord) /\ Len(E) = 0
    BY <1>2, EmptySeq
<1>4. PICK x : x = Events!NoClient
    OBVIOUS
<1>5. x = [pc |-> "closed", order |-> None, queue |-> E, checking |-> FALSE, base |-> 0,
           got |-> E]
    BY <1>2, <1>4 DEF Events!NoClient
<1>6. x \in StreamRecord
    BY <1>3, <1>5 DEF StreamRecord
<1>7. PICK G : G = Events!Waiting
    OBVIOUS
<1>8. /\ MapOK(<<>>, log) /\ GatewayOK(G, log, revoked, expired) /\ \A w, s : Ahead(w, s, G)
    BY <1>7, EmptyBus
<1>9. ASSUME NEW k \in Streams PROVE StreamOK(k, x, buffers, log, revoked, expired)
    <2>1. PlaceOK(k, x)
        BY <1>2, <1>3, <1>5, <1>6 DEF PlaceOK
    <2>2. Line(x) = E
        BY <1>5 DEF Line
    <2>3. SeamlessOK(x, BufferIn(buffers, x.order), log)
        BY <1>3, <1>5, <2>2 DEF SeamlessOK, OfOrder, Seams
    <2>4. CheckedOK(k, x, revoked, expired)
        BY <1>3, <1>5 DEF CheckedOK
    <2> QED BY <2>1, <2>3, <2>4 DEF StreamOK
<1>10. PICK z : z = Events!NoSocket
    OBVIOUS
<1>11. z = [joining |-> None, rooms |-> {}, got |-> E]
    BY <1>2, <1>10 DEF Events!NoSocket
<1>12. z \in SocketRecord
    BY <1>3, <1>11 DEF SocketRecord
<1>13. ASSUME NEW w \in Sockets PROVE SocketOK(w, z, G, log)
    BY <1>3, <1>8, <1>11, <1>12 DEF SocketOK, Published, InOrder
<1>14. /\ status \in [Orders -> Events!Status] /\ mixed \subseteq Orders
       /\ revoked \subseteq Users /\ expired \subseteq Users /\ crashes \in 0..MaxCrashes
    BY <1>1, EventsAssumed DEF Events!Status
<1>15. /\ stream \in [Streams -> StreamRecord] /\ \A k \in Streams : stream[k] = x
       /\ socket \in [Sockets -> SocketRecord] /\ \A w \in Sockets : socket[w] = z
    BY <1>1, <1>4, <1>6, <1>10, <1>12
<1> QED BY <1>1, <1>7, <1>8, <1>9, <1>13, <1>14, <1>15 DEF EventsInv

LEMMA EventsNext ==
    ASSUME EventsInv, CommitsInv, [Events!Next]_eventVars
    PROVE  EventsInv'
<1>1. CASE UNCHANGED eventVars
    BY <1>1 DEF eventVars, EventsInv
<1>2. ASSUME NEW c \in Changers,
             Events!Publish(c) \/ \E o \in Orders, s \in Events!Status : Events!ChangeStatus(c, o, s)
      PROVE  EventsInv'
    BY <1>2, PublishedStep, StatusStep
<1>3. ASSUME NEW k \in Streams,
             \/ Events!Subscribe(k) \/ Events!StreamStep(k) \/ Events!CheckUnavailable(k)
             \/ Events!ExpiryTimer(k) \/ Events!Close(k) \/ \E o \in Orders : Events!Connect(k, o)
      PROVE  EventsInv'
    BY <1>3, SubscribeStep, CheckStep, WriteStep, UnavailableStep, TimerStep, CloseStreamStep,
       ConnectStep DEF Events!StreamStep
<1>4. ASSUME NEW w \in Sockets,
             \/ Events!EnterRoom(w) \/ Events!VerdictUnavailable(w) \/ Events!LeaveRooms(w)
             \/ \E o \in Orders : Events!Join(w, o)
      PROVE  EventsInv'
    BY <1>4, EnterStep, VerdictStep, LeaveStep, JoinStep
<1>5. CASE Events!GatewayStep
    BY <1>5, FetchStep, DeliveredStep, EmitStep DEF Events!GatewayStep
<1>6. CASE Events!Crash
    BY <1>6, BusCrashStep
<1>7. ASSUME NEW u \in Users, Events!Revoke(u) \/ Events!Expire(u) PROVE EventsInv'
    BY <1>7, TokensStep
<1> QED BY <1>1, <1>2, <1>3, <1>4, <1>5, <1>6, <1>7 DEF Events!Next

-----------------------------------------------------------------------------
(* What the invariant says of the clients                                  *)

LEMMA RangeOf ==
    ASSUME NEW S, NEW s, s \in Seq(S), NEW e, e \in Events!Range(s)
    PROVE  \E i \in 1..Len(s) : s[i] = e
<1>1. DOMAIN s = 1..Len(s)
    BY LenProperties
<1> QED BY <1>1 DEF Events!Range

LEMMA EventsTyped == ASSUME EventsInv, CommitsInv PROVE Events!TypeOK
<1>1. \A c \in Changers : change[c] \in {Events!Idle} \cup [order : Orders, status : Events!Status]
    BY DEF CommitsInv, ChangeRecord
<1>2. /\ Len(buffers) <= MAX_ORDERS
      /\ \A i, j \in 1..Len(buffers) : buffers[i].order = buffers[j].order => i = j
      /\ \A i \in 1..Len(buffers) : Len(buffers[i].events) \in 1..BUFFER_SIZE
    BY DEF EventsInv, MapOK, BufferOK
<1>3. ASSUME NEW k \in Streams
      PROVE  /\ stream[k].pc \in {"closed", "owner", "open", "ended"}
             /\ stream[k].base \in 0..Len(stream[k].got)
    <2>1. PICK x, g, m : x = stream[k] /\ g = x.got /\ m = x.base
        OBVIOUS
    <2>2. x \in StreamRecord /\ m <= Len(g)
        BY <2>1 DEF EventsInv, StreamOK, PlaceOK
    <2>3. /\ m \in Nat /\ g \in Seq(EventRecord)
          /\ x.pc \in {"closed", "owner", "open", "ended"}
        BY <2>1, <2>2 DEF StreamRecord
    <2>4. m \in 0..Len(g)
        BY <2>2, <2>3, LenProperties
    <2> QED BY <2>1, <2>3, <2>4
<1>4. \A w \in Sockets : socket[w].rooms \subseteq Orders
    BY DEF EventsInv, SocketRecord
<1>5. /\ status \in [Orders -> Events!Status] /\ mixed \subseteq Orders
      /\ revoked \subseteq Users /\ expired \subseteq Users /\ crashes \in 0..MaxCrashes
    BY DEF EventsInv
<1> QED BY <1>1, <1>2, <1>3, <1>4, <1>5 DEF Events!TypeOK

LEMMA StreamsSeamless == ASSUME EventsInv, CommitsInv PROVE Events!ReplayIsSeamless
<1> SUFFICES ASSUME NEW k \in Streams, NEW i \in 1..(Len(stream[k].got) - 1), NEW a, NEW b,
                    a = stream[k].got[i], b = stream[k].got[i + 1], Events!SameNumbering(a, b)
             PROVE  /\ a.n < b.n
                    /\ \A e \in Events!Range(Events!Buffer(stream[k].order)) :
                            Events!SameNumbering(a, e) => e.n <= a.n \/ e.n >= b.n
    BY DEF Events!ReplayIsSeamless
<1>1. PICK x, g, l, o : x = stream[k] /\ g = x.got /\ l = Line(x) /\ o = x.order
    OBVIOUS
<1>2. PICK B : B = BufferIn(buffers, o)
    OBVIOUS
<1>3. x \in StreamRecord /\ StreamOK(k, x, buffers, log, revoked, expired)
    BY <1>1 DEF EventsInv
<1>4. /\ g \in Seq(EventRecord) /\ Len(g) \in Nat /\ l \in Seq(EventRecord) /\ Len(l) \in Nat
      /\ \A j \in 1..Len(g) : j \in 1..Len(l) /\ l[j] = g[j]
    BY <1>1, <1>3, LineFields
<1>5. Len(g) <= Len(l) /\ \A j \in 1..Len(g) : g[j] = l[j]
    BY ONLY <1>4
<1>6. Seams(l, B)
    BY <1>1, <1>2, <1>3 DEF StreamOK, SeamlessOK
<1>7. Seams(g, B)
    BY ONLY <1>4, <1>5, <1>6, SeamsOfPrefix
<1>8. i \in 1..(Len(g) - 1) /\ a = g[i] /\ b = g[i + 1]
    BY <1>1
<1>9. Seam(a, b, B)
    BY <1>7, <1>8 DEF Seams
<1>10. B \in Seq(EventRecord)
    <2>1. o \in Orders
        <3>1. g # <<>>
            BY <1>4, <1>8
        <3> QED BY <1>1, <1>3, <3>1 DEF StreamOK, PlaceOK, StreamRecord
    <2>2. MapOK(buffers, log) /\ log \in [Orders -> Seq(Events!Status)]
        BY DEF EventsInv, CommitsInv
    <2> QED BY <1>2, <2>1, <2>2, BufferFacts
<1>11. B = Events!Buffer(o)
    BY <1>2 DEF BufferIn, Events!Buffer, Events!Has, Events!Place
<1>12. ASSUME NEW e \in Events!Range(B), Events!SameNumbering(a, e)
       PROVE  e.n <= a.n \/ e.n >= b.n
    <2>1. PICK j \in 1..Len(B) : B[j] = e
        BY <1>10, <1>12, RangeOf
    <2> QED BY <1>9, <1>12, <2>1 DEF Seam
<1> QED BY <1>1, <1>9, <1>11, <1>12 DEF Seam

LEMMA RoomsInOrder == ASSUME EventsInv PROVE Events!RoomsKeepOrder
<1>1. \A w \in Sockets : InOrder(socket[w].got)
    BY DEF EventsInv, SocketOK
<1> QED BY <1>1 DEF InOrder, Events!RoomsKeepOrder

LEMMA NoneLate == ASSUME EventsInv PROVE Events!NoLateEvent
<1>1. ASSUME NEW k \in Streams, NEW e \in Events!Range(stream[k].got), e.late PROVE e.replay
    <2>1. PICK g : g = stream[k].got
        OBVIOUS
    <2>2. g \in Seq(EventRecord) /\ \A i \in 1..Len(g) : g[i].late => g[i].replay
        BY <2>1 DEF EventsInv, StreamRecord, StreamOK, CheckedOK
    <2>3. PICK i \in 1..Len(g) : g[i] = e
        BY <1>1, <2>1, <2>2, RangeOf
    <2> QED BY <1>1, <2>2, <2>3
<1>2. ASSUME NEW w \in Sockets, NEW e \in Events!Range(socket[w].got) PROVE ~e.late
    <2>1. PICK g : g = socket[w].got
        OBVIOUS
    <2>2. g \in Seq(EventRecord) /\ \A i \in 1..Len(g) : ~g[i].late
        BY <2>1 DEF EventsInv, SocketRecord, SocketOK
    <2>3. PICK i \in 1..Len(g) : g[i] = e
        BY <1>2, <2>1, <2>2, RangeOf
    <2> QED BY <2>2, <2>3
<1> QED BY <1>1, <1>2 DEF Events!NoLateEvent

(* For any orders, changers, clients and sizes of the buffers, whatever    *)
(* the tokens and the connections do and whenever the process restarts: a  *)
(* client sees the events of an order in order, on a stream over any       *)
(* number of reconnects and in a room, out of buffers that keep their      *)
(* limits.                                                                 *)
THEOREM EventsStayInOrder == ApiSpec => []EventsInOrder
<1>1. ApiInit => EventsInv /\ CommitsInv
    BY EventsStart, CommitsStart DEF ApiInit
<1>2. EventsInv /\ CommitsInv /\ [ApiNext]_<<vars, eventVars, cardVars>>
        => (EventsInv /\ CommitsInv)'
    BY EventsNext, CommitsNext DEF ApiNext
<1>3. EventsInv /\ CommitsInv => EventsInOrder
    BY EventsTyped, StreamsSeamless, RoomsInOrder DEF EventsInOrder, Events!EventsInOrder
<1> QED BY <1>1, <1>2, <1>3, PTL DEF ApiSpec

(* Under the same conditions, an event published after the client's token  *)
(* was revoked or expired does not reach the client, however many events   *)
(* wait before it, unless it is replayed.                                  *)
THEOREM NoEventIsLate == ApiSpec => []NoLateEvent
<1>1. ApiInit => EventsInv /\ CommitsInv
    BY EventsStart, CommitsStart DEF ApiInit
<1>2. EventsInv /\ CommitsInv /\ [ApiNext]_<<vars, eventVars, cardVars>>
        => (EventsInv /\ CommitsInv)'
    BY EventsNext, CommitsNext DEF ApiNext
<1>3. EventsInv => NoLateEvent
    BY NoneLate DEF NoLateEvent
<1> QED BY <1>1, <1>2, <1>3, PTL DEF ApiSpec

-----------------------------------------------------------------------------
(* Product cards                                                           *)
(*                                                                         *)
(* ver, C, P, J stand for the version of the row, the card in the cache,   *)
(* the processes and the jobs.                                             *)

ProcRecord ==
    [pc : {"idle", "delete", "get", "poll", "lock", "reread", "fetch", "set", "release"},
     row : 0..MaxVersion \cup {None}, polls : 0..MAX_POLLS,
     holds : {"no", "yes", "lost"}, job : 0..MaxVersion]

JobRecord ==
    [state : {"unsent", "lost", "waiting", "active", "done", "failed"}, attempts : 0..ATTEMPTS,
     result : 0..MaxVersion \cup {None}, raced : BOOLEAN]

ProcOK(x, ver) ==
    /\ x \in ProcRecord
    /\ x.pc = "delete" => x.job # 0 /\ x.row = None
    /\ x.pc = "set" => x.row \in 0..ver

(* A job is queued after its change, gets an attempt only if it has one    *)
(* left, and its result is no older than the change.                       *)
JobOK(v, y, ver) ==
    /\ y \in JobRecord
    /\ y.state = "unsent" => y.attempts = 0
    /\ y.state = "waiting" => y.attempts < ATTEMPTS
    /\ y.state # "unsent" => v <= ver
    /\ y.state = "done" /\ ~y.raced => y.result \in Nat /\ y.result >= v

(* An active job has one process.                                          *)
HoldersOK(P, J) ==
    /\ \A p \in Cards!Procs : P[p].job # 0 => J[P[p].job].state = "active"
    /\ \A p, q \in Cards!Procs : P[p].job # 0 /\ P[p].job = P[q].job => p = q

(* The card and every row that is about to become one are as new as v.     *)
NewEnough(v, C, P) ==
    /\ C = None \/ C >= v
    /\ \A p \in Cards!Procs : P[p].pc = "set" => P[p].row >= v

(* Once a refresh has deleted the card, nothing older than its change is   *)
(* written, unless a reader was about to when it did.                      *)
RefreshOK(x, C, P, J) ==
    x.job # 0 /\ x.pc # "delete" /\ ~J[x.job].raced =>
        NewEnough(x.job, C, P) /\ (x.row = None \/ x.row >= x.job)

CardInv ==
    /\ version \in 0..MaxVersion /\ card \in 0..version \cup {None}
    /\ lock \in Cards!Procs \cup {None} /\ redisUp \in BOOLEAN /\ cardFaults \in 0..MaxCardFaults
    /\ proc \in [Cards!Procs -> ProcRecord] /\ job \in [1..MaxVersion -> JobRecord]
    /\ \A p \in Cards!Procs : ProcOK(proc[p], version)
    /\ \A v \in 1..MaxVersion : JobOK(v, job[v], version)
    /\ HoldersOK(proc, job)
    /\ \A p \in Cards!Procs : RefreshOK(proc[p], card, proc, job)
    /\ \A p \in Cards!Procs : proc[p].holds = "yes" => lock = p

LEMMA CardsAssumed ==
    /\ None \notin Cards!Procs /\ MAX_POLLS \in Nat \ {0} /\ ATTEMPTS \in Nat \ {0}
    /\ MaxVersion \in Nat /\ MaxCardFaults \in Nat
BY ApiAssumption DEF Cards!CardsAssumption, Cards!Procs

LEMMA IdleFields ==
    /\ Cards!Idle \in ProcRecord /\ Cards!Idle.pc = "idle" /\ Cards!Idle.row = None
    /\ Cards!Idle.polls = 0 /\ Cards!Idle.holds = "no" /\ Cards!Idle.job = 0
BY CardsAssumed DEF Cards!Idle, ProcRecord

LEMMA NoJobFields ==
    /\ Cards!NoJob \in JobRecord /\ Cards!NoJob.state = "unsent" /\ Cards!NoJob.attempts = 0
    /\ ~Cards!NoJob.raced
BY CardsAssumed DEF Cards!NoJob, JobRecord

LEMMA CardsStart == Cards!Init => CardInv
<1> SUFFICES ASSUME Cards!Init PROVE CardInv
    OBVIOUS
<1>1. /\ proc \in [Cards!Procs -> ProcRecord] /\ \A p \in Cards!Procs : proc[p] = Cards!Idle
    BY IdleFields DEF Cards!Init
<1>2. /\ job \in [1..MaxVersion -> JobRecord] /\ \A v \in 1..MaxVersion : job[v] = Cards!NoJob
    BY NoJobFields DEF Cards!Init
<1>3. \A p \in Cards!Procs : ProcOK(proc[p], version) /\ RefreshOK(proc[p], card, proc, job)
    BY <1>1, IdleFields DEF ProcOK, RefreshOK
<1>4. \A v \in 1..MaxVersion : JobOK(v, job[v], version)
    BY <1>2, NoJobFields DEF JobOK
<1>5. HoldersOK(proc, job)
    BY <1>1, IdleFields DEF HoldersOK
<1>6. version \in 0..MaxVersion /\ cardFaults \in 0..MaxCardFaults
    BY CardsAssumed DEF Cards!Init
<1> QED BY <1>1, <1>2, <1>3, <1>4, <1>5, <1>6, IdleFields DEF CardInv, Cards!Init

(* What a step of process p may write to the cache: nothing, no card, or   *)
(* the row it has fetched.                                                 *)
CardStep(p) ==
    \/ card' = card \/ card' = None
    \/ proc[p].pc = "set" /\ card' = proc[p].row

LEMMA CardStepTyped ==
    ASSUME CardInv, NEW p \in Cards!Procs, CardStep(p)
    PROVE  card' \in 0..version \cup {None}
BY DEF CardInv, CardStep, ProcOK

(* What is new enough stays so when p goes on to x: it fetches the newest  *)
(* row or none at all.                                                     *)
LEMMA NewEnoughStays ==
    ASSUME CardInv, NEW p \in Cards!Procs, NEW x, proc' = [proc EXCEPT ![p] = x], CardStep(p),
           x.pc = "set" => x.row = version, NEW v \in 1..MaxVersion, v <= version,
           NewEnough(v, card, proc)
    PROVE  NewEnough(v, card', proc')
<1>1. \A q \in Cards!Procs : proc'[q] = IF q = p THEN x ELSE proc[q]
    BY DEF CardInv
<1>2. version \in Nat /\ v \in Nat
    BY CardsAssumed DEF CardInv
<1>3. card' = None \/ card' >= v
    BY DEF NewEnough, CardStep
<1>4. \A q \in Cards!Procs : proc'[q].pc = "set" => proc'[q].row >= v
    BY <1>1, <1>2 DEF NewEnough
<1> QED BY <1>3, <1>4 DEF NewEnough

(* A process goes on to x and no job changes.                              *)
LEMMA ProcMoves ==
    ASSUME CardInv, NEW p \in Cards!Procs, NEW x, proc' = [proc EXCEPT ![p] = x],
           UNCHANGED <<version, job>>, CardStep(p), ProcOK(x, version),
           x.job = proc[p].job, x.pc = "set" => x.row = version,
           proc[p].pc = "delete" => x.pc = "delete",
           x.job # 0 => x.row \in {None, proc[p].row, card, version}
    PROVE  /\ version' \in 0..MaxVersion /\ card' \in 0..version' \cup {None}
           /\ proc' \in [Cards!Procs -> ProcRecord] /\ job' \in [1..MaxVersion -> JobRecord]
           /\ \A q \in Cards!Procs : ProcOK(proc'[q], version')
           /\ \A v \in 1..MaxVersion : JobOK(v, job'[v], version')
           /\ HoldersOK(proc', job')
           /\ \A q \in Cards!Procs : RefreshOK(proc'[q], card', proc', job')
<1>1. proc' \in [Cards!Procs -> ProcRecord] /\ job' \in [1..MaxVersion -> JobRecord]
    BY DEF CardInv, ProcOK
<1>2. \A q \in Cards!Procs : proc'[q] = IF q = p THEN x ELSE proc[q]
    BY DEF CardInv
<1>3. \A q \in Cards!Procs : ProcOK(proc'[q], version')
    BY <1>2 DEF CardInv
<1>4. \A v \in 1..MaxVersion : JobOK(v, job'[v], version')
    BY DEF CardInv
<1>5. \A q \in Cards!Procs : proc'[q].job = proc[q].job
    BY <1>2
<1>6. HoldersOK(proc', job')
    BY <1>5 DEF CardInv, HoldersOK
<1>7. ASSUME NEW q \in Cards!Procs, proc'[q].job # 0, proc'[q].pc # "delete",
             ~job[proc'[q].job].raced
      PROVE  /\ NewEnough(proc'[q].job, card', proc')
             /\ proc'[q].row = None \/ proc'[q].row >= proc'[q].job
    <2>1. PICK v : v = proc[q].job
        OBVIOUS
    <2>2. proc'[q].job = v /\ v # 0 /\ v \in 1..MaxVersion /\ ~job[v].raced
        BY <1>5, <1>7, <2>1, CardsAssumed DEF CardInv, ProcRecord
    <2>3. proc[q].pc # "delete"
        BY <1>2, <1>7
    <2>4. NewEnough(v, card, proc) /\ (proc[q].row = None \/ proc[q].row >= v)
        BY <2>1, <2>2, <2>3 DEF CardInv, RefreshOK
    <2>5. v <= version /\ version \in Nat /\ v \in Nat
        BY <2>1, <2>2, CardsAssumed DEF CardInv, HoldersOK, JobOK
    <2>6. NewEnough(v, card', proc')
        BY <2>2, <2>4, <2>5, NewEnoughStays
    <2>7. proc'[q].row = None \/ proc'[q].row >= v
        BY <1>2, <2>2, <2>4, <2>5 DEF NewEnough
    <2> QED BY <2>2, <2>6, <2>7
<1>8. \A q \in Cards!Procs : RefreshOK(proc'[q], card', proc', job')
    BY <1>7 DEF RefreshOK
<1>9. version' \in 0..MaxVersion /\ card' \in 0..version' \cup {None}
    BY CardStepTyped DEF CardInv
<1> QED BY <1>1, <1>3, <1>4, <1>6, <1>8, <1>9

(* A process ends its get(), and its job, if it has one, becomes y.        *)
LEMMA ProcEnds ==
    ASSUME CardInv, NEW p \in Cards!Procs, proc' = [proc EXCEPT ![p] = Cards!Idle],
           UNCHANGED version, CardStep(p), NEW y,
           IF proc[p].job = 0 THEN job' = job
           ELSE /\ job' = [job EXCEPT ![proc[p].job] = y]
                /\ JobOK(proc[p].job, y, version) /\ y.state # "active"
    PROVE  /\ version' \in 0..MaxVersion /\ card' \in 0..version' \cup {None}
           /\ proc' \in [Cards!Procs -> ProcRecord] /\ job' \in [1..MaxVersion -> JobRecord]
           /\ \A q \in Cards!Procs : ProcOK(proc'[q], version')
           /\ \A v \in 1..MaxVersion : JobOK(v, job'[v], version')
           /\ HoldersOK(proc', job')
           /\ \A q \in Cards!Procs : RefreshOK(proc'[q], card', proc', job')
<1>1. PICK u : u = proc[p].job
    OBVIOUS
<1>2. u \in 0..MaxVersion /\ (u # 0 => u \in 1..MaxVersion)
    BY <1>1, CardsAssumed DEF CardInv, ProcRecord
<1>3. /\ proc' \in [Cards!Procs -> ProcRecord]
      /\ \A q \in Cards!Procs : proc'[q] = IF q = p THEN Cards!Idle ELSE proc[q]
    BY IdleFields DEF CardInv
<1>4. /\ job' \in [1..MaxVersion -> JobRecord]
      /\ \A v \in 1..MaxVersion : job'[v] = IF v = u THEN y ELSE job[v]
    BY <1>1, <1>2, CardsAssumed DEF CardInv, JobOK
<1>5. \A q \in Cards!Procs : ProcOK(proc'[q], version')
    BY <1>3, IdleFields DEF CardInv, ProcOK
<1>6. \A v \in 1..MaxVersion : JobOK(v, job'[v], version')
    <2>1. \A v \in 1..MaxVersion : v # 0
        BY CardsAssumed
    <2> QED BY <1>1, <1>4, <2>1 DEF CardInv
<1>7. ASSUME NEW q \in Cards!Procs, proc'[q].job # 0
      PROVE  q # p /\ proc'[q] = proc[q] /\ proc[q].job \in 1..MaxVersion /\ proc[q].job # u
    <2>1. q # p /\ proc'[q] = proc[q]
        BY <1>3, <1>7, IdleFields
    <2>2. proc[q].job \in 1..MaxVersion
        BY <1>7, <2>1, CardsAssumed DEF CardInv, ProcRecord
    <2> QED BY <1>1, <1>7, <2>1, <2>2 DEF CardInv, HoldersOK
<1>8. HoldersOK(proc', job')
    <2>1. \A q \in Cards!Procs : proc'[q].job # 0 => job'[proc'[q].job].state = "active"
        BY <1>4, <1>7 DEF CardInv, HoldersOK
    <2>2. \A q, r \in Cards!Procs : proc'[q].job # 0 /\ proc'[q].job = proc'[r].job => q = r
        BY <1>7 DEF CardInv, HoldersOK
    <2> QED BY <2>1, <2>2 DEF HoldersOK
<1>9. ASSUME NEW q \in Cards!Procs, proc'[q].job # 0, proc'[q].pc # "delete",
             ~job'[proc'[q].job].raced
      PROVE  /\ NewEnough(proc'[q].job, card', proc')
             /\ proc'[q].row = None \/ proc'[q].row >= proc'[q].job
    <2>1. PICK v : v = proc[q].job
        OBVIOUS
    <2>2. proc'[q] = proc[q] /\ v \in 1..MaxVersion /\ v # 0 /\ ~job[v].raced
        BY <1>4, <1>7, <1>9, <2>1
    <2>3. NewEnough(v, card, proc) /\ (proc[q].row = None \/ proc[q].row >= v)
        BY <1>9, <2>1, <2>2 DEF CardInv, RefreshOK
    <2>4. v <= version
        BY <2>1, <2>2 DEF CardInv, HoldersOK, JobOK
    <2>5. NewEnough(v, card', proc')
        BY <2>2, <2>3, <2>4, IdleFields, NewEnoughStays
    <2> QED BY <2>1, <2>2, <2>3, <2>5
<1>10. \A q \in Cards!Procs : RefreshOK(proc'[q], card', proc', job')
    BY <1>9 DEF RefreshOK
<1>11. version' \in 0..MaxVersion /\ card' \in 0..version' \cup {None}
    BY CardStepTyped DEF CardInv
<1> QED BY <1>3, <1>4, <1>5, <1>6, <1>8, <1>10, <1>11

(* All of the invariant but the lock and Redis.                            *)
CardsCore ==
    /\ version \in 0..MaxVersion /\ card \in 0..version \cup {None}
    /\ proc \in [Cards!Procs -> ProcRecord] /\ job \in [1..MaxVersion -> JobRecord]
    /\ \A q \in Cards!Procs : ProcOK(proc[q], version)
    /\ \A v \in 1..MaxVersion : JobOK(v, job[v], version)
    /\ HoldersOK(proc, job)
    /\ \A q \in Cards!Procs : RefreshOK(proc[q], card, proc, job)

LEMMA SucceedEnds ==
    ASSUME CardInv, NEW p \in Cards!Procs, NEW r, Cards!Succeed(p, r), UNCHANGED version,
           CardStep(p), r \in 0..MaxVersion,
           proc[p].job # 0 /\ ~job[proc[p].job].raced => r >= proc[p].job
    PROVE  CardsCore' /\ proc' = [proc EXCEPT ![p] = Cards!Idle]
<1>1. PICK v : v = proc[p].job
    OBVIOUS
<1>2. PICK y : y = [job[v] EXCEPT !.state = "done", !.result = r]
    OBVIOUS
<1>3. /\ proc' = [proc EXCEPT ![p] = Cards!Idle]
      /\ job' = IF v = 0 THEN job ELSE [job EXCEPT ![v] = y]
    BY <1>1, <1>2 DEF Cards!Succeed, CardInv
<1>4. ASSUME v # 0 PROVE JobOK(v, y, version) /\ y.state # "active"
    <2>1. v \in 1..MaxVersion
        BY <1>1, <1>4, CardsAssumed DEF CardInv, ProcRecord
    <2>2. job[v] \in JobRecord /\ JobOK(v, job[v], version) /\ job[v].state = "active"
        BY <1>1, <1>4, <2>1 DEF CardInv, HoldersOK
    <2>3. r \in 0..MaxVersion /\ r \in Nat
        BY CardsAssumed DEF CardInv
    <2>4. y \in JobRecord
        BY <1>2, <2>2, <2>3 DEF JobRecord
    <2>5. y.state = "done" /\ y.result = r
        BY <1>2, <2>2 DEF JobRecord
    <2>6. y.raced <=> job[v].raced
        BY <1>2, <2>2 DEF JobRecord
    <2> QED BY <1>1, <1>4, <2>2, <2>3, <2>4, <2>5, <2>6 DEF JobOK
<1> QED BY <1>1, <1>3, <1>4, ProcEnds DEF CardsCore

LEMMA ThrowEnds ==
    ASSUME CardInv, NEW p \in Cards!Procs, Cards!Throw(p), UNCHANGED version, CardStep(p)
    PROVE  CardsCore' /\ proc' = [proc EXCEPT ![p] = Cards!Idle]
<1>1. PICK v : v = proc[p].job
    OBVIOUS
<1>2. PICK s : s = IF job[v].attempts < ATTEMPTS THEN "waiting" ELSE "failed"
    OBVIOUS
<1>3. PICK y : y = [job[v] EXCEPT !.state = s]
    OBVIOUS
<1>4. /\ proc' = [proc EXCEPT ![p] = Cards!Idle]
      /\ job' = IF v = 0 THEN job ELSE [job EXCEPT ![v] = y]
    BY <1>1, <1>2, <1>3 DEF Cards!Throw, Cards!MayRetry, CardInv
<1>5. ASSUME v # 0 PROVE JobOK(v, y, version) /\ y.state # "active"
    <2>1. v \in 1..MaxVersion
        BY <1>1, <1>5, CardsAssumed DEF CardInv, ProcRecord
    <2>2. job[v] \in JobRecord /\ JobOK(v, job[v], version) /\ job[v].state = "active"
        BY <1>1, <1>5, <2>1 DEF CardInv, HoldersOK
    <2>3. s \in {"waiting", "failed"} /\ (s = "waiting" => job[v].attempts < ATTEMPTS)
        BY <1>2
    <2>4. y \in JobRecord
        BY <1>3, <2>2, <2>3 DEF JobRecord
    <2>5. y.state = s /\ y.attempts = job[v].attempts
        BY <1>3, <2>2 DEF JobRecord
    <2> QED BY <2>2, <2>3, <2>4, <2>5 DEF JobOK
<1> QED BY <1>1, <1>4, <1>5, ProcEnds DEF CardsCore

(* A process that ends, or moves without a new lock, leaves the lock to    *)
(* those who have it.                                                      *)
LEMMA LockKept ==
    ASSUME CardInv, NEW p \in Cards!Procs, NEW x, proc' = [proc EXCEPT ![p] = x],
           x.holds = "yes" => proc[p].holds = "yes" /\ lock' = lock,
           lock' = lock \/ lock = p
    PROVE  \A q \in Cards!Procs : proc'[q].holds = "yes" => lock' = q
<1>1. \A q \in Cards!Procs : proc'[q] = IF q = p THEN x ELSE proc[q]
    BY DEF CardInv
<1> QED BY <1>1 DEF CardInv

LEMMA Assembled ==
    ASSUME CardsCore', \A q \in Cards!Procs : proc'[q].holds = "yes" => lock' = q,
           lock' \in Cards!Procs \cup {None}, redisUp' \in BOOLEAN, cardFaults' \in 0..MaxCardFaults
    PROVE  CardInv'
BY DEF CardsCore, CardInv

LEMMA PcFields ==
    ASSUME NEW q \in ProcRecord, NEW c,
           c \in {"idle", "delete", "get", "poll", "lock", "reread", "fetch", "set", "release"},
           NEW x, x = [q EXCEPT !.pc = c]
    PROVE  /\ x \in ProcRecord /\ x.pc = c /\ x.row = q.row /\ x.polls = q.polls
           /\ x.holds = q.holds /\ x.job = q.job
BY DEF ProcRecord

(* A process only goes on to another place c of the code.                  *)
LEMMA PcMoves ==
    ASSUME CardInv, NEW p \in Cards!Procs, NEW c, c \in {"get", "poll", "lock", "fetch", "release"},
           proc' = [proc EXCEPT ![p].pc = c], proc[p].pc # "delete",
           UNCHANGED <<version, lock, job, redisUp>>, CardStep(p), cardFaults' \in 0..MaxCardFaults
    PROVE  CardInv'
<1>1. PICK x : x = [proc[p] EXCEPT !.pc = c]
    OBVIOUS
<1>2. proc[p] \in ProcRecord /\ ProcOK(proc[p], version)
    BY DEF CardInv
<1>3. /\ x \in ProcRecord /\ x.pc = c /\ x.row = proc[p].row /\ x.polls = proc[p].polls
      /\ x.holds = proc[p].holds /\ x.job = proc[p].job
    BY <1>1, <1>2, PcFields
<1>4. proc' = [proc EXCEPT ![p] = x]
    BY <1>1 DEF CardInv
<1>5. ProcOK(x, version)
    BY <1>3 DEF ProcOK
<1>6. CardsCore'
    BY <1>3, <1>4, <1>5, ProcMoves DEF CardsCore
<1>7. \A q \in Cards!Procs : proc'[q].holds = "yes" => lock' = q
    <2>1. lock' = lock
        OBVIOUS
    <2>2. x.holds = "yes" => proc[p].holds = "yes" /\ lock' = lock
        BY <1>3, <2>1
    <2> QED BY <1>4, <2>1, <2>2, LockKept
<1> QED BY <1>6, <1>7, Assembled DEF CardInv

(* A process ends without touching the lock, or deletes its own.           *)
LEMMA EndAssembled ==
    ASSUME CardInv, NEW p \in Cards!Procs, CardsCore', proc' = [proc EXCEPT ![p] = Cards!Idle],
           lock' = lock \/ (lock = p /\ lock' = None), UNCHANGED redisUp,
           cardFaults' \in 0..MaxCardFaults
    PROVE  CardInv'
<1>1. \A q \in Cards!Procs : proc'[q].holds = "yes" => lock' = q
    <2>1. lock' = lock \/ lock = p
        OBVIOUS
    <2>2. Cards!Idle.holds # "yes"
        BY IdleFields
    <2> QED BY <2>1, <2>2, LockKept
<1> QED BY <1>1, Assembled DEF CardInv

LEMMA CardFaultBound == ASSUME CardInv, Cards!Fault PROVE cardFaults' \in 0..MaxCardFaults
<1>1. cardFaults \in 0..MaxCardFaults /\ cardFaults < MaxCardFaults /\ cardFaults' = cardFaults + 1
    BY DEF CardInv, Cards!Fault
<1> QED BY <1>1, CardsAssumed

(* What a job finds after its delete is new enough.                        *)
LEMMA FoundNewEnough ==
    ASSUME CardInv, NEW p \in Cards!Procs, proc[p].pc # "delete", proc[p].job # 0,
           ~job[proc[p].job].raced
    PROVE  /\ card = None \/ card >= proc[p].job
           /\ proc[p].row = None \/ proc[p].row >= proc[p].job
           /\ proc[p].pc = "set" => proc[p].row >= proc[p].job
BY DEF CardInv, RefreshOK, NewEnough

(* Changes and jobs                                                        *)

LEMMA CardChangeStep == ASSUME CardInv, Cards!Change PROVE CardInv'
<1>1. /\ version < MaxVersion /\ version' = version + 1
      /\ UNCHANGED <<card, lock, redisUp, proc, job, cardFaults>>
    BY DEF Cards!Change
<1>2. /\ version \in 0..MaxVersion /\ card \in 0..version \cup {None}
    BY DEF CardInv
<1>3. version' \in 0..MaxVersion /\ version <= version' /\ version \in Nat /\ version' \in Nat
    BY <1>1, <1>2, CardsAssumed
<1>4. card' \in 0..version' \cup {None}
    BY <1>1, <1>2, <1>3
<1>5. \A p \in Cards!Procs : ProcOK(proc'[p], version')
    BY <1>1, <1>3 DEF CardInv, ProcOK
<1>6. \A v \in 1..MaxVersion : JobOK(v, job'[v], version')
    BY <1>1, <1>3, CardsAssumed DEF CardInv, JobOK
<1> QED BY <1>1, <1>3, <1>4, <1>5, <1>6 DEF CardInv

(* A job that no process has becomes y.                                    *)
LEMMA JobMoves ==
    ASSUME CardInv, NEW v \in 1..MaxVersion, NEW y, job' = [job EXCEPT ![v] = y],
           job[v].state # "active", JobOK(v, y, version),
           UNCHANGED <<version, card, lock, redisUp, proc>>, cardFaults' \in 0..MaxCardFaults
    PROVE  CardInv'
<1>1. /\ job' \in [1..MaxVersion -> JobRecord]
      /\ \A u \in 1..MaxVersion : job'[u] = IF u = v THEN y ELSE job[u]
    BY DEF CardInv, JobOK
<1>2. \A u \in 1..MaxVersion : JobOK(u, job'[u], version')
    BY <1>1 DEF CardInv
<1>3. ASSUME NEW p \in Cards!Procs, proc[p].job # 0
      PROVE  proc[p].job \in 1..MaxVersion /\ job'[proc[p].job] = job[proc[p].job]
    <2>1. proc[p].job \in 1..MaxVersion
        BY <1>3, CardsAssumed DEF CardInv, ProcRecord
    <2> QED BY <1>1, <1>3, <2>1 DEF CardInv, HoldersOK
<1>4. HoldersOK(proc', job')
    BY <1>3 DEF CardInv, HoldersOK
<1>5. \A p \in Cards!Procs : RefreshOK(proc'[p], card', proc', job')
    BY <1>3 DEF CardInv, RefreshOK
<1> QED BY <1>1, <1>2, <1>4, <1>5 DEF CardInv

LEMMA EnqueueStep == ASSUME CardInv, NEW v \in 1..MaxVersion, Cards!Enqueue(v) PROVE CardInv'
<1>1. /\ v <= version /\ job[v].state = "unsent" /\ UNCHANGED <<version, card, lock, redisUp, proc>>
    BY DEF Cards!Enqueue
<1>2. PICK s \in {"waiting", "lost"} :
          job' = [job EXCEPT ![v].state = s] /\ (UNCHANGED cardFaults \/ Cards!Fault)
    BY DEF Cards!Enqueue
<1>3. PICK y : y = [job[v] EXCEPT !.state = s]
    OBVIOUS
<1>4. job[v] \in JobRecord /\ JobOK(v, job[v], version)
    BY DEF CardInv
<1>5. y \in JobRecord /\ y.state = s /\ y.attempts = job[v].attempts
    BY <1>3, <1>4 DEF JobRecord
<1>6. JobOK(v, y, version)
    BY <1>1, <1>4, <1>5, CardsAssumed DEF JobOK
<1>7. job' = [job EXCEPT ![v] = y] /\ cardFaults' \in 0..MaxCardFaults
    BY <1>2, <1>3, CardFaultBound DEF CardInv
<1> QED BY <1>1, <1>6, <1>7, JobMoves

LEMMA TakeJobStep ==
    ASSUME CardInv, NEW w \in Cards!Procs, NEW v \in 1..MaxVersion, Cards!TakeJob(w, v)
    PROVE  CardInv'
<1>1. PICK y : y = [job[v] EXCEPT !.state = "active", !.attempts = job[v].attempts + 1]
    OBVIOUS
<1>2. PICK x : x = [Cards!Idle EXCEPT !.pc = "delete", !.job = v]
    OBVIOUS
<1>3. /\ proc[w] = Cards!Idle /\ job[v].state = "waiting"
      /\ job' = [job EXCEPT ![v] = y] /\ proc' = [proc EXCEPT ![w] = x]
      /\ UNCHANGED <<version, card, lock, redisUp, cardFaults>>
    BY <1>1, <1>2 DEF Cards!TakeJob, CardInv
<1>4. job[v] \in JobRecord /\ JobOK(v, job[v], version)
    BY DEF CardInv
<1>5. job[v].attempts + 1 \in 0..ATTEMPTS
    <2>1. job[v].attempts \in 0..ATTEMPTS /\ job[v].attempts < ATTEMPTS
        BY <1>3, <1>4 DEF JobOK, JobRecord
    <2> QED BY <2>1, CardsAssumed
<1>6. y \in JobRecord /\ y.state = "active"
    BY <1>1, <1>4, <1>5 DEF JobRecord
<1>7. /\ x \in ProcRecord /\ x.pc = "delete" /\ x.holds = "no" /\ x.job = v /\ v # 0 /\ x.row = None
    <2>1. v \in 0..MaxVersion /\ v # 0
        BY CardsAssumed
    <2> QED BY <1>2, <2>1, IdleFields DEF ProcRecord, Cards!Idle
<1>8. /\ job' \in [1..MaxVersion -> JobRecord]
      /\ \A u \in 1..MaxVersion : job'[u] = IF u = v THEN y ELSE job[u]
    BY <1>3, <1>6 DEF CardInv
<1>9. /\ proc' \in [Cards!Procs -> ProcRecord]
      /\ \A q \in Cards!Procs : proc'[q] = IF q = w THEN x ELSE proc[q]
    BY <1>3, <1>7 DEF CardInv
<1>10. \A q \in Cards!Procs : ProcOK(proc'[q], version')
    BY <1>3, <1>7, <1>9 DEF CardInv, ProcOK
<1>11. \A u \in 1..MaxVersion : JobOK(u, job'[u], version')
    BY <1>3, <1>4, <1>6, <1>8 DEF CardInv, JobOK
<1>12. ASSUME NEW q \in Cards!Procs, q # w, proc[q].job # 0
       PROVE  proc[q].job \in 1..MaxVersion /\ proc[q].job # v
    <2>1. proc[q].job \in 1..MaxVersion
        BY <1>12, CardsAssumed DEF CardInv, ProcRecord
    <2> QED BY <1>3, <1>12, <2>1 DEF CardInv, HoldersOK
<1>13. HoldersOK(proc', job')
    <2>1. \A q \in Cards!Procs : proc'[q].job # 0 => job'[proc'[q].job].state = "active"
        BY <1>6, <1>7, <1>8, <1>9, <1>12 DEF CardInv, HoldersOK
    <2>2. \A q, r \in Cards!Procs : proc'[q].job # 0 /\ proc'[q].job = proc'[r].job => q = r
        BY <1>7, <1>9, <1>12 DEF CardInv, HoldersOK
    <2> QED BY <2>1, <2>2 DEF HoldersOK
<1>14. ASSUME NEW q \in Cards!Procs PROVE RefreshOK(proc'[q], card', proc', job')
    <2>1. CASE q = w
        BY <1>7, <1>9, <2>1 DEF RefreshOK
    <2>2. CASE q # w
        <3>1. proc'[q] = proc[q] /\ (proc[q].job # 0 => job'[proc[q].job] = job[proc[q].job])
            BY <1>8, <1>9, <1>12, <2>2
        <3>2. \A u : NewEnough(u, card, proc) => NewEnough(u, card', proc')
            BY <1>3, <1>7, <1>9 DEF NewEnough
        <3>3. RefreshOK(proc[q], card, proc, job)
            BY DEF CardInv
        <3> QED BY <3>1, <3>2, <3>3 DEF RefreshOK
    <2> QED BY <2>1, <2>2
<1>15. \A q \in Cards!Procs : proc'[q].holds = "yes" => lock' = q
    BY <1>3, <1>7, <1>9 DEF CardInv
<1> QED BY <1>3, <1>8, <1>9, <1>10, <1>11, <1>13, <1>14, <1>15 DEF CardInv

(* cache.del of the refresh: from here on the cache is as new as its job,  *)
(* unless a reader is about to write something older.                      *)
LEMMA DeleteCardStep ==
    ASSUME CardInv, NEW w \in Cards!Procs, Cards!DeleteCard(w)
    PROVE  CardInv'
<1>1. proc[w].pc = "delete" /\ UNCHANGED <<version, lock, redisUp, cardFaults>>
    BY DEF Cards!DeleteCard
<1>2. CASE ~redisUp
    <2>1. Cards!Throw(w) /\ UNCHANGED card
        BY <1>2 DEF Cards!DeleteCard
    <2>2. CardsCore' /\ proc' = [proc EXCEPT ![w] = Cards!Idle]
        BY <1>1, <2>1, ThrowEnds DEF CardStep
    <2>3. cardFaults' \in 0..MaxCardFaults
        BY <1>1 DEF CardInv
    <2> QED BY <1>1, <2>2, <2>3, EndAssembled
<1>3. CASE redisUp
    <2>1. PICK v : v = proc[w].job
        OBVIOUS
    <2>3. PICK y : y = [job[v] EXCEPT !.raced =
                            \E p \in Cards!Procs : proc[p].pc = "set" /\ proc[p].row < v]
        OBVIOUS
    <2>4. PICK x : x = [proc[w] EXCEPT !.pc = "get"]
        OBVIOUS
    <2>5. /\ card' = None /\ proc' = [proc EXCEPT ![w] = x]
          /\ job' = [job EXCEPT ![v] = y]
        BY <1>3, <2>1, <2>3, <2>4 DEF Cards!DeleteCard, CardInv
    <2>6. proc[w] \in ProcRecord /\ ProcOK(proc[w], version) /\ v \in 1..MaxVersion
        <3>1. proc[w] \in ProcRecord /\ ProcOK(proc[w], version)
            BY DEF CardInv
        <3>2. v \in 0..MaxVersion /\ v # 0
            BY <1>1, <2>1, <3>1 DEF ProcOK, ProcRecord
        <3> QED BY <3>1, <3>2, CardsAssumed
    <2>7. /\ x \in ProcRecord /\ x.pc = "get" /\ x.row = proc[w].row
          /\ x.holds = proc[w].holds /\ x.job = v
        BY <2>1, <2>4, <2>6, PcFields
    <2>8. job[v] \in JobRecord /\ JobOK(v, job[v], version) /\ job[v].state = "active"
        BY <2>1, <2>6, CardsAssumed DEF CardInv, HoldersOK
    <2>9. y \in JobRecord /\ y.state = "active" /\ y.attempts = job[v].attempts
        BY <2>3, <2>8 DEF JobRecord
    <2>10. ~y.raced => \A p \in Cards!Procs : proc[p].pc = "set" => ~(proc[p].row < v)
        BY <2>3, <2>8 DEF JobRecord
    <2>11. /\ job' \in [1..MaxVersion -> JobRecord]
           /\ \A u \in 1..MaxVersion : job'[u] = IF u = v THEN y ELSE job[u]
        BY <2>5, <2>6, <2>9 DEF CardInv
    <2>12. /\ proc' \in [Cards!Procs -> ProcRecord]
           /\ \A q \in Cards!Procs : proc'[q] = IF q = w THEN x ELSE proc[q]
        BY <2>5, <2>7 DEF CardInv
    <2>13. \A q \in Cards!Procs : ProcOK(proc'[q], version')
        BY <1>1, <2>7, <2>12 DEF CardInv, ProcOK
    <2>14. \A u \in 1..MaxVersion : JobOK(u, job'[u], version')
        BY <1>1, <2>8, <2>9, <2>11 DEF CardInv, JobOK
    <2>15. \A q \in Cards!Procs : proc'[q].job = proc[q].job
        BY <2>1, <2>7, <2>12
    <2>16. ASSUME NEW q \in Cards!Procs, proc[q].job # 0
           PROVE  proc[q].job \in 1..MaxVersion /\ (q # w => proc[q].job # v)
        <3>1. proc[q].job \in 1..MaxVersion
            BY <2>16, CardsAssumed DEF CardInv, ProcRecord
        <3> QED BY <2>1, <2>16, <3>1 DEF CardInv, HoldersOK
    <2>17. HoldersOK(proc', job')
        <3>1. \A q \in Cards!Procs : proc'[q].job # 0 => job'[proc'[q].job].state = "active"
            BY <2>9, <2>11, <2>15, <2>16 DEF CardInv, HoldersOK
        <3>2. \A q, r \in Cards!Procs : proc'[q].job # 0 /\ proc'[q].job = proc'[r].job => q = r
            BY <2>15 DEF CardInv, HoldersOK
        <3> QED BY <3>1, <3>2 DEF HoldersOK
    <2>18. ASSUME NEW q \in Cards!Procs PROVE RefreshOK(proc'[q], card', proc', job')
        <3>1. CASE q = w
            <4> SUFFICES ASSUME ~y.raced PROVE NewEnough(v, card', proc') /\ x.row = None
                BY <2>6, <2>7, <2>11, <2>12, <3>1 DEF RefreshOK
            <4>1. \A p \in Cards!Procs : proc[p].pc = "set" => proc[p].row \in Nat
                BY CardsAssumed DEF CardInv, ProcOK
            <4>2. \A p \in Cards!Procs : proc[p].pc = "set" => proc[p].row >= v
                BY <2>6, <2>10, <4>1, CardsAssumed
            <4>3. NewEnough(v, card', proc')
                BY <2>5, <2>7, <2>12, <4>2 DEF NewEnough
            <4> QED BY <1>1, <2>6, <2>7, <4>3 DEF ProcOK
        <3>2. CASE q # w
            <4>1. proc'[q] = proc[q] /\ (proc[q].job # 0 => job'[proc[q].job] = job[proc[q].job])
                BY <2>11, <2>12, <2>16, <3>2
            <4>2. \A u : NewEnough(u, card, proc) => NewEnough(u, card', proc')
                BY <2>5, <2>7, <2>12 DEF NewEnough
            <4>3. RefreshOK(proc[q], card, proc, job)
                BY DEF CardInv
            <4> QED BY <4>1, <4>2, <4>3 DEF RefreshOK
        <3> QED BY <3>1, <3>2
    <2>19. \A q \in Cards!Procs : proc'[q].holds = "yes" => lock' = q
        BY <1>1, <2>7, <2>12 DEF CardInv
    <2> QED BY <1>1, <2>5, <2>11, <2>12, <2>13, <2>14, <2>17, <2>18, <2>19 DEF CardInv
<1> QED BY <1>2, <1>3

(* The steps of get()                                                      *)

LEMMA GetStarts == ASSUME CardInv, NEW r \in Cards!Procs, Cards!Get(r) PROVE CardInv'
<1>1. /\ proc[r] = Cards!Idle /\ proc' = [proc EXCEPT ![r].pc = "get"]
      /\ UNCHANGED <<version, card, lock, redisUp, job, cardFaults>>
    BY DEF Cards!Get
<1>2. proc[r].pc # "delete" /\ CardStep(r) /\ cardFaults' \in 0..MaxCardFaults
    BY <1>1, IdleFields DEF CardStep, CardInv
<1> QED BY <1>1, <1>2, PcMoves

LEMMA ReadCardStep == ASSUME CardInv, NEW p \in Cards!Procs, Cards!ReadCard(p) PROVE CardInv'
<1>1. /\ proc[p].pc \in {"get", "poll"} /\ UNCHANGED <<version, card, lock, redisUp, cardFaults>>
    BY DEF Cards!ReadCard
<1>2. CardStep(p) /\ cardFaults' \in 0..MaxCardFaults /\ proc[p].pc # "delete"
    BY <1>1 DEF CardStep, CardInv
<1>3. CASE Cards!Hit
    <2>1. Cards!Succeed(p, card) /\ card # None
        BY <1>3 DEF Cards!ReadCard, Cards!Hit
    <2>2. card \in 0..MaxVersion
        BY <2>1, CardsAssumed DEF CardInv
    <2>3. proc[p].job # 0 /\ ~job[proc[p].job].raced => card >= proc[p].job
        BY <1>2, <2>1, FoundNewEnough
    <2>4. CardsCore' /\ proc' = [proc EXCEPT ![p] = Cards!Idle]
        BY <1>1, <1>2, <2>1, <2>2, <2>3, SucceedEnds
    <2> QED BY <1>1, <1>2, <2>4, EndAssembled
<1>4. CASE ~Cards!Hit
    <2>1. proc' = [proc EXCEPT ![p].pc = "lock"] /\ UNCHANGED job
        BY <1>4 DEF Cards!ReadCard
    <2> QED BY <1>1, <1>2, <2>1, PcMoves
<1> QED BY <1>3, <1>4

LEMMA AcquireLockStep == ASSUME CardInv, NEW p \in Cards!Procs, Cards!AcquireLock(p) PROVE CardInv'
<1>1. proc[p].pc = "lock" /\ UNCHANGED <<version, card, redisUp, cardFaults>>
    BY DEF Cards!AcquireLock
<1>2. CardStep(p) /\ cardFaults' \in 0..MaxCardFaults /\ proc[p].pc # "delete"
    BY <1>1 DEF CardStep, CardInv
<1>3. proc[p] \in ProcRecord /\ ProcOK(proc[p], version)
    BY DEF CardInv
<1>4. \/ Cards!Throw(p) /\ UNCHANGED lock
      \/ proc' = [proc EXCEPT ![p].pc = "fetch"] /\ UNCHANGED <<lock, job>>
      \/ /\ lock = None /\ lock' = p /\ UNCHANGED job
         /\ proc' = [proc EXCEPT ![p].pc = "reread", ![p].holds = "yes"]
      \/ /\ proc' = [proc EXCEPT ![p].pc = "poll",
                                 ![p].polls = IF @ < MAX_POLLS THEN @ + 1 ELSE @]
         /\ UNCHANGED <<lock, job>>
    BY DEF Cards!AcquireLock
<1>5. CASE Cards!Throw(p) /\ UNCHANGED lock
    <2>1. CardsCore' /\ proc' = [proc EXCEPT ![p] = Cards!Idle]
        BY <1>1, <1>2, <1>5, ThrowEnds
    <2> QED BY <1>1, <1>2, <1>5, <2>1, EndAssembled
<1>6. CASE proc' = [proc EXCEPT ![p].pc = "fetch"] /\ UNCHANGED <<lock, job>>
    BY <1>1, <1>2, <1>6, PcMoves
<1>7. CASE /\ lock = None /\ lock' = p /\ UNCHANGED job
           /\ proc' = [proc EXCEPT ![p].pc = "reread", ![p].holds = "yes"]
    <2>1. PICK x : x = [proc[p] EXCEPT !.pc = "reread", !.holds = "yes"]
        OBVIOUS
    <2>2. /\ x \in ProcRecord /\ x.pc = "reread" /\ x.row = proc[p].row /\ x.job = proc[p].job
        BY <1>3, <2>1 DEF ProcRecord
    <2>3. proc' = [proc EXCEPT ![p] = x]
        BY <1>7, <2>1 DEF CardInv
    <2>4. ProcOK(x, version)
        BY <2>2 DEF ProcOK
    <2>5. CardsCore'
        BY <1>1, <1>2, <1>7, <2>2, <2>3, <2>4, ProcMoves DEF CardsCore
    <2>6. \A q \in Cards!Procs : proc'[q].holds = "yes" => q = p
        <3>1. \A q \in Cards!Procs : q # p => proc'[q] = proc[q]
            BY <2>3 DEF CardInv
        <3> QED BY <1>7, <3>1, CardsAssumed DEF CardInv
    <2>7. lock' \in Cards!Procs \cup {None} /\ redisUp' \in BOOLEAN
        BY <1>1, <1>7 DEF CardInv
    <2> QED BY <1>2, <1>7, <2>5, <2>6, <2>7, Assembled
<1>8. CASE /\ proc' = [proc EXCEPT ![p].pc = "poll",
                                   ![p].polls = IF @ < MAX_POLLS THEN @ + 1 ELSE @]
           /\ UNCHANGED <<lock, job>>
    <2>1. PICK n : n = IF proc[p].polls < MAX_POLLS THEN proc[p].polls + 1 ELSE proc[p].polls
        OBVIOUS
    <2>2. n \in 0..MAX_POLLS
        <3>1. proc[p].polls \in 0..MAX_POLLS
            BY <1>3 DEF ProcRecord
        <3> QED BY <2>1, <3>1, CardsAssumed
    <2>3. PICK x : x = [proc[p] EXCEPT !.pc = "poll", !.polls = n]
        OBVIOUS
    <2>4. /\ x \in ProcRecord /\ x.pc = "poll" /\ x.row = proc[p].row /\ x.job = proc[p].job
          /\ x.holds = proc[p].holds
        BY <1>3, <2>2, <2>3 DEF ProcRecord
    <2>5. proc' = [proc EXCEPT ![p] = x]
        BY <1>3, <1>8, <2>1, <2>3 DEF CardInv, ProcRecord
    <2>6. ProcOK(x, version)
        BY <2>4 DEF ProcOK
    <2>7. CardsCore'
        BY <1>1, <1>2, <1>8, <2>4, <2>5, <2>6, ProcMoves DEF CardsCore
    <2>8. lock' = lock /\ (x.holds = "yes" => proc[p].holds = "yes" /\ lock' = lock)
        BY <1>8, <2>4
    <2>9. \A q \in Cards!Procs : proc'[q].holds = "yes" => lock' = q
        BY <2>5, <2>8, LockKept
    <2> QED BY <1>1, <1>2, <2>7, <2>8, <2>9, Assembled DEF CardInv
<1> QED BY <1>4, <1>5, <1>6, <1>7, <1>8

LEMMA RereadStep == ASSUME CardInv, NEW p \in Cards!Procs, Cards!Reread(p) PROVE CardInv'
<1>1. /\ proc[p].pc = "reread" /\ UNCHANGED <<version, card, lock, redisUp, job, cardFaults>>
    BY DEF Cards!Reread
<1>2. proc[p] \in ProcRecord
    BY DEF CardInv
<1>3. PICK c, d : /\ c = IF Cards!Hit THEN "release" ELSE "fetch"
                  /\ d = IF Cards!Hit THEN card ELSE proc[p].row
    OBVIOUS
<1>4. c \in {"release", "fetch"} /\ d \in {proc[p].row, card} /\ d \in 0..MaxVersion \cup {None}
    BY <1>2, <1>3, CardsAssumed DEF CardInv, ProcRecord
<1>5. PICK x : x = [proc[p] EXCEPT !.pc = c, !.row = d]
    OBVIOUS
<1>6. /\ x \in ProcRecord /\ x.pc = c /\ x.row = d /\ x.job = proc[p].job
      /\ x.holds = proc[p].holds
    BY <1>2, <1>4, <1>5 DEF ProcRecord
<1>7. proc' = [proc EXCEPT ![p] = x]
    BY <1>2, <1>3, <1>5 DEF Cards!Reread, CardInv, ProcRecord
<1>8. ProcOK(x, version)
    BY <1>4, <1>6 DEF ProcOK
<1>9. CardsCore'
    <2>1. x.pc # "set" /\ x.row \in {None, proc[p].row, card, version} /\ CardStep(p)
        BY <1>1, <1>4, <1>6 DEF CardStep
    <2>2. proc[p].pc # "delete"
        BY <1>1
    <2> QED BY <1>1, <1>6, <1>7, <1>8, <2>1, <2>2, ProcMoves DEF CardsCore
<1>10. lock' = lock /\ (x.holds = "yes" => proc[p].holds = "yes" /\ lock' = lock)
    BY <1>1, <1>6
<1>11. \A q \in Cards!Procs : proc'[q].holds = "yes" => lock' = q
    BY <1>7, <1>10, LockKept
<1> QED BY <1>1, <1>9, <1>10, <1>11, Assembled DEF CardInv

LEMMA FetchRowStep == ASSUME CardInv, NEW p \in Cards!Procs, Cards!FetchRow(p) PROVE CardInv'
<1>1. /\ proc[p].pc = "fetch" /\ UNCHANGED <<version, card, lock, redisUp, job, cardFaults>>
      /\ proc' = [proc EXCEPT ![p].pc = "set", ![p].row = version]
    BY DEF Cards!FetchRow
<1>2. proc[p] \in ProcRecord /\ version \in 0..MaxVersion /\ version \in 0..version
    BY CardsAssumed DEF CardInv
<1>3. PICK x : x = [proc[p] EXCEPT !.pc = "set", !.row = version]
    OBVIOUS
<1>4. /\ x \in ProcRecord /\ x.pc = "set" /\ x.row = version /\ x.job = proc[p].job
      /\ x.holds = proc[p].holds
    BY <1>2, <1>3 DEF ProcRecord
<1>5. proc' = [proc EXCEPT ![p] = x]
    BY <1>1, <1>3 DEF CardInv
<1>6. ProcOK(x, version)
    BY <1>2, <1>4 DEF ProcOK
<1>7. CardsCore'
    <2>1. x.row \in {None, proc[p].row, card, version} /\ CardStep(p) /\ proc[p].pc # "delete"
        BY <1>1, <1>4 DEF CardStep
    <2> QED BY <1>1, <1>4, <1>5, <1>6, <2>1, ProcMoves DEF CardsCore
<1>8. lock' = lock /\ (x.holds = "yes" => proc[p].holds = "yes" /\ lock' = lock)
    BY <1>1, <1>4
<1>9. \A q \in Cards!Procs : proc'[q].holds = "yes" => lock' = q
    BY <1>5, <1>8, LockKept
<1> QED BY <1>1, <1>7, <1>8, <1>9, Assembled DEF CardInv

LEMMA FetchFailsStep == ASSUME CardInv, NEW p \in Cards!Procs, Cards!FetchFails(p) PROVE CardInv'
<1>1. /\ proc[p].pc = "fetch" /\ UNCHANGED <<version, card, lock, redisUp>>
      /\ cardFaults' \in 0..MaxCardFaults
    BY CardFaultBound DEF Cards!FetchFails
<1>2. CardStep(p) /\ proc[p].pc # "delete"
    BY <1>1 DEF CardStep
<1>3. CASE Cards!Throw(p)
    <2>1. CardsCore' /\ proc' = [proc EXCEPT ![p] = Cards!Idle]
        BY <1>1, <1>2, <1>3, ThrowEnds
    <2> QED BY <1>1, <2>1, EndAssembled
<1>4. CASE proc' = [proc EXCEPT ![p].pc = "release"] /\ UNCHANGED job
    BY <1>1, <1>2, <1>4, PcMoves
<1> QED BY <1>3, <1>4 DEF Cards!FetchFails

LEMMA SetCardStep == ASSUME CardInv, NEW p \in Cards!Procs, Cards!SetCard(p) PROVE CardInv'
<1>1. /\ proc[p].pc = "set" /\ UNCHANGED <<version, lock, redisUp, cardFaults>>
      /\ card' = IF redisUp THEN proc[p].row ELSE card
    BY DEF Cards!SetCard
<1>2. CardStep(p) /\ proc[p].pc # "delete" /\ cardFaults' \in 0..MaxCardFaults
    BY <1>1 DEF CardStep, CardInv
<1>3. CASE Cards!Succeed(p, proc[p].row)
    <2>1. proc[p].row \in 0..MaxVersion
        BY <1>1, CardsAssumed DEF CardInv, ProcOK
    <2>2. proc[p].job # 0 /\ ~job[proc[p].job].raced => proc[p].row >= proc[p].job
        BY <1>1, <1>2, FoundNewEnough
    <2>3. CardsCore' /\ proc' = [proc EXCEPT ![p] = Cards!Idle]
        BY <1>1, <1>2, <1>3, <2>1, <2>2, SucceedEnds
    <2> QED BY <1>1, <1>2, <2>3, EndAssembled
<1>4. CASE proc' = [proc EXCEPT ![p].pc = "release"] /\ UNCHANGED job
    BY <1>1, <1>2, <1>4, PcMoves
<1> QED BY <1>3, <1>4 DEF Cards!SetCard

LEMMA ReleaseLockStep == ASSUME CardInv, NEW p \in Cards!Procs, Cards!ReleaseLock(p) PROVE CardInv'
<1>1. /\ proc[p].pc = "release" /\ UNCHANGED <<version, card, redisUp, cardFaults>>
      /\ lock' = lock \/ (lock = p /\ lock' = None)
    BY DEF Cards!ReleaseLock, Cards!MayDelete
<1>2. CardStep(p) /\ proc[p].pc # "delete" /\ cardFaults' \in 0..MaxCardFaults
    BY <1>1 DEF CardStep, CardInv
<1>3. CASE proc[p].row = None
    <2>1. Cards!Throw(p)
        BY <1>3 DEF Cards!ReleaseLock
    <2>2. CardsCore' /\ proc' = [proc EXCEPT ![p] = Cards!Idle]
        BY <1>1, <1>2, <2>1, ThrowEnds
    <2> QED BY <1>1, <1>2, <2>2, EndAssembled
<1>4. CASE proc[p].row # None
    <2>1. Cards!Succeed(p, proc[p].row)
        BY <1>4 DEF Cards!ReleaseLock
    <2>2. proc[p].row \in 0..MaxVersion
        BY <1>4 DEF CardInv, ProcRecord
    <2>3. proc[p].job # 0 /\ ~job[proc[p].job].raced => proc[p].row >= proc[p].job
        BY <1>2, <1>4, FoundNewEnough
    <2>4. CardsCore' /\ proc' = [proc EXCEPT ![p] = Cards!Idle]
        BY <1>1, <1>2, <2>1, <2>2, <2>3, SucceedEnds
    <2> QED BY <1>1, <1>2, <2>4, EndAssembled
<1> QED BY <1>3, <1>4

(* Redis and crashes                                                       *)

LEMMA LockExpiresStep == ASSUME CardInv, Cards!LockExpires PROVE CardInv'
<1>1. PICK p : p = lock
    OBVIOUS
<1>2. /\ p # None /\ lock' = None /\ UNCHANGED <<version, card, redisUp, job, cardFaults>>
      /\ proc' = [proc EXCEPT ![p].holds = IF @ = "yes" THEN "lost" ELSE @]
    BY <1>1 DEF Cards!LockExpires, Cards!Losing
<1>3. p \in Cards!Procs
    BY <1>1, <1>2 DEF CardInv
<1>4. proc[p] \in ProcRecord /\ ProcOK(proc[p], version)
    BY <1>3 DEF CardInv
<1>5. PICK h : h = IF proc[p].holds = "yes" THEN "lost" ELSE proc[p].holds
    OBVIOUS
<1>6. h \in {"no", "lost"}
    BY <1>4, <1>5 DEF ProcRecord
<1>7. PICK x : x = [proc[p] EXCEPT !.holds = h]
    OBVIOUS
<1>8. /\ x \in ProcRecord /\ x.pc = proc[p].pc /\ x.row = proc[p].row /\ x.job = proc[p].job
      /\ x.holds = h
    BY <1>4, <1>6, <1>7 DEF ProcRecord
<1>9. /\ proc' \in [Cards!Procs -> ProcRecord]
      /\ \A q \in Cards!Procs : proc'[q] = IF q = p THEN x ELSE proc[q]
    BY <1>2, <1>3, <1>4, <1>5, <1>7, <1>8 DEF CardInv, ProcRecord
<1>10. \A q \in Cards!Procs : /\ proc'[q].pc = proc[q].pc /\ proc'[q].row = proc[q].row
                              /\ proc'[q].job = proc[q].job
    BY <1>8, <1>9
<1>11. \A q \in Cards!Procs : ProcOK(proc'[q], version')
    BY <1>2, <1>9, <1>10 DEF CardInv, ProcOK
<1>12. HoldersOK(proc', job')
    BY <1>2, <1>10 DEF CardInv, HoldersOK
<1>13. \A q \in Cards!Procs : RefreshOK(proc'[q], card', proc', job')
    BY <1>2, <1>10 DEF CardInv, RefreshOK, NewEnough
<1>14. \A q \in Cards!Procs : proc'[q].holds # "yes"
    BY <1>1, <1>6, <1>8, <1>9 DEF CardInv
<1> QED BY <1>2, <1>9, <1>11, <1>12, <1>13, <1>14 DEF CardInv

LEMMA CardExpiresStep == ASSUME CardInv, Cards!CardExpires PROVE CardInv'
<1>1. card' = None /\ UNCHANGED <<version, lock, redisUp, proc, job, cardFaults>>
    BY DEF Cards!CardExpires
<1>2. \A q \in Cards!Procs : RefreshOK(proc'[q], card', proc', job')
    BY <1>1 DEF CardInv, RefreshOK, NewEnough
<1> QED BY <1>1, <1>2 DEF CardInv

LEMMA RedisStep == ASSUME CardInv, Cards!RedisFails \/ Cards!RedisReturns PROVE CardInv'
<1>1. /\ UNCHANGED <<version, card, lock, proc, job>> /\ redisUp' \in BOOLEAN
      /\ cardFaults' \in 0..MaxCardFaults
    BY CardFaultBound DEF Cards!RedisFails, Cards!RedisReturns, CardInv
<1> QED BY <1>1 DEF CardInv

LEMMA CardsCrashStep == ASSUME CardInv, NEW p \in Cards!Procs, Cards!Crash(p) PROVE CardInv'
<1>1. /\ Cards!Throw(p) /\ UNCHANGED <<version, card, lock, redisUp>>
      /\ cardFaults' \in 0..MaxCardFaults
    BY CardFaultBound DEF Cards!Crash
<1>2. CardStep(p)
    BY <1>1 DEF CardStep
<1>3. CardsCore' /\ proc' = [proc EXCEPT ![p] = Cards!Idle]
    BY <1>1, <1>2, ThrowEnds
<1> QED BY <1>1, <1>3, EndAssembled

LEMMA CardsNext == ASSUME CardInv, [Cards!Next]_cardVars PROVE CardInv'
<1>1. CASE UNCHANGED cardVars
    BY <1>1 DEF cardVars, CardInv
<1>2. CASE Cards!Change \/ \E v \in 1..MaxVersion : Cards!Enqueue(v)
    BY <1>2, CardChangeStep, EnqueueStep
<1>3. ASSUME NEW w \in Workers, Cards!JobStep(w) PROVE CardInv'
    <2>1. w \in Cards!Procs
        BY DEF Cards!Procs
    <2> QED BY <1>3, <2>1, DeleteCardStep, TakeJobStep DEF Cards!JobStep
<1>4. ASSUME NEW r \in Readers, Cards!Get(r) PROVE CardInv'
    <2>1. r \in Cards!Procs
        BY DEF Cards!Procs
    <2> QED BY <1>4, <2>1, GetStarts
<1>5. ASSUME NEW p \in Cards!Procs, Cards!GetStep(p) \/ Cards!FetchFails(p) \/ Cards!Crash(p)
      PROVE  CardInv'
    BY <1>5, ReadCardStep, AcquireLockStep, RereadStep, FetchRowStep, SetCardStep,
       ReleaseLockStep, FetchFailsStep, CardsCrashStep DEF Cards!GetStep
<1>6. CASE Cards!LockExpires \/ Cards!CardExpires \/ Cards!RedisFails \/ Cards!RedisReturns
    BY <1>6, LockExpiresStep, CardExpiresStep, RedisStep
<1> QED BY <1>1, <1>2, <1>3, <1>4, <1>5, <1>6 DEF Cards!Next

(* For any readers, workers, polls, attempts and changes of the product,   *)
(* whenever keys expire, Redis fails or a process dies: a process under    *)
(* the stampede lock keeps it until it expires, a job gets no more than    *)
(* its attempts, and a refresh that succeeds has seen its change, unless a *)
(* reader held an older row when the card was deleted.                     *)
THEOREM CardsStaySafe == ApiSpec => []CardsAreSafe
<1>1. ApiInit => CardInv
    BY CardsStart DEF ApiInit
<1>2. CardInv /\ [ApiNext]_<<vars, eventVars, cardVars>> => CardInv'
    BY CardsNext DEF ApiNext
<1>3. ASSUME CardInv PROVE CardsAreSafe
    <2>1. card \in 0..MaxVersion \cup {None}
        BY <1>3, CardsAssumed DEF CardInv
    <2>2. Cards!TypeOK
        BY <1>3, <2>1 DEF Cards!TypeOK, CardInv, ProcRecord, JobRecord
    <2>3. Cards!LoadersHoldLock
        BY <1>3 DEF Cards!LoadersHoldLock, CardInv
    <2>4. Cards!RefreshSeesItsChange
        BY <1>3 DEF Cards!RefreshSeesItsChange, CardInv, JobOK
    <2> QED BY <2>2, <2>3, <2>4 DEF CardsAreSafe, Cards!CardsAreSafe
<1> QED BY <1>1, <1>2, <1>3, PTL DEF ApiSpec
==============================================================================
