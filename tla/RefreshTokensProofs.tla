------------------------ MODULE RefreshTokensProofs ------------------------
EXTENDS RefreshTokens, SequenceTheorems, FiniteSetTheorems, TLAPS

(***************************************************************************)
(* The invariant                                                           *)
(*                                                                         *)
(* TableOK and RequestsOK are types and what a request remembers.  Locks   *)
(* says that a row has one writer, the cleanup included.  Rotation and     *)
(* Alarms explain a used row: it has a successor, and its token was        *)
(* presented; whoever presents it again has repeated it.  Closing follows  *)
(* the revocation of a family: from the snapshot of the UPDATE on there is *)
(* a revoked row, or one that will be, or the whole family has expired,    *)
(* and only a refresh that outlives its token can wake an expired family.  *)
(***************************************************************************)
RowRecord == [family : Nat, used : BOOLEAN, revoked : BOOLEAN, expires : Nat]
CleanerType == [pc : {"idle", "delete"}, now : Nat, todo : SUBSET Nat, wrote : SUBSET Nat]

TableOK ==
    /\ clock \in Nat /\ clock <= MaxTime
    /\ issued \in Seq([family : Nat, parent : Nat]) /\ Len(issued) <= MaxTokens
    /\ \A t \in Tokens : issued[t].family \in Tokens /\ issued[t].parent \in Tokens \cup {0}
    /\ Stored \subseteq Tokens
    /\ rows \in [Stored -> RowRecord]
    /\ \A t \in Stored : /\ rows[t].family = issued[t].family
                         /\ rows[t].expires <= MaxTime + REFRESH_TOKEN_TTL
    /\ held \subseteq Tokens /\ presented \subseteq held /\ repeated \subseteq Tokens

Presents(r) == req[r].pc \in {"lock", "used", "lookup"}

RequestOK(r) ==
    /\ Presents(r) => req[r].token \in presented /\ req[r].family = issued[req[r].token].family
    /\ req[r].pc = "sign" => req[r].token \in Tokens
    /\ req[r].pc \in {"revoke", "mark"} => req[r].family \in repeated
    /\ req[r].pc = "used" =>
        /\ req[r].wrote = {req[r].token}
        /\ req[r].token \in Stored /\ ~rows[req[r].token].used
    /\ req[r].pc = "mark" => \A x \in req[r].wrote : rows[x].family = req[r].family
    /\ req[r].pc \notin {"used", "mark"} => req[r].wrote = {}

RequestsOK == req \in [Requests -> RequestType] /\ \A r \in Requests : RequestOK(r)

Locks ==
    /\ cleaner \in CleanerType
    /\ cleaner.todo \subseteq Stored /\ cleaner.wrote \subseteq Stored
    /\ \A r \in Requests : req[r].wrote \subseteq Stored /\ req[r].wrote \cap cleaner.wrote = {}
    /\ \A r, q \in Requests : r # q => req[r].wrote \cap req[q].wrote = {}

Rotation ==
    /\ \A t, u \in Tokens : issued[t].parent = issued[u].parent /\ issued[t].parent # 0 => t = u
    /\ \A u \in Tokens : issued[u].parent \in Stored => rows[issued[u].parent].used

Alarms ==
    /\ \A t \in Stored : rows[t].used => t \in presented
    /\ \A r, q \in Requests :
        r # q /\ Presents(r) /\ Presents(q) /\ req[r].token = req[q].token => req[r].family \in repeated
    /\ \A r \in Requests :
        Presents(r) /\ req[r].token \in Stored /\ rows[req[r].token].used => req[r].family \in repeated
    /\ closed \subseteq repeated

Expired(f) == \A y \in Family(f) : rows[y].expires < clock
Covered(f) == (\E x \in Family(f) : rows[x].revoked) \/ Expired(f)

Marking(r) ==
    \/ Covered(req[r].family)
    \/ req[r].wrote # {}
    \/ \E x \in req[r].todo : x \in RevokeTargets(r)

Closing ==
    /\ \A x \in cleaner.todo \cup cleaner.wrote :
        rows[x].family \notin straddled => Expired(rows[x].family)
    /\ \A f \in closed \ straddled : Covered(f)
    /\ \A r \in Requests : req[r].pc = "mark" /\ req[r].family \notin straddled => Marking(r)
    /\ \A t \in Tokens \ Stored : issued[t].family \notin straddled => Expired(issued[t].family)

TokensInv == TableOK /\ RequestsOK /\ Locks /\ Rotation /\ Alarms /\ Closing

LEMMA TokensInit == Init => TokensInv
<1> SUFFICES ASSUME Init PROVE TokensInv
    OBVIOUS
<1>1. Tokens = {} /\ Stored = {} /\ Len(issued) = 0
    BY DEF Init, Tokens, Stored
<1>2. TableOK
    <2>1. issued \in Seq([family : Nat, parent : Nat])
        BY DEF Init
    <2>2. rows \in [Stored -> RowRecord]
        BY <1>1 DEF Init, Stored
    <2> QED BY <1>1, <2>1, <2>2, TokensAssumption DEF Init, TableOK
<1>3. Idle \in RequestType
    BY TokensAssumption DEF Idle, RequestType
<1>4. RequestsOK
    BY <1>3 DEF Init, Idle, RequestsOK, RequestOK, Presents
<1>5. Locks
    BY DEF Init, Idle, Resting, Locks, CleanerType
<1>6. Rotation /\ Alarms /\ Closing
    BY <1>1 DEF Init, Idle, Resting, Rotation, Alarms, Closing, Presents
<1> QED BY <1>2, <1>4, <1>5, <1>6 DEF TokensInv

(***************************************************************************)
(* Steps of a request that change no row                                   *)
(***************************************************************************)

(* What such a step has to establish for the request r that makes it.      *)
LEMMA RequestStep ==
    ASSUME TokensInv, NEW r \in Requests,
           UNCHANGED <<clock, issued, rows, cleaner, closed, straddled>>,
           held \subseteq held', held' \subseteq Tokens,
           presented \subseteq presented', presented' \subseteq held',
           repeated \subseteq repeated', repeated' \subseteq Tokens,
           NEW v \in RequestType, req' = [req EXCEPT ![r] = v], RequestOK(r)',
           \A x \in v.wrote : x \in Stored /\ ~Locked(x, r),
           \A q \in Requests \ {r} :
                v.pc \in {"lock", "used", "lookup"} /\ Presents(q) /\ req[q].token = v.token
                    => v.family \in repeated',
           v.pc \in {"lock", "used", "lookup"} /\ v.token \in Stored /\ rows[v.token].used
                    => v.family \in repeated',
           v.pc = "mark" /\ v.family \notin straddled => Marking(r)'
    PROVE  TokensInv'
<1> USE DEF TokensInv
<1>1. /\ Tokens' = Tokens /\ Stored' = Stored
      /\ \A f : Family(f)' = Family(f) /\ (Expired(f)' <=> Expired(f)) /\ (Covered(f)' <=> Covered(f))
    BY DEF Tokens, Stored, Family, Expired, Covered
<1>2. req'[r] = v /\ \A q \in Requests \ {r} : req'[q] = req[q]
    BY DEF RequestsOK
<1>3. TableOK'
    BY <1>1 DEF TableOK
<1>4. RequestsOK'
    <2>1. ASSUME NEW q \in Requests \ {r} PROVE RequestOK(q)'
        BY <1>1, <1>2 DEF RequestsOK, RequestOK, Presents
    <2> QED BY <2>1 DEF RequestsOK
<1>5. Locks'
    <2>1. \A q \in Requests \ {r} : v.wrote \cap req[q].wrote = {} /\ v.wrote \cap cleaner.wrote = {}
        BY DEF Locked
    <2>2. v.wrote \subseteq Stored /\ v.wrote \cap cleaner.wrote = {}
        BY DEF Locked
    <2> QED BY <1>1, <1>2, <2>1, <2>2 DEF Locks
<1>6. Rotation'
    BY <1>1 DEF Rotation
<1>7. Alarms'
    <2>1. \A t \in Stored' : rows'[t].used => t \in presented'
        BY <1>1 DEF Alarms
    <2>2. ASSUME NEW p \in Requests, NEW q \in Requests, p # q, Presents(p)', Presents(q)',
                 req'[p].token = req'[q].token
          PROVE  req'[p].family \in repeated'
        <3>1. req'[p].family = req'[q].family
            BY <1>4, <2>2 DEF RequestsOK, RequestOK
        <3>2. CASE p = r
            BY <1>2, <2>2, <3>2 DEF Presents
        <3>3. CASE q = r
            BY <1>2, <2>2, <3>1, <3>3 DEF Presents
        <3>4. CASE p # r /\ q # r
            BY <1>2, <2>2, <3>4 DEF Presents, Alarms
        <3> QED BY <3>2, <3>3, <3>4
    <2>3. ASSUME NEW q \in Requests, Presents(q)', req'[q].token \in Stored', rows'[req'[q].token].used
          PROVE  req'[q].family \in repeated'
        <3>1. CASE q = r
            BY <1>1, <1>2, <2>3, <3>1 DEF Presents
        <3>2. CASE q # r
            BY <1>1, <1>2, <2>3, <3>2 DEF Presents, Alarms
        <3> QED BY <3>1, <3>2
    <2>4. closed' \subseteq repeated'
        BY DEF Alarms
    <2> QED BY <2>1, <2>2, <2>3, <2>4 DEF Alarms
<1>8. Closing'
    <2>1. ASSUME NEW q \in Requests, req'[q].pc = "mark", req'[q].family \notin straddled'
          PROVE  Marking(q)'
        <3>1. CASE q = r
            BY <1>2, <2>1, <3>1
        <3>2. CASE q # r
            BY <1>1, <1>2, <2>1, <3>2 DEF Closing, Marking, RevokeTargets
        <3> QED BY <3>1, <3>2
    <2> QED BY <1>1, <2>1 DEF Closing
<1> QED BY <1>3, <1>4, <1>5, <1>6, <1>7, <1>8

(* Types of the values a request takes.                                    *)
LEMMA RequestValues ==
    ASSUME TokensInv
    PROVE  /\ Idle \in RequestType /\ Idle.pc = "idle" /\ Idle.wrote = {}
           /\ \A t \in Tokens :
                /\ Asking(t) \in RequestType
                /\ Asking(t).token = t /\ Asking(t).family = issued[t].family /\ Asking(t).wrote = {}
           /\ \A r \in Requests : req[r] \in RequestType
           /\ Tokens \subseteq 1 .. MaxTokens
<1>1. Idle \in RequestType /\ Idle.pc = "idle" /\ Idle.wrote = {}
    BY TokensAssumption DEF Idle, RequestType
<1>2. Tokens \subseteq 1 .. MaxTokens /\ \A t \in Tokens : issued[t].family \in Tokens
    BY TokensAssumption DEF TokensInv, TableOK, Tokens
<1>3. clock \in 0 .. MaxTime
    BY TokensAssumption DEF TokensInv, TableOK
<1>4. ASSUME NEW t \in Tokens
      PROVE  /\ Asking(t) \in RequestType
             /\ Asking(t).token = t /\ Asking(t).family = issued[t].family /\ Asking(t).wrote = {}
    <2>0. t \in 1 .. MaxTokens /\ issued[t].family \in 1 .. MaxTokens /\ MaxTokens \in Nat
        BY <1>2, TokensAssumption, Zenon
    <2>1. t \in 0 .. MaxTokens /\ issued[t].family \in 0 .. MaxTokens
        BY <2>0
    <2> QED BY <1>3, <2>1 DEF Asking, Idle, RequestType
<1>5. \A r \in Requests : req[r] \in RequestType
    BY DEF TokensInv, RequestsOK
<1> QED BY <1>1, <1>2, <1>4, <1>5

LEMMA TableUnchanged ==
    ASSUME UNCHANGED <<issued, rows>>
    PROVE  Tokens' = Tokens /\ Stored' = Stored /\ \A f : Family(f)' = Family(f)
    BY DEF Tokens, Stored, Family

LEMMA EndsIdle ==
    ASSUME TokensInv, NEW r \in Requests, Finish(r),
           UNCHANGED <<clock, issued, rows, cleaner, ghostVars>>,
           held \subseteq held', held' \subseteq Tokens
    PROVE  TokensInv'
<1>1. Idle \in RequestType /\ Idle.pc = "idle" /\ Idle.wrote = {}
    BY RequestValues
<1>2. req'[r] = Idle
    BY DEF Finish, TokensInv, RequestsOK
<1>3. RequestOK(r)'
    BY <1>1, <1>2 DEF RequestOK, Presents
<1>4. presented \subseteq held' /\ repeated \subseteq Tokens
    BY DEF TokensInv, TableOK
<1> QED BY <1>1, <1>3, <1>4, RequestStep DEF Finish, ghostVars

LEMMA SignStep ==
    ASSUME TokensInv, NEW r \in Requests, Sign(r)
    PROVE  TokensInv'
<1>1. req[r].token \in Tokens /\ held \subseteq Tokens
    BY DEF Sign, TokensInv, RequestsOK, RequestOK, TableOK
<1> QED BY <1>1, EndsIdle DEF Sign

LEMMA RefreshStep ==
    ASSUME TokensInv, NEW r \in Requests, NEW t \in Tokens, Refresh(r, t)
    PROVE  TokensInv'
<1> DEFINE f == issued[t].family
<1>1. PICK pc \in {"lock", "lookup"} : req' = [req EXCEPT ![r] = [Asking(t) EXCEPT !.pc = pc]]
    BY DEF Refresh
<1> DEFINE v == [Asking(t) EXCEPT !.pc = pc]
<1>2. /\ v \in RequestType /\ v.pc = pc /\ v.token = t /\ v.family = f /\ v.wrote = {}
    BY RequestValues DEF RequestType
<1> HIDE DEF v
<1>3. /\ t \in held /\ presented' = presented \cup {t}
      /\ t \in presented => repeated' = repeated \cup {f}
      /\ t \notin presented => repeated' = repeated
      /\ UNCHANGED <<clock, issued, rows, cleaner, held, closed, straddled>>
    BY DEF Refresh
<1>4. req'[r] = v /\ f \in Tokens
    BY <1>1 DEF TokensInv, RequestsOK, TableOK, v
<1>5. RequestOK(r)'
    BY <1>2, <1>3, <1>4, TableUnchanged DEF RequestOK, Presents
<1>6. ASSUME NEW q \in Requests \ {r}, Presents(q), req[q].token = t PROVE f \in repeated'
    <2>1. t \in presented
        BY <1>6 DEF TokensInv, RequestsOK, RequestOK
    <2> QED BY <1>3, <2>1
<1>7. ASSUME t \in Stored, rows[t].used PROVE f \in repeated'
    <2>1. t \in presented
        BY <1>7 DEF TokensInv, Alarms
    <2> QED BY <1>3, <2>1
<1>8. held \subseteq Tokens /\ presented' \subseteq held /\ repeated' \subseteq Tokens /\ repeated \subseteq repeated'
    BY <1>3, <1>4 DEF TokensInv, TableOK
<1> QED BY <1>1, <1>2, <1>3, <1>5, <1>6, <1>7, <1>8, RequestStep DEF v

LEMMA SetUsedStep ==
    ASSUME TokensInv, NEW r \in Requests, SetUsed(r)
    PROVE  TokensInv'
<1> DEFINE t == req[r].token
<1>1. /\ req[r].pc = "lock" /\ ~Locked(t, r) /\ req[r] \in RequestType /\ req \in [Requests -> RequestType]
      /\ UNCHANGED <<clock, issued, rows, cleaner, access, held, presented, repeated, closed, straddled>>
    BY DEF SetUsed, ghostVars, TokensInv, RequestsOK
<1>2. /\ t \in presented /\ req[r].family = issued[t].family /\ t \in 1 .. MaxTokens
      /\ held \subseteq Tokens /\ presented \subseteq held /\ repeated \subseteq Tokens
      /\ req[r].wrote = {}
    BY <1>1, RequestValues DEF TokensInv, TableOK, RequestsOK, RequestOK, Presents
<1>3. /\ \A q \in Requests \ {r} : Presents(q) /\ req[q].token = t => req[r].family \in repeated
      /\ t \in Stored /\ rows[t].used => req[r].family \in repeated
    BY <1>1 DEF TokensInv, Alarms, Presents
<1>4. CASE Fresh(t, req[r].now)
    <2> DEFINE v == [req[r] EXCEPT !.pc = "used", !.wrote = {t}]
    <2>1. req' = [req EXCEPT ![r] = v]
        BY <1>4 DEF SetUsed
    <2>2. v \in RequestType /\ v.pc = "used" /\ v.token = t /\ v.family = req[r].family /\ v.wrote = {t}
        BY <1>1, <1>2 DEF RequestType
    <2> HIDE DEF v
    <2>3. req'[r] = v
        BY <1>1, <2>1
    <2>4. t \in Stored /\ ~rows[t].used
        BY <1>4 DEF Fresh
    <2>5. RequestOK(r)'
        BY <1>1, <1>2, <2>2, <2>3, <2>4, TableUnchanged DEF RequestOK, Presents
    <2> QED BY <1>1, <1>2, <1>3, <2>1, <2>2, <2>4, <2>5, RequestStep
<1>5. CASE ~Fresh(t, req[r].now)
    <2> DEFINE v == [req[r] EXCEPT !.pc = "lookup"]
    <2>1. req' = [req EXCEPT ![r] = v]
        BY <1>5 DEF SetUsed
    <2>2. v \in RequestType /\ v.pc = "lookup" /\ v.token = t /\ v.family = req[r].family /\ v.wrote = {}
        BY <1>1, <1>2 DEF RequestType
    <2> HIDE DEF v
    <2>3. req'[r] = v
        BY <1>1, <2>1
    <2>5. RequestOK(r)'
        BY <1>1, <1>2, <2>2, <2>3, TableUnchanged DEF RequestOK, Presents
    <2> QED BY <1>1, <1>2, <1>3, <2>1, <2>2, <2>5, RequestStep
<1> QED BY <1>4, <1>5

(* A spent token that comes back has been presented twice.                 *)
LEMMA LookupStep ==
    ASSUME TokensInv, NEW r \in Requests, Lookup(r)
    PROVE  TokensInv'
<1>1. /\ req[r].pc = "lookup" /\ req[r] \in RequestType /\ req \in [Requests -> RequestType]
      /\ UNCHANGED <<clock, issued, rows, cleaner, access, held, ghostVars>>
    BY DEF Lookup, TokensInv, RequestsOK
<1>2. /\ held \subseteq Tokens /\ presented \subseteq held /\ repeated \subseteq Tokens
      /\ req[r].wrote = {}
    BY <1>1 DEF TokensInv, TableOK, RequestsOK, RequestOK
<1>3. CASE IsReuse(req[r].token)
    <2> DEFINE v == [req[r] EXCEPT !.pc = "revoke", !.token = 0]
    <2>1. req' = [req EXCEPT ![r] = v]
        BY <1>3 DEF Lookup
    <2>2. v \in RequestType /\ v.pc = "revoke" /\ v.family = req[r].family /\ v.wrote = {}
        <3>1. 0 \in 0 .. MaxTokens
            BY TokensAssumption
        <3> QED BY <1>1, <1>2, <3>1 DEF RequestType
    <2> HIDE DEF v
    <2>3. req'[r] = v
        BY <1>1, <2>1
    <2>4. req[r].family \in repeated
        BY <1>1, <1>3 DEF IsReuse, TokensInv, Alarms, Presents
    <2>5. RequestOK(r)'
        BY <1>1, <2>2, <2>3, <2>4 DEF RequestOK, Presents, ghostVars
    <2> QED BY <1>1, <1>2, <2>1, <2>2, <2>5, RequestStep DEF ghostVars
<1>4. CASE ~IsReuse(req[r].token)
    BY <1>1, <1>2, <1>4, EndsIdle DEF Lookup, Finish
<1> QED BY <1>3, <1>4

LEMMA LogoutStep ==
    ASSUME TokensInv, NEW r \in Requests, NEW f \in Tokens, Logout(r, f)
    PROVE  TokensInv'
<1> DEFINE v == [Idle EXCEPT !.pc = "revoke", !.family = f, !.now = clock]
<1>1. /\ req' = [req EXCEPT ![r] = v] /\ repeated' = repeated \cup {f} /\ req \in [Requests -> RequestType]
      /\ UNCHANGED <<clock, issued, rows, cleaner, held, presented, closed, straddled>>
    BY DEF Logout, TokensInv, RequestsOK
<1>2. f \in 0 .. MaxTokens /\ clock \in 0 .. MaxTime /\ 0 \in 0 .. MaxTokens
    BY RequestValues, TokensAssumption DEF TokensInv, TableOK
<1>3. v \in RequestType /\ v.pc = "revoke" /\ v.family = f /\ v.wrote = {}
    BY <1>2 DEF Idle, RequestType
<1> HIDE DEF v
<1>4. req'[r] = v
    BY <1>1
<1>5. RequestOK(r)'
    BY <1>1, <1>3, <1>4 DEF RequestOK, Presents
<1>6. held \subseteq Tokens /\ presented \subseteq held /\ repeated' \subseteq Tokens
    BY <1>1 DEF TokensInv, TableOK
<1> QED BY <1>1, <1>3, <1>5, <1>6, RequestStep

(* The snapshot of the revocation: a revoked row, a row to revoke, or no   *)
(* row at all.                                                             *)
LEMMA BeginRevokeStep ==
    ASSUME TokensInv, NEW r \in Requests, BeginRevoke(r)
    PROVE  TokensInv'
<1> DEFINE v == [req[r] EXCEPT !.pc = "mark", !.todo = RevokeTargets(r)]
<1>1. /\ req[r].pc = "revoke" /\ req[r] \in RequestType /\ req \in [Requests -> RequestType]
      /\ req' = [req EXCEPT ![r] = v]
      /\ UNCHANGED <<clock, issued, rows, cleaner, held, presented, repeated, closed, straddled>>
    BY DEF BeginRevoke, TokensInv, RequestsOK, ghostVars
<1>2. RevokeTargets(r) \in SUBSET (1 .. MaxTokens)
    <2>1. RevokeTargets(r) \subseteq Tokens
        BY DEF RevokeTargets, Family, TokensInv, TableOK
    <2> QED BY <2>1, RequestValues
<1>3. /\ held \subseteq Tokens /\ presented \subseteq held /\ repeated \subseteq Tokens
      /\ req[r].wrote = {} /\ req[r].family \in repeated
    BY <1>1 DEF TokensInv, TableOK, RequestsOK, RequestOK
<1>4. /\ v \in RequestType /\ v.pc = "mark" /\ v.family = req[r].family /\ v.wrote = {}
      /\ v.todo = RevokeTargets(r)
    BY <1>1, <1>2, <1>3 DEF RequestType
<1> HIDE DEF v
<1>5. req'[r] = v
    BY <1>1
<1>6. RequestOK(r)'
    BY <1>1, <1>3, <1>4, <1>5 DEF RequestOK, Presents
<1>7. Marking(r)'
    <2>1. RevokeTargets(r)' = RevokeTargets(r) /\ \A f : Covered(f)' <=> Covered(f)
        BY <1>1, <1>4, <1>5, TableUnchanged DEF RevokeTargets, Covered, Expired
    <2>2. CASE RevokeTargets(r) = {}
        BY <1>4, <1>5, <2>1, <2>2 DEF Marking, RevokeTargets, Covered, Expired
    <2>3. CASE RevokeTargets(r) # {}
        BY <1>4, <1>5, <2>1, <2>3 DEF Marking
    <2> QED BY <2>2, <2>3
<1> QED BY <1>1, <1>3, <1>4, <1>6, <1>7, RequestStep

LEMMA SetRevokedStep ==
    ASSUME TokensInv, NEW r \in Requests, NEW x \in Tokens, SetRevoked(r, x)
    PROVE  TokensInv'
<1> DEFINE more == IF x \in RevokeTargets(r) THEN {x} ELSE {}
           v == [req[r] EXCEPT !.todo = @ \ {x}, !.wrote = @ \cup more]
<1>1. /\ req[r].pc = "mark" /\ ~Locked(x, r) /\ req[r] \in RequestType /\ req \in [Requests -> RequestType]
      /\ req' = [req EXCEPT ![r] = v]
      /\ UNCHANGED <<clock, issued, rows, cleaner, held, presented, repeated, closed, straddled>>
    BY DEF SetRevoked, TokensInv, RequestsOK, ghostVars
<1>2. req[r].todo \ {x} \in SUBSET (1 .. MaxTokens) /\ req[r].wrote \cup more \in SUBSET (1 .. MaxTokens)
    BY <1>1, RequestValues DEF RequestType
<1>3. /\ held \subseteq Tokens /\ presented \subseteq held /\ repeated \subseteq Tokens
      /\ req[r].family \in repeated
      /\ \A y \in req[r].wrote : y \in Stored /\ rows[y].family = req[r].family /\ ~Locked(y, r)
    BY <1>1 DEF TokensInv, TableOK, RequestsOK, RequestOK, Locks, Locked
<1>4. \A y \in more : y = x /\ y \in Stored /\ rows[y].family = req[r].family /\ ~rows[y].revoked
    BY DEF RevokeTargets, Family
<1>4a. x \in RevokeTargets(r) => x \in more
    OBVIOUS
<1> HIDE DEF more
<1>5. /\ v \in RequestType /\ v.pc = "mark" /\ v.family = req[r].family
      /\ v.wrote = req[r].wrote \cup more /\ v.todo = req[r].todo \ {x}
    BY <1>1, <1>2 DEF RequestType
<1> HIDE DEF v
<1>6. req'[r] = v
    BY <1>1
<1>7. RequestOK(r)'
    BY <1>1, <1>3, <1>4, <1>5, <1>6 DEF RequestOK, Presents
<1>8. ASSUME v.family \notin straddled PROVE Marking(r)'
    <2>1. RevokeTargets(r)' = RevokeTargets(r) /\ \A f : Covered(f)' <=> Covered(f)
        BY <1>1, <1>5, <1>6, TableUnchanged DEF RevokeTargets, Covered, Expired
    <2>2. Marking(r)
        BY <1>1, <1>5, <1>8 DEF TokensInv, Closing
    <2> QED BY <1>4a, <1>5, <1>6, <2>1, <2>2 DEF Marking
<1> QED BY <1>1, <1>3, <1>4, <1>5, <1>7, <1>8, RequestStep

(***************************************************************************)
(* Steps of the cleanup and of the clock that change no row                *)
(***************************************************************************)
LEMMA CleanerStep ==
    ASSUME TokensInv, UNCHANGED <<clock, issued, rows, req, held, ghostVars>>,
           cleaner' \in CleanerType,
           cleaner'.todo \subseteq Stored, cleaner'.wrote \subseteq Stored,
           \A x \in cleaner'.wrote \ cleaner.wrote : ~LockedForCleanup(x),
           \A x \in (cleaner'.todo \cup cleaner'.wrote) \ (cleaner.todo \cup cleaner.wrote) :
                Expired(rows[x].family)
    PROVE  TokensInv'
<1> USE DEF TokensInv, ghostVars
<1>1. /\ Tokens' = Tokens /\ Stored' = Stored
      /\ \A f : Family(f)' = Family(f) /\ (Expired(f)' <=> Expired(f)) /\ (Covered(f)' <=> Covered(f))
    BY DEF Tokens, Stored, Family, Expired, Covered
<1>2. TableOK' /\ Rotation' /\ Alarms'
    BY <1>1 DEF TableOK, Rotation, Alarms, Presents
<1>3. RequestsOK'
    BY <1>1 DEF RequestsOK, RequestOK, Presents
<1>4. Locks'
    BY <1>1 DEF Locks, LockedForCleanup
<1>5. Closing'
    <2>1. \A r \in Requests : Marking(r) => Marking(r)'
        BY <1>1 DEF Marking, RevokeTargets
    <2> QED BY <1>1, <2>1 DEF Closing
<1> QED BY <1>2, <1>3, <1>4, <1>5

LEMMA CleanupSteps ==
    ASSUME TokensInv, BeginCleanup \/ FailCleanup \/ \E x \in Stored : DeleteRow(x)
    PROVE  TokensInv'
<1>s. Stored \subseteq Nat /\ clock \in Nat /\ cleaner \in CleanerType
      /\ cleaner.todo \subseteq Stored /\ cleaner.wrote \subseteq Stored
    BY DEF TokensInv, TableOK, Tokens, Locks
<1>1. CASE BeginCleanup
    <2>1. PICK batch \in SUBSET ExpiredFamilies :
            cleaner' = [pc |-> "delete", now |-> clock, todo |-> batch, wrote |-> {}]
        BY <1>1 DEF BeginCleanup
    <2>2. batch \subseteq Stored /\ \A x \in batch : Expired(rows[x].family)
        BY DEF ExpiredFamilies, Expired
    <2>3. cleaner' \in CleanerType /\ cleaner'.todo = batch /\ cleaner'.wrote = {}
        BY <1>s, <2>1, <2>2 DEF CleanerType
    <2>4. UNCHANGED <<clock, issued, rows, req, held, ghostVars>>
        BY <1>1 DEF BeginCleanup
    <2> QED BY <2>2, <2>3, <2>4, CleanerStep
<1>2. CASE FailCleanup
    <2>1. cleaner' \in CleanerType /\ cleaner'.todo = {} /\ cleaner'.wrote = {}
        BY <1>2 DEF FailCleanup, Resting, CleanerType
    <2> QED BY <1>2, <2>1, CleanerStep DEF FailCleanup
<1>3. ASSUME NEW x \in Stored, DeleteRow(x) PROVE TokensInv'
    <2>1. /\ cleaner' \in CleanerType
          /\ cleaner'.todo = cleaner.todo \ {x} /\ cleaner'.wrote = cleaner.wrote \cup {x}
        <3>1. cleaner.todo \ {x} \in SUBSET Nat /\ cleaner.wrote \cup {x} \in SUBSET Nat
            BY <1>s
        <3> QED BY <1>s, <1>3, <3>1 DEF DeleteRow, CleanerType
    <2>2. x \in cleaner.todo /\ ~LockedForCleanup(x) /\ UNCHANGED <<clock, issued, rows, req, held, ghostVars>>
        BY <1>3 DEF DeleteRow
    <2> QED BY <1>s, <2>1, <2>2, CleanerStep
<1> QED BY <1>1, <1>2, <1>3

LEMMA TickStep ==
    ASSUME TokensInv, Tick
    PROVE  TokensInv'
<1> USE DEF TokensInv
<1>1. /\ clock' = clock + 1 /\ clock < MaxTime
      /\ UNCHANGED <<issued, rows, req, cleaner, held, presented, repeated, closed, straddled>>
    BY DEF Tick, ghostVars
<1>2. /\ Tokens' = Tokens /\ Stored' = Stored /\ \A f : Family(f)' = Family(f)
    BY <1>1, TableUnchanged
<1>3. clock \in Nat /\ MaxTime \in Nat /\ \A t \in Stored : rows[t].expires \in Nat
    BY TokensAssumption DEF TableOK, RowRecord
<1>4. \A f : (Expired(f) => Expired(f)') /\ (Covered(f) => Covered(f)')
    BY <1>1, <1>2, <1>3 DEF Expired, Covered, Family
<1>5. TableOK' /\ Rotation' /\ Alarms'
    BY <1>1, <1>2, <1>3 DEF TableOK, Rotation, Alarms, Presents
<1>6. RequestsOK' /\ Locks'
    BY <1>1, <1>2 DEF RequestsOK, RequestOK, Presents, Locks
<1>7. Closing'
    <2>1. \A r \in Requests : Marking(r) => Marking(r)'
        BY <1>1, <1>2, <1>4 DEF Marking, RevokeTargets
    <2> QED BY <1>1, <1>2, <1>4, <2>1 DEF Closing
<1> QED BY <1>5, <1>6, <1>7

(***************************************************************************)
(* Commits                                                                 *)
(***************************************************************************)
LEMMA RowUpdates ==
    ASSUME NEW x \in RowRecord
    PROVE  /\ [x EXCEPT !.used = TRUE] \in RowRecord /\ [x EXCEPT !.revoked = TRUE] \in RowRecord
           /\ [x EXCEPT !.used = TRUE].family = x.family /\ [x EXCEPT !.revoked = TRUE].family = x.family
           /\ [x EXCEPT !.used = TRUE].expires = x.expires /\ [x EXCEPT !.revoked = TRUE].expires = x.expires
           /\ [x EXCEPT !.used = TRUE].used = TRUE /\ [x EXCEPT !.revoked = TRUE].revoked = TRUE
           /\ [x EXCEPT !.used = TRUE].revoked = x.revoked /\ [x EXCEPT !.revoked = TRUE].used = x.used
    BY DEF RowRecord

(* The effect of an INSERT on the tokens issued, the table and the         *)
(* families of late refreshes, apart from the SQL that makes it.           *)
Issues(n, f, p) ==
    /\ n \notin Tokens /\ n # 0 /\ Tokens' = Tokens \cup {n}
    /\ issued' \in Seq([family : Nat, parent : Nat]) /\ Len(issued') <= MaxTokens
    /\ issued'[n].family = f /\ issued'[n].parent = p
    /\ \A t \in Tokens : issued'[t] = issued[t]

Inserts(n, f, p) ==
    /\ Stored' = Stored \cup {n} /\ rows' \in [Stored \cup {n} -> RowRecord]
    /\ rows'[n].family = f /\ ~rows'[n].used /\ rows'[n].expires = clock + REFRESH_TOKEN_TTL
    /\ \A x \in Stored : /\ rows'[x].family = rows[x].family
                         /\ rows'[x].expires = rows[x].expires
                         /\ rows'[x].revoked <=> rows[x].revoked
                         /\ rows'[x].used <=> rows[x].used \/ x = p

FirstOf(n, f, p) == f = n /\ p = 0 /\ straddled' = straddled

Succeeds(r, f, p) ==
    /\ req[r].pc = "used" /\ p = req[r].token /\ f = req[r].family
    /\ straddled \subseteq straddled' /\ (rows[p].expires < clock => f \in straddled')

(* A token that is issued is new.                                          *)
LEMMA NewToken ==
    ASSUME TableOK, NEW f \in Nat, NEW p \in Nat, Len(issued) + 1 <= MaxTokens,
           issued' = Append(issued, [family |-> f, parent |-> p])
    PROVE  Issues(Len(issued) + 1, f, p)
<1>1. [family |-> f, parent |-> p] \in [family : Nat, parent : Nat]
    OBVIOUS
<1>2. issued \in Seq([family : Nat, parent : Nat]) /\ Len(issued) \in Nat
    BY DEF TableOK
<1>3. PICK e : e = [family |-> f, parent |-> p]
    OBVIOUS
<1>4. e.family = f /\ e.parent = p /\ e \in [family : Nat, parent : Nat]
    BY <1>1, <1>3
<1>5. /\ issued' \in Seq([family : Nat, parent : Nat]) /\ Len(issued') = Len(issued) + 1
      /\ issued'[Len(issued) + 1] = e /\ \A t \in 1 .. Len(issued) : issued'[t] = issued[t]
    BY <1>2, <1>3, <1>4
<1> QED BY <1>2, <1>4, <1>5 DEF Tokens, Issues

(* The INSERT of a token, first of its family or successor of the token p. *)
LEMMA InsertStep ==
    ASSUME TokensInv, NEW r \in Requests, NEW f \in Nat, NEW p \in Nat, NEW n \in Nat,
           Issues(n, f, p), Inserts(n, f, p), FirstOf(n, f, p) \/ Succeeds(r, f, p),
           NEW v \in RequestType, req' = [req EXCEPT ![r] = v],
           v.pc = "sign", v.token = n, v.wrote = {},
           UNCHANGED <<clock, cleaner, held, presented, repeated, closed>>
    PROVE  TokensInv'
<1> USE DEF TokensInv
<1>1. /\ n \notin Stored /\ n \notin Tokens /\ Tokens' = Tokens \cup {n} /\ n # 0
      /\ issued'[n].family = f /\ issued'[n].parent = p
      /\ \A t \in Tokens : issued'[t] = issued[t]
      /\ Stored \subseteq Tokens /\ presented \subseteq Tokens /\ repeated \subseteq Tokens
    BY DEF TableOK, Issues
<1>0. 0 \notin Tokens
    BY DEF Tokens, TableOK
<1>r. /\ Stored' = Stored \cup {n}
      /\ rows'[n].family = f /\ ~rows'[n].used
      /\ \A x \in Stored : /\ rows'[x].family = rows[x].family
                           /\ rows'[x].expires = rows[x].expires
                           /\ rows'[x].revoked <=> rows[x].revoked
                           /\ rows'[x].used <=> rows[x].used \/ x = p
    BY DEF Inserts
<1>2. /\ req'[r] = v /\ \A q \in Requests \ {r} : req'[q] = req[q]
      /\ ~Presents(r)' /\ \A q \in Requests \ {r} : Presents(q)' <=> Presents(q)
    BY DEF RequestsOK, Presents
<1>3. \/ f = n /\ p = 0 /\ straddled' = straddled
      \/ /\ p \in Stored /\ p \in presented /\ ~rows[p].used /\ p \in req[r].wrote
         /\ f = issued[p].family /\ f \in Tokens /\ f = rows[p].family
         /\ Presents(r) /\ p = req[r].token
         /\ straddled \subseteq straddled' /\ (rows[p].expires < clock => f \in straddled')
    <2>1. CASE FirstOf(n, f, p)
        BY <2>1 DEF FirstOf
    <2>2. CASE Succeeds(r, f, p)
        <3>1. RequestOK(r) /\ Presents(r) /\ p = req[r].token /\ f = req[r].family /\ req[r].pc = "used"
            BY <2>2 DEF RequestsOK, Succeeds, Presents
        <3>2. p \in Stored /\ p \in presented /\ ~rows[p].used /\ p \in req[r].wrote /\ f = issued[p].family
            BY <3>1 DEF RequestOK
        <3>3. f \in Tokens /\ f = rows[p].family
            BY <3>2 DEF TableOK
        <3> QED BY <2>2, <3>1, <3>2, <3>3 DEF Succeeds
    <2> QED BY <2>1, <2>2
<1>4. TableOK'
    <2>1. clock + REFRESH_TOKEN_TTL <= MaxTime + REFRESH_TOKEN_TTL
          /\ rows'[n].expires = clock + REFRESH_TOKEN_TTL
        BY TokensAssumption DEF TableOK, Inserts
    <2>2. \A t \in Tokens' : issued'[t].family \in Tokens' /\ issued'[t].parent \in Tokens' \cup {0}
        BY <1>1, <1>3 DEF TableOK
    <2>3. \A t \in Stored' : /\ rows'[t].family = issued'[t].family
                             /\ rows'[t].expires <= MaxTime + REFRESH_TOKEN_TTL
        BY <1>1, <1>r, <2>1 DEF TableOK
    <2>4. /\ issued' \in Seq([family : Nat, parent : Nat]) /\ Len(issued') <= MaxTokens
          /\ rows' \in [Stored' -> RowRecord]
        BY DEF Issues, Inserts
    <2> QED BY <1>1, <1>r, <2>2, <2>3, <2>4 DEF TableOK
<1>5. RequestsOK'
    <2>1. ASSUME NEW q \in Requests \ {r} PROVE RequestOK(q)'
        <3>1. req[q].pc = "used" => req[q].token # p
            BY <1>0, <1>1, <1>3 DEF RequestsOK, RequestOK, Locks
        <3>2. RequestOK(q) /\ req[q].wrote \subseteq Stored
            BY DEF RequestsOK, Locks
        <3>3. Presents(q)' => req'[q].token \in presented' /\ req'[q].family = issued'[req'[q].token].family
            BY <1>1, <1>2, <3>2 DEF RequestOK
        <3>4. req'[q].pc = "used" =>
                /\ req'[q].wrote = {req'[q].token}
                /\ req'[q].token \in Stored' /\ ~rows'[req'[q].token].used
            BY <1>r, <1>2, <3>1, <3>2 DEF RequestOK
        <3>5. req'[q].pc = "mark" => \A x \in req'[q].wrote : rows'[x].family = req'[q].family
            BY <1>r, <1>2, <3>2 DEF RequestOK
        <3> QED BY <1>1, <1>2, <3>2, <3>3, <3>4, <3>5 DEF RequestOK
    <2>2. RequestOK(r)'
        BY <1>1, <1>2 DEF RequestOK
    <2>3. req' \in [Requests -> RequestType]
        BY DEF RequestsOK
    <2> QED BY <2>1, <2>2, <2>3 DEF RequestsOK
<1>6. Locks'
    BY <1>r, <1>2 DEF Locks
<1>7. Rotation'
    <2>1. ASSUME NEW u \in Tokens, p # 0 PROVE issued[u].parent # p
        BY <1>3, <2>1 DEF Rotation
    <2>2. ASSUME NEW t \in Tokens', NEW u \in Tokens', issued'[t].parent = issued'[u].parent,
                 issued'[t].parent # 0
          PROVE  t = u
        BY <1>1, <2>1, <2>2 DEF Rotation
    <2>3. ASSUME NEW u \in Tokens', issued'[u].parent \in Stored' PROVE rows'[issued'[u].parent].used
        <3>1. CASE u = n
            BY <1>0, <1>1, <1>r, <1>3, <2>3, <3>1
        <3>2. CASE u # n
            <4>1. u \in Tokens /\ issued[u].parent \in Tokens \cup {0} /\ issued'[u].parent = issued[u].parent
                BY <1>1, <3>2 DEF TableOK
            <4> QED BY <1>0, <1>1, <1>r, <2>3, <4>1 DEF Rotation
        <3> QED BY <3>1, <3>2
    <2> QED BY <2>2, <2>3 DEF Rotation
<1>8. Alarms'
    <2>1. ASSUME NEW t \in Stored', rows'[t].used PROVE t \in presented'
        BY <1>0, <1>1, <1>r, <1>3, <2>1 DEF Alarms
    <2>2. ASSUME NEW q \in Requests, Presents(q)', req'[q].token \in Stored', rows'[req'[q].token].used
          PROVE  req'[q].family \in repeated'
        <3>1. q # r /\ req'[q] = req[q] /\ Presents(q) /\ req[q].token \in Stored
            BY <1>1, <1>r, <1>2, <2>2 DEF RequestsOK, RequestOK
        <3>2. CASE req[q].token = p
            <4>1. Presents(r) /\ req[r].token = p
                BY <1>0, <1>1, <1>3, <3>1, <3>2
            <4> QED BY <3>1, <3>2, <4>1 DEF Alarms
        <3>3. CASE req[q].token # p
            BY <1>r, <2>2, <3>1, <3>3 DEF Alarms
        <3> QED BY <3>2, <3>3
    <2>3. \A a, b \in Requests :
            a # b /\ Presents(a)' /\ Presents(b)' /\ req'[a].token = req'[b].token => req'[a].family \in repeated'
        BY <1>2 DEF Alarms
    <2> QED BY <2>1, <2>2, <2>3 DEF Alarms
<1>9. Closing'
    <2>1. \A g \in Tokens : g # f => Family(g)' = Family(g)
        BY <1>1, <1>r DEF Family
    <2>2. \A g : Family(g) \subseteq Family(g)' /\ Family(g) \subseteq Stored
        BY <1>r DEF Family
    <2>3. ASSUME NEW g \in Tokens, g \notin straddled', Expired(g) PROVE Expired(g)' /\ g # f
        <3>1. g # f
            <4>1. CASE f = n
                BY <1>1, <4>1
            <4>2. CASE p \in Stored /\ f = rows[p].family /\ (rows[p].expires < clock => f \in straddled')
                BY <2>3, <4>2 DEF Expired, Family
            <4> QED BY <1>3, <4>1, <4>2
        <3> QED BY <1>r, <2>1, <2>2, <2>3, <3>1 DEF Expired
    <2>4. ASSUME NEW g \in Tokens, g \notin straddled', Covered(g) PROVE Covered(g)'
        BY <1>r, <2>2, <2>3, <2>4 DEF Covered
    <2>5. straddled \subseteq straddled'
        BY <1>3
    <2>6. ASSUME NEW x \in cleaner'.todo \cup cleaner'.wrote, rows'[x].family \notin straddled'
          PROVE  Expired(rows[x].family)'
        <3>1. x \in Stored /\ rows[x].family \in Tokens
            BY <1>1 DEF Locks, TableOK
        <3> QED BY <1>r, <2>3, <2>5, <2>6, <3>1 DEF Closing
    <2>7. ASSUME NEW g \in closed' \ straddled' PROVE Covered(g)'
        <3>1. g \in Tokens
            BY <1>1 DEF Alarms
        <3> QED BY <2>4, <2>5, <2>7, <3>1 DEF Closing
    <2>8. ASSUME NEW q \in Requests, req'[q].pc = "mark", req'[q].family \notin straddled' PROVE Marking(q)'
        <3>1. q # r /\ req'[q] = req[q] /\ Marking(q) /\ req[q].family \in Tokens
            BY <1>1, <1>2, <2>5, <2>8 DEF Closing, RequestsOK, RequestOK
        <3>2. RevokeTargets(q) \subseteq RevokeTargets(q)'
            BY <1>r, <2>2, <3>1 DEF RevokeTargets
        <3> QED BY <2>4, <2>8, <3>1, <3>2 DEF Marking
    <2>9. ASSUME NEW t \in Tokens' \ Stored', issued'[t].family \notin straddled'
          PROVE  Expired(issued[t].family)'
        <3>1. t \in Tokens \ Stored /\ issued[t].family \in Tokens /\ issued'[t] = issued[t]
            BY <1>1, <1>r DEF TableOK
        <3> QED BY <2>3, <2>5, <2>9, <3>1 DEF Closing
    <2> QED BY <2>6, <2>7, <2>8, <2>9 DEF Closing
<1> QED BY <1>4, <1>5, <1>6, <1>7, <1>8, <1>9

LEMMA RowTyped ==
    ASSUME TokensInv, NEW f \in Nat
    PROVE  /\ Row(f) \in RowRecord /\ Row(f).family = f /\ Row(f).used = FALSE
           /\ Row(f).expires = clock + REFRESH_TOKEN_TTL
<1>1. clock + REFRESH_TOKEN_TTL \in Nat
    BY TokensAssumption DEF TokensInv, TableOK
<1> QED BY <1>1 DEF Row, RowRecord

LEMMA LoginStep ==
    ASSUME TokensInv, NEW r \in Requests, Login(r)
    PROVE  TokensInv'
<1> DEFINE n == Len(issued) + 1
           v == [Idle EXCEPT !.pc = "sign", !.token = n, !.family = n, !.now = clock]
<1>1. /\ n <= MaxTokens /\ issued' = Append(issued, [family |-> n, parent |-> 0])
      /\ rows' = [x \in Stored \cup {n} |-> IF x = n THEN Row(n) ELSE rows[x]]
      /\ req' = [req EXCEPT ![r] = v]
      /\ UNCHANGED <<clock, cleaner, held, presented, repeated, closed, straddled>>
    BY DEF Login, ghostVars
<1>2. n \in Nat /\ n \in 0 .. MaxTokens /\ clock \in 0 .. MaxTime
    BY <1>1, TokensAssumption DEF TokensInv, TableOK
<1>3. v \in RequestType /\ v.pc = "sign" /\ v.token = n /\ v.wrote = {}
    BY <1>2 DEF Idle, RequestType
<1>4. Issues(n, n, 0)
    BY <1>1, <1>2, NewToken DEF TokensInv
<1> HIDE DEF n, v
<1>5. n \notin Stored /\ 0 \notin Stored /\ rows \in [Stored -> RowRecord]
    BY <1>4 DEF Issues, TokensInv, TableOK, Tokens
<1>6. Inserts(n, n, 0)
    <2>1. /\ Row(n) \in RowRecord /\ Row(n).family = n /\ Row(n).used = FALSE
          /\ Row(n).expires = clock + REFRESH_TOKEN_TTL
        BY <1>2, RowTyped
    <2>2. Stored' = Stored \cup {n} /\ rows'[n] = Row(n) /\ \A x \in Stored : rows'[x] = rows[x]
        BY <1>1, <1>5 DEF Stored
    <2>3. rows' \in [Stored \cup {n} -> RowRecord]
        BY <1>1, <1>5, <2>1
    <2> QED BY <1>5, <2>1, <2>2, <2>3 DEF Inserts
<1>7. FirstOf(n, n, 0)
    BY <1>1 DEF FirstOf
<1> QED BY <1>1, <1>2, <1>3, <1>4, <1>6, <1>7, InsertStep

LEMMA CommitRotationStep ==
    ASSUME TokensInv, NEW r \in Requests, CommitRotation(r)
    PROVE  TokensInv'
<1> DEFINE n == Len(issued) + 1
           t == req[r].token
           f == req[r].family
           v == [req[r] EXCEPT !.pc = "sign", !.token = n, !.wrote = {}]
<1>1. /\ req[r].pc = "used" /\ n <= MaxTokens
      /\ issued' = Append(issued, [family |-> f, parent |-> t])
      /\ rows' = [x \in Stored \cup {n} |->
                    IF x = n THEN Row(f) ELSE IF x = t THEN [rows[t] EXCEPT !.used = TRUE] ELSE rows[x]]
      /\ req' = [req EXCEPT ![r] = v]
      /\ straddled' = straddled \cup (IF rows[t].expires < clock THEN {f} ELSE {})
      /\ UNCHANGED <<clock, cleaner, held, presented, repeated, closed>>
    BY DEF CommitRotation
<1>2. req[r] \in RequestType /\ t \in Nat /\ f \in Nat /\ n \in Nat /\ n \in 0 .. MaxTokens
    <2>1. req[r] \in RequestType /\ Len(issued) \in Nat /\ MaxTokens \in Nat
        BY TokensAssumption DEF TokensInv, RequestsOK, TableOK
    <2> QED BY <1>1, <2>1 DEF RequestType
<1>3. v \in RequestType /\ v.pc = "sign" /\ v.token = n /\ v.wrote = {}
    BY <1>2 DEF RequestType
<1>4. Issues(n, f, t)
    BY <1>1, <1>2, NewToken DEF TokensInv
<1>5. t \in Stored
    BY <1>1 DEF TokensInv, RequestsOK, RequestOK
<1> HIDE DEF n, v, t, f
<1>6. n \notin Stored /\ rows \in [Stored -> RowRecord]
    BY <1>4 DEF Issues, TokensInv, TableOK
<1>7. Inserts(n, f, t)
    <2>1. /\ Row(f) \in RowRecord /\ Row(f).family = f /\ Row(f).used = FALSE
          /\ Row(f).expires = clock + REFRESH_TOKEN_TTL
        BY <1>2, RowTyped
    <2>2. PICK spent : spent = [rows[t] EXCEPT !.used = TRUE]
        OBVIOUS
    <2>3. /\ spent \in RowRecord /\ spent.family = rows[t].family /\ spent.expires = rows[t].expires
          /\ spent.used = TRUE /\ spent.revoked = rows[t].revoked
        BY <1>5, <1>6, <2>2, RowUpdates
    <2>4. /\ Stored' = Stored \cup {n} /\ rows'[n] = Row(f) /\ rows'[t] = spent
          /\ \A x \in Stored \ {t} : rows'[x] = rows[x]
        BY <1>1, <1>5, <1>6, <2>2 DEF Stored
    <2>5. rows' \in [Stored \cup {n} -> RowRecord]
        BY <1>1, <1>6, <2>1, <2>2, <2>3
    <2> QED BY <1>5, <2>1, <2>3, <2>4, <2>5 DEF Inserts
<1>8. Succeeds(r, f, t)
    BY <1>1 DEF Succeeds, t, f
<1> QED BY <1>1, <1>2, <1>3, <1>4, <1>7, <1>8, InsertStep

(* Once the revocation has committed, a revoked row or an expired family   *)
(* is what every later refresh of the family meets.                        *)
LEMMA CommitRevocationStep ==
    ASSUME TokensInv, NEW r \in Requests, CommitRevocation(r)
    PROVE  TokensInv'
<1> USE DEF TokensInv
<1>0. PICK f : f = req[r].family
    OBVIOUS
<1>1. /\ req[r].pc = "mark" /\ req[r].todo = {}
      /\ rows' = [x \in Stored |-> IF x \in req[r].wrote
                                   THEN [rows[x] EXCEPT !.revoked = TRUE] ELSE rows[x]]
      /\ closed' = closed \cup {f} /\ req' = [req EXCEPT ![r] = Idle]
      /\ UNCHANGED <<clock, issued, cleaner, held, presented, repeated, straddled>>
    BY <1>0 DEF CommitRevocation, Finish
<1>2. /\ f \in repeated /\ req[r].wrote \subseteq Stored
      /\ \A x \in req[r].wrote : rows[x].family = f
      /\ rows \in [Stored -> RowRecord]
    BY <1>0, <1>1 DEF RequestsOK, RequestOK, Locks, TableOK
<1>3. /\ Tokens' = Tokens /\ Stored' = Stored /\ rows' \in [Stored -> RowRecord]
      /\ \A x \in Stored : /\ rows'[x].family = rows[x].family
                           /\ rows'[x].expires = rows[x].expires
                           /\ rows'[x].used <=> rows[x].used
                           /\ rows'[x].revoked <=> rows[x].revoked \/ x \in req[r].wrote
    <2>1. Tokens' = Tokens /\ Stored' = Stored
        BY <1>1 DEF Tokens, Stored
    <2>2. rows' \in [Stored -> RowRecord]
        BY <1>1, <1>2, RowUpdates
    <2>3. ASSUME NEW x \in Stored
          PROVE  /\ rows'[x].family = rows[x].family
                 /\ rows'[x].expires = rows[x].expires
                 /\ rows'[x].used <=> rows[x].used
                 /\ rows'[x].revoked <=> rows[x].revoked \/ x \in req[r].wrote
        <3>1. CASE x \in req[r].wrote
            <4>1. PICK y : y = [rows[x] EXCEPT !.revoked = TRUE]
                OBVIOUS
            <4>2. /\ y.family = rows[x].family /\ y.expires = rows[x].expires
                  /\ y.used = rows[x].used /\ y.revoked = TRUE
                BY <1>2, <4>1, RowUpdates
            <4> QED BY <1>1, <3>1, <4>1, <4>2
        <3>2. CASE x \notin req[r].wrote
            BY <1>1, <3>2
        <3> QED BY <3>1, <3>2
    <2> QED BY <2>1, <2>2, <2>3
<1>4. /\ Idle \in RequestType /\ Idle.pc = "idle" /\ Idle.wrote = {}
      /\ req'[r] = Idle /\ \A q \in Requests \ {r} : req'[q] = req[q]
      /\ ~Presents(r)' /\ \A q \in Requests \ {r} : Presents(q)' <=> Presents(q)
    BY <1>1, RequestValues DEF RequestsOK, Presents
<1>5. \A g : Family(g)' = Family(g) /\ Family(g) \subseteq Stored
    BY <1>3 DEF Family
<1>6. \A g : (Expired(g)' <=> Expired(g)) /\ (Covered(g) => Covered(g)')
    BY <1>1, <1>3, <1>5 DEF Expired, Covered
<1>7. TableOK'
    BY <1>1, <1>3 DEF TableOK
<1>8. RequestsOK'
    <2>1. ASSUME NEW q \in Requests \ {r} PROVE RequestOK(q)'
        <3>1. RequestOK(q) /\ req[q].wrote \subseteq Stored
            BY DEF RequestsOK, Locks
        <3> QED BY <1>1, <1>3, <1>4, <3>1 DEF RequestOK
    <2>2. RequestOK(r)'
        BY <1>4 DEF RequestOK
    <2> QED BY <1>1, <1>4, <2>1, <2>2 DEF RequestsOK
<1>9. Locks'
    BY <1>1, <1>3, <1>4 DEF Locks
<1>10. Rotation'
    BY <1>1, <1>3 DEF Rotation
<1>11. Alarms'
    BY <1>1, <1>2, <1>3, <1>4 DEF Alarms
<1>12. Closing'
    <2>1. ASSUME f \notin straddled PROVE Covered(f)'
        <3>1. Marking(r)
            BY <1>0, <1>1, <2>1 DEF Closing
        <3>2. CASE Covered(f)
            BY <1>6, <3>2
        <3>3. CASE req[r].wrote # {}
            BY <1>2, <1>3, <1>5, <3>3 DEF Covered, Family
        <3> QED BY <1>0, <1>1, <3>1, <3>2, <3>3 DEF Marking
    <2>2. ASSUME NEW q \in Requests, req'[q].pc = "mark", req'[q].family \notin straddled' PROVE Marking(q)'
        <3>1. q # r /\ req'[q] = req[q] /\ Marking(q)
            BY <1>1, <1>4, <2>2 DEF Closing
        <3>2. CASE \E x \in req[q].todo : x \in RevokeTargets(q)
            <4>1. PICK x \in req[q].todo : x \in Family(req[q].family) /\ ~rows[x].revoked
                BY <3>2 DEF RevokeTargets
            <4>2. CASE x \in req[r].wrote
                BY <1>3, <1>5, <3>1, <4>1, <4>2 DEF Marking, Covered
            <4>3. CASE x \notin req[r].wrote
                BY <1>3, <1>5, <3>1, <4>1, <4>3 DEF Marking, RevokeTargets
            <4> QED BY <4>2, <4>3
        <3>3. CASE Covered(req[q].family) \/ req[q].wrote # {}
            BY <1>6, <3>1, <3>3 DEF Marking
        <3> QED BY <3>1, <3>2, <3>3 DEF Marking
    <2>3. \A x \in cleaner'.todo \cup cleaner'.wrote : x \in Stored
        BY <1>1 DEF Locks
    <2>4. /\ \A x \in cleaner'.todo \cup cleaner'.wrote :
                rows'[x].family \notin straddled' => Expired(rows[x].family)'
          /\ \A g \in closed' \ straddled' : Covered(g)'
          /\ \A t \in Tokens' \ Stored' : issued'[t].family \notin straddled' => Expired(issued[t].family)'
        BY <1>1, <1>3, <1>6, <2>1, <2>3 DEF Closing
    <2> QED BY <2>2, <2>4 DEF Closing
<1> QED BY <1>7, <1>8, <1>9, <1>10, <1>11, <1>12

(* The cleanup deletes rows of families that had expired, and have not     *)
(* come back to life except by a late refresh.                             *)
LEMMA CommitCleanupStep ==
    ASSUME TokensInv, CommitCleanup
    PROVE  TokensInv'
<1> USE DEF TokensInv
<1> DEFINE gone == cleaner.wrote
<1>1. /\ rows' = [x \in Stored \ gone |-> rows[x]] /\ cleaner' = Resting
      /\ UNCHANGED <<clock, issued, req, held, presented, repeated, closed, straddled>>
    BY DEF CommitCleanup, ghostVars
<1>2. /\ gone \subseteq Stored /\ \A r \in Requests : req[r].wrote \cap gone = {}
      /\ rows \in [Stored -> RowRecord]
      /\ \A x \in gone : rows[x].family \notin straddled => Expired(rows[x].family)
    BY DEF Locks, TableOK, Closing
<1> HIDE DEF gone
<1>3. /\ Tokens' = Tokens /\ Stored' = Stored \ gone /\ rows' \in [Stored \ gone -> RowRecord]
      /\ \A x \in Stored \ gone : rows'[x] = rows[x]
    BY <1>1, <1>2 DEF Tokens, Stored
<1>4. cleaner' \in CleanerType /\ cleaner'.todo = {} /\ cleaner'.wrote = {}
    BY <1>1 DEF Resting, CleanerType
<1>5. \A g : Family(g)' = Family(g) \ gone
    BY <1>3 DEF Family
<1>6. \A g : Expired(g) => Expired(g)'
    BY <1>1, <1>3, <1>5 DEF Expired, Family
<1>7. ASSUME NEW g, g \notin straddled, Covered(g) PROVE Covered(g)'
    <2>1. CASE Expired(g)
        BY <1>6, <2>1 DEF Covered
    <2>2. ASSUME NEW x \in Family(g), rows[x].revoked PROVE Covered(g)'
        <3>1. CASE x \in gone
            BY <1>2, <1>6, <1>7, <2>2, <3>1 DEF Covered, Family
        <3>2. CASE x \notin gone
            BY <1>3, <1>5, <2>2, <3>2 DEF Covered, Family
        <3> QED BY <3>1, <3>2
    <2> QED BY <1>7, <2>1, <2>2 DEF Covered
<1>8. TableOK'
    BY <1>1, <1>3 DEF TableOK
<1>9. RequestsOK'
    <2>1. ASSUME NEW q \in Requests PROVE RequestOK(q)'
        <3>1. RequestOK(q) /\ req[q].wrote \subseteq Stored \ gone /\ req' = req
            BY <1>1, <1>2 DEF RequestsOK, Locks
        <3> QED BY <1>1, <1>3, <3>1 DEF RequestOK, Presents
    <2> QED BY <1>1, <2>1 DEF RequestsOK
<1>10. Locks'
    BY <1>1, <1>2, <1>3, <1>4 DEF Locks
<1>11. Rotation' /\ Alarms'
    BY <1>1, <1>3 DEF Rotation, Alarms, Presents
<1>12. Closing'
    <2>1. ASSUME NEW q \in Requests, req'[q].pc = "mark", req'[q].family \notin straddled' PROVE Marking(q)'
        <3>1. req'[q] = req[q] /\ Marking(q) /\ req[q].family \notin straddled
            BY <1>1, <2>1 DEF Closing
        <3>2. CASE \E x \in req[q].todo : x \in RevokeTargets(q)
            <4>1. PICK x \in req[q].todo : x \in Family(req[q].family) /\ ~rows[x].revoked
                BY <3>2 DEF RevokeTargets
            <4>2. CASE x \in gone
                BY <1>2, <1>6, <3>1, <4>1, <4>2 DEF Marking, Covered, Family
            <4>3. CASE x \notin gone
                BY <1>3, <1>5, <3>1, <4>1, <4>3 DEF Marking, RevokeTargets, Family
            <4> QED BY <4>2, <4>3
        <3>3. CASE Covered(req[q].family) \/ req[q].wrote # {}
            BY <1>7, <3>1, <3>3 DEF Marking
        <3> QED BY <3>1, <3>2, <3>3 DEF Marking
    <2>2. \A g \in closed' \ straddled' : Covered(g)'
        BY <1>1, <1>7 DEF Closing
    <2>3. ASSUME NEW t \in Tokens' \ Stored', issued'[t].family \notin straddled'
          PROVE  Expired(issued[t].family)'
        <3>1. CASE t \in gone
            BY <1>1, <1>2, <1>6, <2>3, <3>1 DEF TableOK
        <3>2. CASE t \notin gone
            BY <1>1, <1>3, <1>6, <2>3, <3>2 DEF Closing
        <3> QED BY <3>1, <3>2
    <2> QED BY <1>4, <2>1, <2>2, <2>3 DEF Closing
<1> QED BY <1>8, <1>9, <1>10, <1>11, <1>12

LEMMA TokensNext ==
    ASSUME TokensInv, [Next]_vars
    PROVE  TokensInv'
<1>1. ASSUME NEW r \in Requests, Fail(r) PROVE TokensInv'
    <2>1. held \subseteq Tokens
        BY DEF TokensInv, TableOK
    <2> QED BY <1>1, <2>1, EndsIdle DEF Fail
<1>2. CASE UNCHANGED vars
    <2>1. UNCHANGED <<clock, issued, rows, req, held, ghostVars>> /\ cleaner' = cleaner
        BY <1>2 DEF vars
    <2> QED BY <2>1, CleanerStep DEF TokensInv, Locks
<1> QED BY <1>1, <1>2, LoginStep, SignStep, RefreshStep, SetUsedStep, CommitRotationStep, LookupStep,
           LogoutStep, BeginRevokeStep, SetRevokedStep, CommitRevocationStep, CleanupSteps,
           CommitCleanupStep, TickStep DEF Next

LEMMA TokensInvariant == Spec => []TokensInv
    BY TokensInit, TokensNext, PTL DEF Spec

(***************************************************************************)
(* Theorems                                                                *)
(***************************************************************************)

(* auth.service.ts, auth-maintenance.ts: every variable keeps its type; in *)
(* particular no COMMIT updates a row that the cleanup has deleted.        *)
THEOREM TokensTypeCorrect == Spec => []TypeOK
<1>1. TokensInv => TypeOK
    <2> SUFFICES ASSUME TokensInv PROVE TypeOK
        OBVIOUS
    <2>1. /\ clock \in 0 .. MaxTime /\ Tokens \subseteq 0 .. MaxTokens
          /\ \A t \in Stored : rows[t].expires \in 0 .. (MaxTime + REFRESH_TOKEN_TTL)
        BY TokensAssumption DEF TokensInv, TableOK, Tokens, RowRecord
    <2>2. \A t \in Tokens : issued[t].family \in Tokens /\ issued[t].parent \in 0 .. MaxTokens
        <3>1. 0 \in 0 .. MaxTokens
            BY TokensAssumption
        <3>2. \A t \in Tokens : issued[t].family \in Tokens /\ issued[t].parent \in Tokens \cup {0}
            BY DEF TokensInv, TableOK
        <3> QED BY <2>1, <3>1, <3>2
    <2>3. \A t \in Stored : rows[t].used \in BOOLEAN /\ rows[t].revoked \in BOOLEAN
        BY Zenon DEF TokensInv, TableOK, RowRecord
    <2>4. cleaner.pc \in {"idle", "delete"}
        BY DEF TokensInv, Locks, CleanerType
    <2> QED BY <2>1, <2>2, <2>3, <2>4 DEF TypeOK, TokensInv, TableOK, RequestsOK, Locks
<1> QED BY <1>1, TokensInvariant, PTL

(* auth.service.ts, refresh: a refresh token is exchanged at most once,    *)
(* for any number of requests that present it at the same time.            *)
THEOREM OneSuccessorEach == Spec => []OneSuccessor
<1>1. TokensInv => OneSuccessor
    BY DEF TokensInv, TableOK, Rotation, OneSuccessor
<1> QED BY <1>1, TokensInvariant, PTL

(* auth.service.ts, revokeFamily: after a committed revocation nothing in  *)
(* the family can be exchanged, whatever was in flight when it committed.  *)
THEOREM ClosedFamiliesStayDead == Spec => []ClosedFamilyIsDead
<1>1. TokensInv => ClosedFamilyIsDead
    <2> SUFFICES ASSUME TokensInv, NEW f \in closed \ straddled, NEW t \in Family(f), Rotatable(t)
                 PROVE  FALSE
        BY DEF ClosedFamilyIsDead
    <2>1. Covered(f) /\ rows[t].family = f /\ t \in Stored
        BY DEF TokensInv, Closing, Family
    <2>2. CASE \E x \in Family(f) : rows[x].revoked
        BY <2>1, <2>2 DEF Rotatable, NoRevokedSibling
    <2>3. CASE Expired(f)
        <3>1. rows[t].expires < clock /\ rows[t].expires > clock
            BY <2>3 DEF Expired, Rotatable, Fresh
        <3>2. rows[t].expires \in Nat /\ clock \in Nat
            BY <2>1 DEF TokensInv, TableOK, RowRecord
        <3> QED BY <3>1, <3>2
    <2> QED BY <2>1, <2>2, <2>3 DEF Covered
<1> QED BY <1>1, TokensInvariant, PTL

(* auth-maintenance.ts: the cleanup never takes away the row by which the  *)
(* reuse of a token would be noticed while its family is alive.            *)
THEOREM ReuseStaysDetectable == Spec => []ReuseIsDetectable
<1>1. TokensInv => ReuseIsDetectable
    <2> SUFFICES ASSUME TokensInv, NEW t \in held, LiveFamily(issued[t].family),
                        issued[t].family \notin straddled, t \notin Stored
                 PROVE  FALSE
        BY DEF ReuseIsDetectable
    <2>1. Expired(issued[t].family)
        BY DEF TokensInv, TableOK, Closing
    <2>2. PICK y \in Family(issued[t].family) : rows[y].expires >= clock
        BY DEF LiveFamily
    <2>3. rows[y].expires < clock /\ y \in Stored
        BY <2>1 DEF Expired, Family
    <2>4. rows[y].expires \in Nat /\ clock \in Nat
        BY <2>3 DEF TokensInv, TableOK, RowRecord
    <2> QED BY <2>2, <2>3, <2>4
<1> QED BY <1>1, TokensInvariant, PTL

(* auth.service.ts, refresh: only a token presented twice or a logout      *)
(* closes a family.                                                        *)
THEOREM NoFalseAlarms == Spec => []NoFalseAlarm
<1>1. TokensInv => NoFalseAlarm
    BY DEF TokensInv, Alarms, NoFalseAlarm
<1> QED BY <1>1, TokensInvariant, PTL
==============================================================================
