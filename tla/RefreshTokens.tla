---------------------------- MODULE RefreshTokens ----------------------------
(***************************************************************************)
(* The refresh_tokens table and the statements that AuthService and        *)
(* AuthMaintenance run on it: login, refresh with reuse detection, logout  *)
(* and the cleanup of expired families.                                    *)
(*                                                                         *)
(* A refresh token is named by the number of its issue and a family by its *)
(* first token.  Statements run at READ COMMITTED: a statement sees the    *)
(* rows committed when it began, waits for the writer of a row it wants to *)
(* change, and then evaluates the columns of that row again, while its     *)
(* subqueries keep the answer they gave on the first snapshot.             *)
(***************************************************************************)
EXTENDS Naturals, Sequences, FiniteSets

CONSTANTS
    Requests,
    REFRESH_TOKEN_TTL, ACCESS_TOKEN_TTL,
    CLEANUP_BATCH,
    MaxTokens, MaxLogins, MaxTime,  \* bounds on tokens, families and the clock
    MaxDuration                     \* ticks a request or a cleanup may take

ASSUME TokensAssumption ==
    /\ REFRESH_TOKEN_TTL \in Nat /\ ACCESS_TOKEN_TTL \in Nat
    /\ 0 < ACCESS_TOKEN_TTL /\ ACCESS_TOKEN_TTL < REFRESH_TOKEN_TTL
    /\ CLEANUP_BATCH \in Nat \ {0}
    /\ MaxTokens \in Nat /\ MaxLogins \in Nat /\ MaxTime \in Nat /\ MaxDuration \in Nat

VARIABLES
    clock,
    issued,         \* issued[t] = [family, parent], every token ever generated
    rows,           \* the committed rows, a function on a subset of the tokens
    req,            \* req[r], a request and its open transaction
    cleaner,        \* the DELETE of the maintenance task
    access,         \* the access tokens that have not expired: [family, exp]
    held,           \* refresh tokens a client got in an answer
    presented,      \* held tokens that were presented at least once
    repeated,       \* families with a token presented twice or with a logout
    closed,         \* families whose revocation has committed
    straddled       \* families in which a refresh committed after its token had expired

ghostVars == <<presented, repeated, closed, straddled>>
vars == <<clock, issued, rows, req, cleaner, access, held, ghostVars>>

Tokens == 1..Len(issued)
Stored == DOMAIN rows
Family(f) == {t \in Stored : rows[t].family = f}

Row(f) == [family |-> f, used |-> FALSE, revoked |-> FALSE,
           expires |-> clock + REFRESH_TOKEN_TTL]

(* A request: its step, the token and family it is about, now() of its     *)
(* first statement, the rows it has still to lock and the rows it has written. *)
Idle == [pc |-> "idle", token |-> 0, family |-> 0, now |-> 0, todo |-> {}, wrote |-> {}]

Resting == [pc |-> "idle", now |-> 0, todo |-> {}, wrote |-> {}]

Init ==
    /\ clock = 0
    /\ issued = <<>> /\ rows = <<>>
    /\ req = [r \in Requests |-> Idle]
    /\ cleaner = Resting
    /\ access = {} /\ held = {}
    /\ presented = {} /\ repeated = {} /\ closed = {} /\ straddled = {}

Finish(r) == req' = [req EXCEPT ![r] = Idle]

(* Row t has an uncommitted version of another transaction than r's.       *)
Locked(t, r) == \/ \E q \in Requests \ {r} : t \in req[q].wrote
                \/ t \in cleaner.wrote

(* Mutant: the DELETE does not wait for a writer.                          *)
NotLockedForCleanup(t) == FALSE

LockedForCleanup(t) == \E q \in Requests : t \in req[q].wrote

-----------------------------------------------------------------------------
(* Login                                                                   *)

(* Valid credentials: INSERT of the first token of a new family.           *)
Login(r) ==
    LET t == Len(issued) + 1 IN
    /\ req[r].pc = "idle" /\ t <= MaxTokens
    /\ Cardinality({x \in Tokens : issued[x].parent = 0}) < MaxLogins
    /\ issued' = Append(issued, [family |-> t, parent |-> 0])
    /\ rows' = [x \in Stored \cup {t} |-> IF x = t THEN Row(t) ELSE rows[x]]
    /\ req' = [req EXCEPT ![r] = [Idle EXCEPT !.pc = "sign", !.token = t, !.family = t,
                                                        !.now = clock]]
    /\ UNCHANGED <<clock, cleaner, access, held, ghostVars>>

(* pair: sign the access token and answer 200 with both tokens.            *)
Sign(r) ==
    /\ req[r].pc = "sign"
    /\ access' = access \cup {[family |-> req[r].family, exp |-> clock + ACCESS_TOKEN_TTL]}
    /\ held' = held \cup {req[r].token}
    /\ Finish(r)
    /\ UNCHANGED <<clock, issued, rows, cleaner, ghostVars>>

-----------------------------------------------------------------------------
(* Refresh                                                                 *)

(* Mutant: no used_at IS NULL.                                             *)
FreshIgnoringUse(t, now) == t \in Stored /\ ~rows[t].revoked /\ rows[t].expires > now

(* The columns of the row that the UPDATE asks for.                        *)
Fresh(t, now) ==
    /\ t \in Stored
    /\ ~rows[t].used /\ ~rows[t].revoked /\ rows[t].expires > now

(* Mutant: without the NOT EXISTS.                                         *)
AnyFamily(f) == TRUE

NoRevokedSibling(f) == \A x \in Family(f) : ~rows[x].revoked

Asking(t) == [Idle EXCEPT !.token = t, !.family = issued[t].family, !.now = clock]

(* BEGIN and the snapshot of UPDATE ... SET used_at.                       *)
Refresh(r, t) ==
    /\ req[r].pc = "idle" /\ t \in held
    /\ req' = [req EXCEPT ![r] =
                IF Fresh(t, clock) /\ NoRevokedSibling(issued[t].family)
                THEN [Asking(t) EXCEPT !.pc = "lock"]
                ELSE [Asking(t) EXCEPT !.pc = "lookup"]]
    /\ presented' = presented \cup {t}
    /\ repeated' = repeated \cup (IF t \in presented THEN {issued[t].family} ELSE {})
    /\ UNCHANGED <<clock, issued, rows, cleaner, access, held, closed, straddled>>

(* The row lock, and the second look at the row.                           *)
SetUsed(r) ==
    LET t == req[r].token IN
    /\ req[r].pc = "lock" /\ ~Locked(t, r)
    /\ req' = IF Fresh(t, req[r].now)
              THEN [req EXCEPT ![r].pc = "used", ![r].wrote = {t}]
              ELSE [req EXCEPT ![r].pc = "lookup"]
    /\ UNCHANGED <<clock, issued, rows, cleaner, access, held, ghostVars>>

(* findOneOrFail of the owner, INSERT of the next token and COMMIT.        *)
CommitRotation(r) ==
    LET t == req[r].token
        n == Len(issued) + 1 IN
    /\ req[r].pc = "used" /\ n <= MaxTokens
    /\ issued' = Append(issued, [family |-> req[r].family, parent |-> t])
    /\ rows' = [x \in Stored \cup {n} |->
                    IF x = n THEN Row(req[r].family)
                    ELSE IF x = t THEN [rows[t] EXCEPT !.used = TRUE] ELSE rows[x]]
    /\ req' = [req EXCEPT ![r].pc = "sign", ![r].token = n, ![r].wrote = {}]
    /\ straddled' = straddled \cup (IF rows[t].expires < clock THEN {req[r].family} ELSE {})
    /\ UNCHANGED <<clock, cleaner, access, held, presented, repeated, closed>>

(* Mutant: any token that cannot be used counts as a reuse.                *)
ReuseIfKnown(t) == t \in Stored

IsReuse(t) == t \in Stored /\ rows[t].used /\ ~rows[t].revoked

(* findOneBy: the token is invalid, or it was spent and has come back.     *)
Lookup(r) ==
    /\ req[r].pc = "lookup"
    /\ req' = [req EXCEPT ![r] = IF IsReuse(req[r].token)
                                 THEN [req[r] EXCEPT !.pc = "revoke", !.token = 0]
                                 ELSE Idle]
    /\ UNCHANGED <<clock, issued, rows, cleaner, access, held, ghostVars>>

-----------------------------------------------------------------------------
(* Revocation of a family: the same UPDATE for a reuse and for a logout    *)

RevokeTargets(r) == {x \in Family(req[r].family) : ~rows[x].revoked}

(* An access token of the family has passed the guard.                     *)
Logout(r, f) ==
    /\ req[r].pc = "idle"
    /\ \E a \in access : a.family = f /\ a.exp > clock
    /\ req' = [req EXCEPT ![r] = [Idle EXCEPT !.pc = "revoke", !.family = f, !.now = clock]]
    /\ repeated' = repeated \cup {f}
    /\ UNCHANGED <<clock, issued, rows, cleaner, access, held, presented, closed, straddled>>

(* The snapshot of UPDATE ... SET revoked_at.                              *)
BeginRevoke(r) ==
    /\ req[r].pc = "revoke"
    /\ req' = [req EXCEPT ![r].pc = "mark", ![r].todo = RevokeTargets(r)]
    /\ UNCHANGED <<clock, issued, rows, cleaner, access, held, ghostVars>>

(* The next row of the scan, in whatever order it comes.                   *)
SetRevoked(r, x) ==
    /\ req[r].pc = "mark" /\ x \in req[r].todo /\ ~Locked(x, r)
    /\ req' = [req EXCEPT ![r].todo = @ \ {x},
                          ![r].wrote = @ \cup (IF x \in RevokeTargets(r) THEN {x} ELSE {})]
    /\ UNCHANGED <<clock, issued, rows, cleaner, access, held, ghostVars>>

CommitRevocation(r) ==
    /\ req[r].pc = "mark" /\ req[r].todo = {}
    /\ rows' = [x \in Stored |-> IF x \in req[r].wrote
                                 THEN [rows[x] EXCEPT !.revoked = TRUE] ELSE rows[x]]
    /\ closed' = closed \cup {req[r].family}
    /\ Finish(r)
    /\ UNCHANGED <<clock, issued, cleaner, access, held, presented, repeated, straddled>>

(* A statement or the connection fails, a deadlock is broken, the process  *)
(* dies: the transaction is rolled back.  In "sign" the answer is lost.    *)
Fail(r) ==
    /\ req[r].pc # "idle"
    /\ Finish(r)
    /\ UNCHANGED <<clock, issued, rows, cleaner, access, held, ghostVars>>

-----------------------------------------------------------------------------
(* Cleanup                                                                 *)

(* Mutant: expired rows go even when the family goes on.                   *)
ExpiredRows == {x \in Stored : rows[x].expires < clock}

ExpiredFamilies ==
    {x \in Stored : /\ rows[x].expires < clock
                    /\ \A y \in Family(rows[x].family) : rows[y].expires < clock}

(* The snapshot of one DELETE with its LIMIT.                              *)
BeginCleanup ==
    /\ cleaner.pc = "idle"
    /\ \E batch \in SUBSET ExpiredFamilies :
        /\ batch # {}
        /\ batch = ExpiredFamilies \/ Cardinality(batch) = CLEANUP_BATCH
        /\ Cardinality(batch) <= CLEANUP_BATCH
        /\ cleaner' = [pc |-> "delete", now |-> clock, todo |-> batch, wrote |-> {}]
    /\ UNCHANGED <<clock, issued, rows, req, access, held, ghostVars>>

DeleteRow(x) ==
    /\ x \in cleaner.todo /\ ~LockedForCleanup(x)
    /\ cleaner' = [cleaner EXCEPT !.todo = @ \ {x}, !.wrote = @ \cup {x}]
    /\ UNCHANGED <<clock, issued, rows, req, access, held, ghostVars>>

CommitCleanup ==
    /\ cleaner.pc = "delete" /\ cleaner.todo = {}
    /\ rows' = [x \in Stored \ cleaner.wrote |-> rows[x]]
    /\ cleaner' = Resting
    /\ UNCHANGED <<clock, issued, req, access, held, ghostVars>>

FailCleanup ==
    /\ cleaner.pc # "idle"
    /\ cleaner' = Resting
    /\ UNCHANGED <<clock, issued, rows, req, access, held, ghostVars>>

(* Time passes, but no transaction stays open for as long as a token lives. *)
Tick ==
    /\ clock < MaxTime
    /\ \A r \in Requests : req[r].pc # "idle" => clock < req[r].now + MaxDuration
    /\ cleaner.pc # "idle" => clock < cleaner.now + MaxDuration
    /\ clock' = clock + 1
    /\ access' = {a \in access : a.exp > clock'}
    /\ UNCHANGED <<issued, rows, req, cleaner, held, ghostVars>>

-----------------------------------------------------------------------------
Next ==
    \/ \E r \in Requests :
        \/ Login(r) \/ Sign(r) \/ SetUsed(r) \/ CommitRotation(r) \/ Lookup(r)
        \/ BeginRevoke(r) \/ CommitRevocation(r) \/ Fail(r)
        \/ \E t \in Tokens : Refresh(r, t) \/ Logout(r, t) \/ SetRevoked(r, t)
    \/ BeginCleanup \/ CommitCleanup \/ FailCleanup
    \/ \E x \in Stored : DeleteRow(x)
    \/ Tick

Spec == Init /\ [][Next]_vars

-----------------------------------------------------------------------------
(* Properties                                                              *)

RequestType == [pc : {"idle", "sign", "lock", "used", "lookup", "revoke", "mark"},
                token : 0..MaxTokens, family : 0..MaxTokens, now : 0..MaxTime,
                todo : SUBSET (1..MaxTokens), wrote : SUBSET (1..MaxTokens)]

(* The types of the variables; what a transaction writes are rows that     *)
(* exist, so a COMMIT never updates a row that a cleanup has taken away.   *)
TypeOK ==
    /\ clock \in 0..MaxTime
    /\ Len(issued) <= MaxTokens
    /\ \A t \in Tokens : issued[t].family \in Tokens /\ issued[t].parent \in 0..MaxTokens
    /\ Stored \subseteq Tokens
    /\ \A t \in Stored : /\ rows[t].family = issued[t].family
                         /\ rows[t].used \in BOOLEAN /\ rows[t].revoked \in BOOLEAN
                         /\ rows[t].expires \in 0..(MaxTime + REFRESH_TOKEN_TTL)
    /\ req \in [Requests -> RequestType]
    /\ \A r \in Requests : req[r].wrote \subseteq Stored
    /\ cleaner.pc \in {"idle", "delete"} /\ cleaner.wrote \subseteq Stored
    /\ held \subseteq Tokens /\ presented \subseteq held

(* A refresh token is exchanged at most once, however many requests        *)
(* present it at the same time.                                            *)
OneSuccessor ==
    \A t, u \in Stored \cup held :
        issued[t].parent = issued[u].parent /\ issued[t].parent # 0 => t = u

(* What a new refresh statement would find for token t.                    *)
Rotatable(t) == Fresh(t, clock) /\ NoRevokedSibling(rows[t].family)

(* After a committed logout or reuse detection no token of the family can  *)
(* be exchanged, not even one that a concurrent refresh inserted behind    *)
(* the revocation's back; a family in which a refresh outlived its token   *)
(* is left out, see RevokedFamilyStaysDead.                                *)
ClosedFamilyIsDead ==
    \A f \in closed \ straddled : \A t \in Family(f) : ~Rotatable(t)

LiveFamily(f) == \E t \in Family(f) : rows[t].expires >= clock

(* As long as one token of a family is alive, every token of it that a     *)
(* client may hold has its row, so that a reuse finds the family.  Left    *)
(* out is the family of a refresh that outlived its token: the cleanup     *)
(* judges it by a snapshot in which it was dead.                           *)
ReuseIsDetectable ==
    \A t \in held : LiveFamily(issued[t].family) /\ issued[t].family \notin straddled
                        => t \in Stored

(* A client that presents every token once and does not log out is never   *)
(* treated as a thief, whatever fails and however refreshes interleave.    *)
NoFalseAlarm == closed \subseteq repeated

(* The documentation of the rotation: a token inserted by a refresh that   *)
(* raced a revocation can never be refreshed.                              *)
RevokedFamilyStaysDead == \A f \in closed : \A t \in Family(f) : ~Rotatable(t)
==============================================================================
