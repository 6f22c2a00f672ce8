----------------------------- MODULE RateLimiter -----------------------------
(***************************************************************************)
(* The sliding window of one client address: RateLimitGuard asks           *)
(* RateLimiterService.hit, which runs one Lua script in Redis.  Keys of    *)
(* different addresses share nothing; all instances of the API share the   *)
(* key and Redis's clock, which is assumed not to run backwards.           *)
(*                                                                         *)
(* ioredis sends an unanswered command again after a reconnection, once    *)
(* (maxRetriesPerRequest: 1), with the same arguments: the script may run  *)
(* twice for one request, with the same member.                            *)
(***************************************************************************)
EXTENDS Naturals, FiniteSets

CONSTANTS
    Requests,      \* each has its member, a random UUID
    RATE_LIMIT,
    WINDOW,        \* RATE_LIMIT_WINDOW_MS
    SECOND,        \* milliseconds in a second
    MaxTime        \* bound on the clock

ASSUME RateLimiterAssumption ==
    /\ IsFiniteSet(Requests)
    /\ RATE_LIMIT \in Nat \ {0} /\ WINDOW \in Nat \ {0}
    /\ SECOND \in Nat \ {0} /\ MaxTime \in Nat \ {0}

VARIABLES
    now,           \* Redis TIME in milliseconds
    zset,          \* score of every member of the sorted set
    expireAt,      \* when the key goes away
    req            \* the progress and the answer of every request

vars == <<now, zset, expireAt, req>>

(* at: time of the script's last run; entry: time of its last ZADD, 0 for  *)
(* none; again: the command was sent twice; by: who decided.               *)
NotSent == [pc |-> "idle", again |-> FALSE, at |-> 0, entry |-> 0,
            allowed |-> FALSE, retry |-> 0, by |-> "nobody"]

Init ==
    /\ now = 1 /\ zset = [r \in {} |-> 0] /\ expireAt = 0
    /\ req = [r \in Requests |-> NotSent]

(* ZREMRANGEBYSCORE key -inf now - window, of a key that may have expired. *)
Trimmed(z) == [r \in {q \in DOMAIN z : z[q] + WINDOW > now} |-> z[r]]

(* The time to live of the key.                                            *)
Live == IF now < expireAt THEN zset ELSE [r \in {} |-> 0]

(* Mutant: PEXPIRE only for a new key.                                     *)
ExpireOnce(z) == IF z = [r \in {} |-> 0] THEN now + WINDOW ELSE expireAt

(* PEXPIRE key window.                                                     *)
Expiry(z) == now + WINDOW

HasRoom(z) == Cardinality(DOMAIN z) < RATE_LIMIT

Oldest(z) == CHOOSE t \in {z[r] : r \in DOMAIN z} : \A r \in DOMAIN z : t <= z[r]

(* Mutant: floor instead of ceil.                                          *)
FloorSeconds(ms) == IF ms \div SECOND > 1 THEN ms \div SECOND ELSE 1

(* Math.max(1, Math.ceil(ms / 1000)).                                      *)
RetryAfterSeconds(ms) ==
    LET ceil == (ms + SECOND - 1) \div SECOND IN IF ceil > 1 THEN ceil ELSE 1

-----------------------------------------------------------------------------
(* hit: the command is sent.                                               *)
Hit(r) ==
    /\ req[r].pc = "idle"
    /\ req' = [req EXCEPT ![r].pc = "sent"]
    /\ UNCHANGED <<now, zset, expireAt>>

(* SLIDING_WINDOW_SCRIPT, atomic in Redis; the answer is on its way.       *)
Script(r) ==
    LET z == Trimmed(Live)
        ran == [req[r] EXCEPT !.pc = "answered", !.at = now, !.by = "script"]
    IN  /\ req[r].pc = "sent"
        /\ IF HasRoom(z)
           THEN /\ zset' = [q \in DOMAIN z \cup {r} |-> IF q = r THEN now ELSE z[q]]
                /\ expireAt' = Expiry(z)
                /\ req' = [req EXCEPT ![r] = [ran EXCEPT !.entry = now, !.allowed = TRUE,
                                                          !.retry = RetryAfterSeconds(0)]]
           ELSE /\ zset' = z
                /\ req' = [req EXCEPT ![r] =
                     [ran EXCEPT !.allowed = FALSE,
                                 !.retry = RetryAfterSeconds((Oldest(z) + WINDOW) - now)]]
                /\ UNCHANGED expireAt
        /\ UNCHANGED now

(* The connection broke after the script ran; ioredis sends the command    *)
(* again.                                                                  *)
Resend(r) ==
    /\ req[r].pc = "answered" /\ ~req[r].again
    /\ req' = [req EXCEPT ![r].pc = "sent", ![r].again = TRUE]
    /\ UNCHANGED <<now, zset, expireAt>>

(* The guard lets the request through or answers 429.                      *)
Answer(r) ==
    /\ req[r].pc = "answered"
    /\ req' = [req EXCEPT ![r].pc = "over"]
    /\ UNCHANGED <<now, zset, expireAt>>

(* The catch of hit: the request is refused.                               *)
Refused(q) == [q EXCEPT !.pc = "over", !.allowed = FALSE, !.retry = 1, !.by = "error"]

(* eval throws, whether or not the script ran.                             *)
Fail(r) ==
    /\ req[r].pc \in {"sent", "answered"}
    /\ req' = [req EXCEPT ![r] = Refused(@)]
    /\ UNCHANGED <<now, zset, expireAt>>

Tick ==
    /\ now < MaxTime
    /\ now' = now + 1
    /\ UNCHANGED <<zset, expireAt, req>>

Next ==
    \/ Tick
    \/ \E r \in Requests : Hit(r) \/ Script(r) \/ Resend(r) \/ Answer(r) \/ Fail(r)

Spec == Init /\ [][Next]_vars

-----------------------------------------------------------------------------
(* Properties                                                              *)

(* The types of the variables; a Retry-After is at least a second and at   *)
(* most the window, rounded up.                                            *)
TypeOK ==
    /\ now \in 1..MaxTime /\ expireAt \in 0..(MaxTime + WINDOW)
    /\ DOMAIN zset \subseteq Requests /\ \A r \in DOMAIN zset : zset[r] \in 0..now
    /\ \A r \in Requests :
        /\ req[r].pc \in {"idle", "sent", "answered", "over"}
        /\ req[r].again \in BOOLEAN /\ req[r].allowed \in BOOLEAN
        /\ req[r].at \in 0..now /\ req[r].entry \in 0..now
        /\ req[r].retry \in 0..RetryAfterSeconds(WINDOW)
        /\ req[r].by \in {"nobody", "script", "error"}
        /\ req[r].pc = "over" => req[r].retry > 0

LetThrough == {r \in Requests : req[r].pc = "over" /\ req[r].allowed}

(* "Bursts are not allowed": no window of time, wherever it starts, sees   *)
(* more than RATE_LIMIT requests let through, whichever instances they     *)
(* came to, whatever was sent twice and whenever the key expired.  A       *)
(* request no script admitted is not let through.                          *)
WindowIsBounded ==
    /\ \A t \in 0..now :
        Cardinality({r \in LetThrough : req[r].at <= t /\ t < req[r].at + WINDOW}) <= RATE_LIMIT
    /\ \A r \in LetThrough : req[r].by = "script"

(* The limit holds, and every refusal carries a Retry-After.               *)
LimitHolds == TypeOK /\ WindowIsBounded

RefusesNow(r) == req[r].pc = "sent" /\ req'[r].pc = "answered" /\ ~req'[r].allowed

(* Waiting for Retry-After is enough: a request that comes when the time   *)
(* told with an earlier refusal is over is refused only if the script has  *)
(* added an entry since that refusal.                                      *)
RetryAfterSuffices ==
    \A p, q \in Requests :
        /\ req[p].pc = "over" /\ ~req[p].allowed /\ req[p].by = "script"
        /\ now >= req[p].at + req[p].retry * SECOND
        /\ RefusesNow(q)
        => \E r \in Requests : req[r].entry > req[p].at

(* A request is refused only in a full window: the script added entries    *)
(* for exactly RATE_LIMIT requests in the window that ends now, the first  *)
(* run of this very request among them when it was sent twice.  Neither    *)
(* an old entry nor a refused request counts.                              *)
RefusedOnlyWhenFull ==
    \A q \in Requests : RefusesNow(q) =>
        Cardinality({r \in Requests : req[r].entry > 0 /\ now < req[r].entry + WINDOW})
            = RATE_LIMIT

(* The script refuses nobody it should admit, and tells the others when to *)
(* come back.                                                              *)
RefusalsAreFair == [][RetryAfterSuffices /\ RefusedOnlyWhenFull]_vars
==============================================================================
