---------------------------- MODULE ProductsProofs ----------------------------
(***************************************************************************)
(* Proofs about what the products controller stands on: the sliding window *)
(* of the rate limiter, for any limit, window and clock, and the records   *)
(* and rows of POST, for any requests, keys, bodies and restarts.          *)
(***************************************************************************)
EXTENDS Products, Integers, FiniteSetTheorems, WellFoundedInduction, TLAPS

-----------------------------------------------------------------------------
(* Arithmetic of Retry-After                                               *)

LEMMA Division ==
    ASSUME NEW a \in Nat, NEW b \in Nat \ {0}
    PROVE  /\ a \div b \in Nat
           /\ b * (a \div b) <= a /\ a < b * (a \div b) + b
    OBVIOUS

LEMMA DivisionGrows ==
    ASSUME NEW a \in Nat, NEW c \in Nat, a <= c, NEW b \in Nat \ {0}
    PROVE  a \div b <= c \div b
<1>1. PICK x \in Nat, y \in Nat : x = a \div b /\ y = c \div b
    BY Division
<1>2. b * x <= a /\ c < b * y + b
    BY <1>1, Division
<1>3. ASSUME x > y PROVE FALSE
    <2>1. b * x >= b * (y + 1)
        BY <1>3
    <2> QED BY <1>2, <2>1
<1> QED BY <1>1, <1>3

(* The time told is a second at least, covers the wait and grows with it.  *)
LEMMA RetryCovers ==
    ASSUME NEW ms \in Nat
    PROVE  /\ RetryAfterSeconds(ms) \in Nat \ {0}
           /\ ms <= RetryAfterSeconds(ms) * SECOND
<1> USE RateLimiterAssumption
<1>1. ms + SECOND - 1 \in Nat
    OBVIOUS
<1>2. PICK k \in Nat : k = (ms + SECOND - 1) \div SECOND
    BY <1>1, Division
<1>3. ms + SECOND - 1 < SECOND * k + SECOND
    BY <1>1, <1>2, Division
<1>4. CASE k > 1
    BY <1>2, <1>3, <1>4 DEF RetryAfterSeconds
<1>5. CASE ~(k > 1)
    <2>1. RetryAfterSeconds(ms) = 1 /\ SECOND * k <= SECOND
        BY <1>2, <1>5 DEF RetryAfterSeconds
    <2>2. k = 0 \/ k = 1
        BY <1>5
    <2> QED BY <1>3, <2>1, <2>2
<1> QED BY <1>4, <1>5

LEMMA RetryGrows ==
    ASSUME NEW a \in Nat, NEW c \in Nat, a <= c
    PROVE  RetryAfterSeconds(a) <= RetryAfterSeconds(c)
<1> USE RateLimiterAssumption
<1>1. /\ a + SECOND - 1 \in Nat /\ c + SECOND - 1 \in Nat
      /\ a + SECOND - 1 <= c + SECOND - 1
    OBVIOUS
<1>2. PICK u \in Nat, v \in Nat : u = a + SECOND - 1 /\ v = c + SECOND - 1 /\ u <= v
    BY <1>1
<1>3. u \div SECOND \in Nat /\ v \div SECOND \in Nat /\ u \div SECOND <= v \div SECOND
    BY <1>2, Division, DivisionGrows
<1>4. PICK x \in Nat, y \in Nat : x = u \div SECOND /\ y = v \div SECOND /\ x <= y
    BY <1>3
<1> QED BY <1>2, <1>4 DEF RetryAfterSeconds

LEMMA LeastExists ==
    ASSUME NEW S, S \subseteq Nat, S # {}
    PROVE  \E t \in S : \A u \in S : t <= u
<1>1. IsWellFoundedOn(OpToRel(<, Nat), Nat)
    BY NatLessThanWellFounded
<1>2. PICK t \in S : \A u \in S : ~(<<u, t>> \in OpToRel(<, Nat))
    BY <1>1, WFMin
<1>3. \A u \in S : ~(u < t)
    BY <1>2 DEF OpToRel
<1> QED BY <1>3

-----------------------------------------------------------------------------
(***************************************************************************)
(* The invariant of the rate limiter                                       *)
(*                                                                         *)
(* Spent ties the sorted set, which forgets, to the last entry of every    *)
(* request: an entry inside the window is still in the set, and the key    *)
(* lives as long.  With it what the script counts is the number of entries *)
(* in the window that ends now, and WindowsAreBounded can be carried from  *)
(* step to step for every window that has begun.  Refusals keeps, for each *)
(* refused request, the entry whose departure its Retry-After waits for.   *)
(***************************************************************************)
HitRecord ==
    [pc : {"idle", "sent", "answered", "over"}, again : BOOLEAN, at : Nat, entry : Nat,
     allowed : BOOLEAN, retry : Nat, by : {"nobody", "script", "error"}]

(* The requests with an entry in the window that ends at t.                *)
InWindow(t) == {r \in Requests : /\ req[r].entry > 0 /\ req[r].entry <= t
                                 /\ t < req[r].entry + WINDOW}

Types ==
    /\ now \in Nat \ {0} /\ now <= MaxTime
    /\ expireAt \in Nat /\ expireAt <= now + WINDOW
    /\ req \in [Requests -> HitRecord]
    /\ \A r \in Requests :
        /\ req[r].at <= now /\ req[r].entry <= now
        /\ req[r].retry <= RetryAfterSeconds(WINDOW)
        /\ req[r].pc \in {"answered", "over"} => req[r].retry > 0

Spent ==
    /\ DOMAIN zset \subseteq Requests /\ zset \in [DOMAIN zset -> Nat]
    /\ \A r \in DOMAIN zset : zset[r] = req[r].entry /\ zset[r] > 0
    /\ \A r \in Requests : req[r].entry > 0 =>
        /\ req[r].entry + WINDOW <= expireAt
        /\ now < req[r].entry + WINDOW => r \in DOMAIN zset

Admitted == \A r \in Requests : req[r].allowed =>
                req[r].at = req[r].entry /\ req[r].entry > 0 /\ req[r].by = "script"

WindowsAreBounded == \A t \in 0..now : Cardinality(InWindow(t)) <= RATE_LIMIT

RefusedByScript(p) == req[p].by = "script" /\ ~req[p].allowed

Refusals ==
    \A p \in Requests : RefusedByScript(p) =>
        /\ req[p].at = now => Cardinality(InWindow(now)) >= RATE_LIMIT
        /\ \E r \in Requests :
            \/ req[r].entry > req[p].at
            \/ /\ r \in InWindow(req[p].at)
               /\ req[r].entry + WINDOW <= req[p].at + req[p].retry * SECOND

LimiterInv == Types /\ Spent /\ Admitted /\ WindowsAreBounded /\ Refusals

LEMMA WindowsAreFinite ==
    ASSUME NEW t
    PROVE  IsFiniteSet(InWindow(t)) /\ Cardinality(InWindow(t)) \in Nat
<1>1. InWindow(t) \subseteq Requests
    BY DEF InWindow
<1> QED BY <1>1, RateLimiterAssumption, FS_Subset, FS_CardinalityType

LEMMA LimiterInit == Init => LimiterInv
<1> SUFFICES ASSUME Init PROVE LimiterInv
    OBVIOUS
<1> USE RateLimiterAssumption DEF Init, NotSent
<1>1. Types
    <2>1. RetryAfterSeconds(WINDOW) \in Nat
        BY RetryCovers
    <2> QED BY <2>1 DEF Types, HitRecord
<1>2. Spent /\ Admitted
    BY DEF Spent, Admitted
<1>3. WindowsAreBounded
    <2>1. \A t : InWindow(t) = {}
        BY DEF InWindow
    <2> QED BY <2>1, FS_EmptySet DEF WindowsAreBounded
<1>4. Refusals
    BY DEF Refusals, RefusedByScript
<1> QED BY <1>1, <1>2, <1>3, <1>4 DEF LimiterInv

(* What the script is left with after ZREMRANGEBYSCORE is the window that  *)
(* ends now, whether or not the key has expired.                           *)
LEMMA ScriptCounts ==
    ASSUME LimiterInv
    PROVE  /\ DOMAIN Trimmed(Live) = InWindow(now)
           /\ \A r \in InWindow(now) : Trimmed(Live)[r] = req[r].entry
<1> USE RateLimiterAssumption DEF LimiterInv, Types, HitRecord
<1>1. CASE now < expireAt
    <2>1. Live = zset
        BY <1>1 DEF Live
    <2>2. \A r \in DOMAIN zset : zset[r] + WINDOW > now <=> r \in InWindow(now)
        BY DEF Spent, InWindow
    <2>3. InWindow(now) \subseteq DOMAIN zset
        BY DEF Spent, InWindow
    <2>4. DOMAIN Trimmed(Live) = InWindow(now)
        BY <2>1, <2>2, <2>3 DEF Trimmed
    <2> QED BY <2>1, <2>2, <2>3, <2>4 DEF Trimmed, Spent
<1>2. CASE ~(now < expireAt)
    <2>1. DOMAIN Live = {}
        BY <1>2 DEF Live
    <2>2. InWindow(now) = {}
        <3> SUFFICES ASSUME NEW r \in InWindow(now) PROVE FALSE
            OBVIOUS
        <3>1. r \in Requests /\ req[r].entry + WINDOW <= expireAt /\ now < req[r].entry + WINDOW
            BY DEF Spent, InWindow
        <3>2. req[r].entry \in Nat
            BY <3>1
        <3> QED BY <1>2, <3>1, <3>2
    <2> QED BY <2>1, <2>2 DEF Trimmed
<1> QED BY <1>1, <1>2

(* Steps in which nothing is added and no verdict of a script changes.     *)
LEMMA QuietStep ==
    ASSUME LimiterInv, NEW r \in Requests, NEW v \in HitRecord,
           req' = [req EXCEPT ![r] = v], UNCHANGED <<now, zset, expireAt>>,
           v.at = req[r].at, v.entry = req[r].entry,
           v.retry <= RetryAfterSeconds(WINDOW),
           v.pc \in {"answered", "over"} => v.retry > 0,
           v.allowed => req[r].allowed /\ v.by = req[r].by,
           v.by = "script" /\ ~v.allowed => RefusedByScript(r) /\ v.retry = req[r].retry
    PROVE  LimiterInv'
<1> USE DEF LimiterInv
<1>1. req'[r] = v /\ \A q \in Requests \ {r} : req'[q] = req[q]
    BY DEF Types
<1>2. \A q \in Requests : req'[q].at = req[q].at /\ req'[q].entry = req[q].entry
    BY <1>1
<1>3. \A t : InWindow(t)' = InWindow(t)
    BY <1>2 DEF InWindow
<1>4. Types'
    <2>1. req' \in [Requests -> HitRecord]
        BY DEF Types
    <2> QED BY <1>1, <1>2, <2>1 DEF Types
<1>5. Spent'
    BY <1>2 DEF Spent
<1>6. Admitted'
    BY <1>1, <1>2 DEF Admitted
<1>7. WindowsAreBounded'
    BY <1>3 DEF WindowsAreBounded
<1>8. Refusals'
    <2> SUFFICES ASSUME NEW p \in Requests, RefusedByScript(p)'
                 PROVE  /\ req'[p].at = now' => Cardinality(InWindow(now)') >= RATE_LIMIT
                        /\ \E q \in Requests :
                            \/ req'[q].entry > req'[p].at
                            \/ /\ q \in InWindow(req[p].at)'
                               /\ req'[q].entry + WINDOW <= req'[p].at + req'[p].retry * SECOND
        BY DEF Refusals
    <2>1. RefusedByScript(p) /\ req'[p].retry = req[p].retry
        BY <1>1 DEF RefusedByScript
    <2> QED BY <1>2, <1>3, <2>1 DEF Refusals, InWindow
<1> QED BY <1>4, <1>5, <1>6, <1>7, <1>8

(* The script admits r: the window that ends now has one entry more, the   *)
(* windows that ended before have none more.                               *)
LEMMA AdmitStep ==
    ASSUME LimiterInv, NEW r \in Requests, Script(r), HasRoom(Trimmed(Live))
    PROVE  LimiterInv'
<1> USE RateLimiterAssumption DEF LimiterInv
<1> DEFINE z == Trimmed(Live)
<1>1. PICK v : v = [[req[r] EXCEPT !.pc = "answered", !.at = now, !.by = "script"]
                        EXCEPT !.entry = now, !.allowed = TRUE, !.retry = RetryAfterSeconds(0)]
    OBVIOUS
<1>2. /\ zset' = [q \in DOMAIN z \cup {r} |-> IF q = r THEN now ELSE z[q]]
      /\ expireAt' = now + WINDOW /\ now' = now
      /\ req' = [req EXCEPT ![r] = v]
    BY <1>1 DEF Script, Expiry
<1>3. RetryAfterSeconds(0) \in Nat \ {0} /\ RetryAfterSeconds(0) <= RetryAfterSeconds(WINDOW)
    BY RetryCovers, RetryGrows
<1>4. /\ v \in HitRecord /\ v.pc = "answered" /\ v.at = now /\ v.entry = now
      /\ v.allowed = TRUE /\ v.by = "script" /\ v.retry = RetryAfterSeconds(0)
    BY <1>1, <1>3 DEF Types, HitRecord
<1>5. req'[r] = v /\ \A q \in Requests \ {r} : req'[q] = req[q]
    BY <1>2 DEF Types
<1>6. /\ DOMAIN z = InWindow(now) /\ \A q \in InWindow(now) : z[q] = req[q].entry
      /\ InWindow(now) \subseteq Requests
    BY ScriptCounts DEF InWindow
<1> HIDE DEF z
<1>7. Cardinality(InWindow(now)) < RATE_LIMIT
    BY <1>6 DEF HasRoom, z
<1>8. InWindow(now)' \subseteq InWindow(now) \cup {r}
    BY <1>2, <1>5 DEF InWindow
<1>9. ASSUME NEW t \in 0 .. now, t # now PROVE InWindow(t)' \subseteq InWindow(t)
    BY <1>2, <1>4, <1>5, <1>9 DEF InWindow, Types
<1>10. Types'
    <2>1. req' \in [Requests -> HitRecord]
        BY <1>2, <1>4 DEF Types
    <2>2. now \in Nat /\ expireAt' \in Nat /\ expireAt' <= now' + WINDOW
        BY <1>2 DEF Types
    <2> QED BY <1>2, <1>3, <1>4, <1>5, <2>1, <2>2 DEF Types
<1>11. Spent'
    <2>1. DOMAIN zset' = InWindow(now) \cup {r}
        BY <1>2, <1>6
    <2>2. zset'[r] = now /\ \A q \in InWindow(now) \ {r} : zset'[q] = req[q].entry
        BY <1>2, <1>6
    <2>3. \A q \in InWindow(now) : req[q].entry \in Nat /\ req[q].entry > 0
        BY <1>6 DEF InWindow, Types, HitRecord
    <2>4. zset' \in [DOMAIN zset' -> Nat]
        <3>1. \A q \in DOMAIN zset' : zset'[q] \in Nat
            BY <2>1, <2>2, <2>3 DEF Types
        <3> QED BY <1>2, <3>1
    <2>5. \A q \in DOMAIN zset' : zset'[q] = req'[q].entry /\ zset'[q] > 0
        BY <1>4, <1>5, <1>6, <2>1, <2>2, <2>3 DEF Types
    <2>6. ASSUME NEW q \in Requests, req'[q].entry > 0
          PROVE  /\ req'[q].entry + WINDOW <= expireAt'
                 /\ now' < req'[q].entry + WINDOW => q \in DOMAIN zset'
        <3>1. CASE q = r
            BY <1>2, <1>4, <1>5, <2>1, <3>1 DEF Types
        <3>2. CASE q # r
            BY <1>2, <1>5, <2>1, <2>6, <3>2 DEF Types, HitRecord, InWindow
        <3> QED BY <3>1, <3>2
    <2> QED BY <1>6, <2>1, <2>4, <2>5, <2>6 DEF Spent
<1>12. Admitted'
    BY <1>4, <1>5 DEF Admitted, Types
<1>13. WindowsAreBounded'
    <2> SUFFICES ASSUME NEW t \in 0 .. now PROVE Cardinality(InWindow(t)') <= RATE_LIMIT
        BY <1>2 DEF WindowsAreBounded
    <2>1. CASE t = now
        <3>1. IsFiniteSet(InWindow(now)) /\ Cardinality(InWindow(now)) \in Nat
            BY WindowsAreFinite
        <3>2. /\ IsFiniteSet(InWindow(now) \cup {r})
              /\ Cardinality(InWindow(now) \cup {r}) <= Cardinality(InWindow(now)) + 1
              /\ Cardinality(InWindow(now) \cup {r}) \in Nat
            <4>1. /\ IsFiniteSet(InWindow(now) \cup {r})
                  /\ \/ Cardinality(InWindow(now) \cup {r}) = Cardinality(InWindow(now))
                     \/ Cardinality(InWindow(now) \cup {r}) = Cardinality(InWindow(now)) + 1
                BY <3>1, FS_AddElement, Zenon
            <4> QED BY <3>1, <4>1
        <3>3. PICK W : W = InWindow(now)'
            OBVIOUS
        <3>4. Cardinality(W) <= Cardinality(InWindow(now) \cup {r}) /\ Cardinality(W) \in Nat
            BY <1>8, <3>2, <3>3, FS_Subset, FS_CardinalityType
        <3>5. Cardinality(W) <= RATE_LIMIT
            BY <1>7, <3>1, <3>2, <3>4
        <3> QED BY <1>2, <2>1, <3>3, <3>5 DEF InWindow
    <2>2. CASE t # now
        <3>1. IsFiniteSet(InWindow(t)) /\ Cardinality(InWindow(t)) \in Nat
            BY WindowsAreFinite
        <3>2. PICK W : W = InWindow(t)'
            OBVIOUS
        <3>3. Cardinality(W) <= Cardinality(InWindow(t)) /\ Cardinality(W) \in Nat
            BY <1>9, <2>2, <3>1, <3>2, FS_Subset, FS_CardinalityType
        <3>4. Cardinality(InWindow(t)) <= RATE_LIMIT
            BY DEF WindowsAreBounded
        <3> QED BY <3>1, <3>2, <3>3, <3>4
    <2> QED BY <2>1, <2>2
<1>14. Refusals'
    <2> SUFFICES ASSUME NEW p \in Requests, RefusedByScript(p)'
                 PROVE  req'[p].at # now' /\ req'[r].entry > req'[p].at
        BY DEF Refusals
    <2>1. p # r /\ RefusedByScript(p) /\ req'[p] = req[p]
        BY <1>4, <1>5 DEF RefusedByScript
    <2>2. req[p].at # now
        BY <1>7, <2>1, WindowsAreFinite DEF Refusals
    <2>3. req[p].at <= now /\ req[p].at \in Nat /\ now \in Nat
        BY DEF Types, HitRecord
    <2> QED BY <1>2, <1>4, <1>5, <2>1, <2>2, <2>3
<1> QED BY <1>10, <1>11, <1>12, <1>13, <1>14

(* The script refuses r in a full window; Retry-After waits for the oldest *)
(* entry of it.                                                            *)
LEMMA RefuseStep ==
    ASSUME LimiterInv, NEW r \in Requests, Script(r), ~HasRoom(Trimmed(Live))
    PROVE  LimiterInv'
<1> USE RateLimiterAssumption DEF LimiterInv
<1> DEFINE z == Trimmed(Live)
           wait == (Oldest(z) + WINDOW) - now
<1>1. PICK v : v = [[req[r] EXCEPT !.pc = "answered", !.at = now, !.by = "script"]
                        EXCEPT !.allowed = FALSE, !.retry = RetryAfterSeconds(wait)]
    OBVIOUS
<1>2. /\ zset' = z /\ expireAt' = expireAt /\ now' = now
      /\ req' = [req EXCEPT ![r] = v]
    BY <1>1 DEF Script
<1>3. /\ DOMAIN z = InWindow(now) /\ \A q \in InWindow(now) : z[q] = req[q].entry
      /\ InWindow(now) \subseteq Requests
    BY ScriptCounts DEF InWindow
<1>4. Cardinality(InWindow(now)) >= RATE_LIMIT
    BY <1>3, WindowsAreFinite DEF HasRoom
<1>5. InWindow(now) # {}
    BY <1>4, FS_EmptySet
<1>6. PICK q \in InWindow(now) : req[q].entry = Oldest(z)
    <2> DEFINE scores == {z[x] : x \in DOMAIN z}
    <2>1. scores # {} /\ scores \subseteq Nat
        BY <1>3, <1>5 DEF Types, HitRecord
    <2>2. \E t \in scores : \A u \in scores : t <= u
        BY <2>1, LeastExists
    <2>3. \E t \in scores : \A x \in DOMAIN z : t <= z[x]
        BY <2>2
    <2>4. Oldest(z) \in scores
        BY <2>3 DEF Oldest
    <2> QED BY <1>3, <2>4
<1>7. /\ req[q].entry \in Nat /\ now \in Nat /\ req[q].entry <= now /\ now < req[q].entry + WINDOW
      /\ req[q].entry > 0
    BY DEF InWindow, Types, HitRecord
<1>8. PICK ms \in Nat : ms = wait /\ ms <= WINDOW /\ req[q].entry + WINDOW = now + ms
    BY <1>6, <1>7
<1>9. /\ RetryAfterSeconds(ms) \in Nat \ {0} /\ RetryAfterSeconds(ms) <= RetryAfterSeconds(WINDOW)
      /\ ms <= RetryAfterSeconds(ms) * SECOND
    BY <1>8, RetryCovers, RetryGrows
<1> HIDE DEF z, wait
<1>10. /\ v \in HitRecord /\ v.pc = "answered" /\ v.at = now /\ v.entry = req[r].entry
       /\ v.allowed = FALSE /\ v.by = "script" /\ v.retry = RetryAfterSeconds(ms)
    BY <1>1, <1>8, <1>9 DEF Types, HitRecord
<1>11. /\ req'[r] = v /\ \A x \in Requests \ {r} : req'[x] = req[x]
       /\ \A x \in Requests : req'[x].entry = req[x].entry
    BY <1>2, <1>10 DEF Types
<1>12. \A t : InWindow(t)' = InWindow(t)
    BY <1>11 DEF InWindow
<1>13. Types'
    <2>1. req' \in [Requests -> HitRecord]
        BY <1>2, <1>10 DEF Types
    <2> QED BY <1>2, <1>9, <1>10, <1>11, <2>1 DEF Types
<1>14. Spent'
    <2>1. z \in [DOMAIN z -> Nat]
        <3>1. \A x \in DOMAIN z : z[x] \in Nat
            BY <1>3 DEF Types, HitRecord
        <3>2. z = [x \in DOMAIN z |-> z[x]]
            BY DEF z, Trimmed
        <3> QED BY <3>1, <3>2
    <2>2. \A x \in DOMAIN z : z[x] = req'[x].entry /\ z[x] > 0
        BY <1>3, <1>11 DEF InWindow
    <2>3. \A x \in Requests : req'[x].entry > 0 /\ now < req'[x].entry + WINDOW => x \in DOMAIN z
        BY <1>3, <1>11 DEF InWindow, Types
    <2> QED BY <1>2, <1>3, <1>11, <2>1, <2>2, <2>3 DEF Spent
<1>15. Admitted'
    BY <1>10, <1>11 DEF Admitted
<1>16. WindowsAreBounded'
    BY <1>2, <1>12 DEF WindowsAreBounded
<1>17. Refusals'
    <2> SUFFICES ASSUME NEW p \in Requests, RefusedByScript(p)'
                 PROVE  /\ req'[p].at = now' => Cardinality(InWindow(now)') >= RATE_LIMIT
                        /\ \E x \in Requests :
                            \/ req'[x].entry > req'[p].at
                            \/ /\ x \in InWindow(req[p].at)'
                               /\ req'[x].entry + WINDOW <= req'[p].at + req'[p].retry * SECOND
        BY DEF Refusals
    <2>1. Cardinality(InWindow(now)') >= RATE_LIMIT
        BY <1>2, <1>4, <1>12
    <2>2. CASE p = r
        <3>1. q \in InWindow(req[p].at)'
            BY <1>2, <1>7, <1>10, <1>11, <1>3, <2>2 DEF InWindow
        <3>2. req'[q].entry + WINDOW <= req'[p].at + req'[p].retry * SECOND
            BY <1>3, <1>7, <1>8, <1>9, <1>10, <1>11, <2>2
        <3> QED BY <1>3, <2>1, <3>1, <3>2
    <2>3. CASE p # r
        <3>1. RefusedByScript(p) /\ req'[p] = req[p]
            BY <1>11, <2>3 DEF RefusedByScript
        <3> QED BY <1>2, <1>11, <1>12, <2>1, <3>1 DEF Refusals, InWindow
    <2> QED BY <2>2, <2>3
<1> QED BY <1>13, <1>14, <1>15, <1>16, <1>17

LEMMA TickStep ==
    ASSUME LimiterInv, Tick
    PROVE  LimiterInv'
<1> USE RateLimiterAssumption DEF LimiterInv
<1>1. now < MaxTime /\ now' = now + 1 /\ UNCHANGED <<zset, expireAt, req>> /\ now \in Nat
    BY DEF Tick, Types
<1>2. \A t : InWindow(t)' = InWindow(t)
    BY <1>1 DEF InWindow
<1>3. Types'
    BY <1>1 DEF Types, HitRecord
<1>4. Spent'
    BY <1>1 DEF Spent, Types, HitRecord
<1>5. Admitted'
    BY <1>1 DEF Admitted
<1>6. WindowsAreBounded'
    <2> SUFFICES ASSUME NEW t \in 0 .. now + 1 PROVE Cardinality(InWindow(t)) <= RATE_LIMIT
        BY <1>1, <1>2 DEF WindowsAreBounded
    <2>1. CASE t \in 0 .. now
        BY <2>1 DEF WindowsAreBounded
    <2>2. CASE t = now + 1
        <3>1. InWindow(t) \subseteq InWindow(now)
            BY <1>1, <2>2 DEF InWindow, Types, HitRecord
        <3>2. Cardinality(InWindow(t)) <= Cardinality(InWindow(now))
            BY <3>1, WindowsAreFinite, FS_Subset
        <3>3. Cardinality(InWindow(now)) <= RATE_LIMIT
            BY <1>1 DEF WindowsAreBounded
        <3> QED BY <3>2, <3>3, WindowsAreFinite
    <2> QED BY <1>1, <2>1, <2>2
<1>7. Refusals'
    <2>1. \A p \in Requests : req[p].at # now'
        BY <1>1 DEF Types, HitRecord
    <2> QED BY <1>1, <1>2, <2>1 DEF Refusals, RefusedByScript, InWindow
<1> QED BY <1>3, <1>4, <1>5, <1>6, <1>7

LEMMA LimiterNext ==
    ASSUME LimiterInv, [Next]_vars
    PROVE  LimiterInv'
<1> USE RateLimiterAssumption
<1>0. req \in [Requests -> HitRecord]
    BY DEF LimiterInv, Types
<1>1. ASSUME NEW r \in Requests, Hit(r) PROVE LimiterInv'
    <2>1. PICK v : v = [req[r] EXCEPT !.pc = "sent"]
        OBVIOUS
    <2>2. /\ v \in HitRecord /\ v.pc = "sent" /\ v.at = req[r].at /\ v.entry = req[r].entry
          /\ v.retry = req[r].retry /\ v.allowed = req[r].allowed /\ v.by = req[r].by
        BY <1>0, <2>1 DEF HitRecord
    <2>3. req' = [req EXCEPT ![r] = v] /\ UNCHANGED <<now, zset, expireAt>>
        BY <1>1, <2>1 DEF Hit
    <2> QED BY <2>2, <2>3, QuietStep DEF LimiterInv, Types, RefusedByScript
<1>2. ASSUME NEW r \in Requests, Script(r) PROVE LimiterInv'
    BY <1>2, AdmitStep, RefuseStep
<1>3. ASSUME NEW r \in Requests, Resend(r) PROVE LimiterInv'
    <2>1. PICK v : v = [[req[r] EXCEPT !.pc = "sent"] EXCEPT !.again = TRUE]
        OBVIOUS
    <2>2. /\ v \in HitRecord /\ v.pc = "sent" /\ v.at = req[r].at /\ v.entry = req[r].entry
          /\ v.retry = req[r].retry /\ v.allowed = req[r].allowed /\ v.by = req[r].by
        BY <1>0, <2>1 DEF HitRecord
    <2>3. req' = [req EXCEPT ![r] = v] /\ UNCHANGED <<now, zset, expireAt>>
        BY <1>0, <1>3, <2>1 DEF Resend
    <2> QED BY <2>2, <2>3, QuietStep DEF LimiterInv, Types, RefusedByScript
<1>4. ASSUME NEW r \in Requests, Answer(r) PROVE LimiterInv'
    <2>1. PICK v : v = [req[r] EXCEPT !.pc = "over"]
        OBVIOUS
    <2>2. /\ v \in HitRecord /\ v.pc = "over" /\ v.at = req[r].at /\ v.entry = req[r].entry
          /\ v.retry = req[r].retry /\ v.allowed = req[r].allowed /\ v.by = req[r].by
        BY <1>0, <2>1 DEF HitRecord
    <2>3. req[r].pc = "answered" /\ req' = [req EXCEPT ![r] = v] /\ UNCHANGED <<now, zset, expireAt>>
        BY <1>4, <2>1 DEF Answer
    <2> QED BY <2>2, <2>3, QuietStep DEF LimiterInv, Types, RefusedByScript
<1>5. ASSUME NEW r \in Requests, Fail(r) PROVE LimiterInv'
    <2>1. PICK v : v = Refused(req[r])
        OBVIOUS
    <2>2. /\ v \in HitRecord /\ v.at = req[r].at /\ v.entry = req[r].entry
          /\ v.retry = 1 /\ v.allowed = FALSE /\ v.by = "error"
        BY <1>0, <2>1 DEF HitRecord, Refused
    <2>3. req' = [req EXCEPT ![r] = v] /\ UNCHANGED <<now, zset, expireAt>>
        BY <1>5, <2>1 DEF Fail
    <2>4. 1 <= RetryAfterSeconds(WINDOW)
        BY RetryCovers
    <2>5. /\ v.retry <= RetryAfterSeconds(WINDOW) /\ v.retry > 0
          /\ ~v.allowed /\ v.by # "script"
        BY <2>2, <2>4
    <2> QED BY <2>2, <2>3, <2>5, QuietStep, Zenon
<1>6. CASE UNCHANGED vars
    BY <1>6 DEF vars, LimiterInv, Types, Spent, Admitted, WindowsAreBounded, Refusals,
                RefusedByScript, InWindow
<1> QED BY <1>1, <1>2, <1>3, <1>4, <1>5, <1>6, TickStep DEF Next

LEMMA LimiterInvariant == Spec => []LimiterInv
    BY LimiterInit, LimiterNext, PTL DEF Spec

(* rate-limiter.service.ts, hit: no window of RATE_LIMIT_WINDOW_MS, at     *)
(* whatever millisecond it ends, sees more than RATE_LIMIT requests let    *)
(* through, and every answer has a Retry-After within the window.          *)
THEOREM TheLimitHolds == Spec => []LimitHolds
<1>1. LimiterInv => LimitHolds
    <2> SUFFICES ASSUME LimiterInv PROVE LimitHolds
        OBVIOUS
    <2> USE RateLimiterAssumption DEF LimiterInv
    <2>1. TypeOK
        <3>1. now \in 1 .. MaxTime /\ expireAt \in 0 .. (MaxTime + WINDOW)
            <4>1. /\ now \in Nat /\ now > 0 /\ now <= MaxTime
                  /\ expireAt \in Nat /\ expireAt <= now + WINDOW
                BY DEF Types
            <4>2. expireAt <= MaxTime + WINDOW
                BY <4>1
            <4> QED BY <4>1, <4>2
        <3>2. DOMAIN zset \subseteq Requests /\ \A r \in DOMAIN zset : zset[r] \in 0 .. now
            <4>1. ASSUME NEW r \in DOMAIN zset PROVE zset[r] \in 0 .. now
                <5>1. r \in Requests /\ zset[r] = req[r].entry
                    BY DEF Spent
                <5>2. req[r].entry \in Nat /\ req[r].entry <= now /\ now \in Nat
                    BY <5>1 DEF Types, HitRecord
                <5> QED BY <5>1, <5>2
            <4> QED BY <4>1 DEF Spent
        <3>3. ASSUME NEW r \in Requests
              PROVE  /\ req[r].at \in 0 .. now /\ req[r].entry \in 0 .. now
                     /\ req[r].retry \in 0 .. RetryAfterSeconds(WINDOW)
                     /\ req[r].pc = "over" => req[r].retry > 0
            <4>1. RetryAfterSeconds(WINDOW) \in Nat
                BY RetryCovers
            <4> QED BY <4>1 DEF Types, HitRecord
        <3>4. ASSUME NEW r \in Requests
              PROVE  /\ req[r].pc \in {"idle", "sent", "answered", "over"}
                     /\ req[r].again \in BOOLEAN /\ req[r].allowed \in BOOLEAN
                     /\ req[r].by \in {"nobody", "script", "error"}
            <4>1. req[r] \in HitRecord
                BY DEF Types
            <4> QED BY <4>1, Zenon DEF HitRecord
        <3> QED BY <3>1, <3>2, <3>3, <3>4 DEF TypeOK
    <2>2. ASSUME NEW t \in 0 .. now
          PROVE  Cardinality({r \in LetThrough : req[r].at <= t /\ t < req[r].at + WINDOW}) <= RATE_LIMIT
        <3>1. PICK S : S = {r \in LetThrough : req[r].at <= t /\ t < req[r].at + WINDOW}
            OBVIOUS
        <3>2. S \subseteq InWindow(t)
            BY <3>1 DEF LetThrough, Admitted, InWindow
        <3>3. /\ Cardinality(S) <= Cardinality(InWindow(t)) /\ Cardinality(S) \in Nat
              /\ Cardinality(InWindow(t)) \in Nat
            BY <3>2, WindowsAreFinite, FS_Subset, FS_CardinalityType
        <3>4. Cardinality(InWindow(t)) <= RATE_LIMIT
            BY DEF WindowsAreBounded
        <3> QED BY <3>1, <3>3, <3>4
    <2>3. \A r \in LetThrough : req[r].by = "script"
        BY DEF LetThrough, Admitted
    <2> QED BY <2>1, <2>2, <2>3 DEF LimitHolds, WindowIsBounded
<1> QED BY <1>1, LimiterInvariant, PTL

(* rate-limiter.service.ts, SLIDING_WINDOW_SCRIPT: a request is refused    *)
(* only when the window that ends now holds RATE_LIMIT entries, and one    *)
(* that waits for its Retry-After is refused again only if the script has  *)
(* admitted somebody since.                                                *)
THEOREM RefusalsStayFair == Spec => RefusalsAreFair
<1>1. LimiterInv /\ [Next]_vars => [RetryAfterSuffices /\ RefusedOnlyWhenFull]_vars
    <2> SUFFICES ASSUME LimiterInv, [Next]_vars PROVE RetryAfterSuffices /\ RefusedOnlyWhenFull
        OBVIOUS
    <2> USE RateLimiterAssumption DEF LimiterInv
    <2>1. ASSUME NEW q \in Requests, RefusesNow(q)
          PROVE  Cardinality(InWindow(now)) = RATE_LIMIT
        <3>0. req \in [Requests -> HitRecord] /\ req[q].pc = "sent" /\ req'[q].pc = "answered"
              /\ ~req'[q].allowed
            BY <2>1 DEF RefusesNow, Types
        <3>1. ASSUME NEW r \in Requests, Hit(r) \/ Resend(r) \/ Answer(r) \/ Fail(r)
              PROVE  req'[q].pc # "answered" \/ req'[q] = req[q]
            BY <3>0, <3>1 DEF Hit, Resend, Answer, Fail, Refused, HitRecord
        <3>2. PICK r \in Requests : Script(r)
            BY <3>0, <3>1 DEF Next, Tick, vars
        <3>3. r = q
            BY <3>0, <3>2 DEF Script
        <3>4. ~HasRoom(Trimmed(Live))
            BY <3>0, <3>2, <3>3 DEF Script, HitRecord
        <3>5. Cardinality(InWindow(now)) >= RATE_LIMIT
            BY <3>4, ScriptCounts, WindowsAreFinite DEF HasRoom
        <3>6. Cardinality(InWindow(now)) <= RATE_LIMIT
            BY DEF WindowsAreBounded, Types
        <3> QED BY <3>5, <3>6, WindowsAreFinite
    <2>2. RefusedOnlyWhenFull
        <3>1. {r \in Requests : req[r].entry > 0 /\ now < req[r].entry + WINDOW} = InWindow(now)
            BY DEF InWindow, Types
        <3> QED BY <2>1, <3>1 DEF RefusedOnlyWhenFull
    <2>3. RetryAfterSuffices
        <3> SUFFICES ASSUME NEW p \in Requests, NEW q \in Requests,
                            ~req[p].allowed, req[p].by = "script",
                            now >= req[p].at + req[p].retry * SECOND, RefusesNow(q),
                            \A r \in Requests : ~(req[r].entry > req[p].at)
                     PROVE  FALSE
            BY DEF RetryAfterSuffices
        <3>1. PICK r \in Requests : /\ r \in InWindow(req[p].at)
                                    /\ req[r].entry + WINDOW <= req[p].at + req[p].retry * SECOND
            BY DEF Refusals, RefusedByScript
        <3>2. /\ req[p].at \in Nat /\ req[p].retry \in Nat /\ req[p].at <= now /\ now \in Nat
              /\ \A x \in Requests : req[x].entry \in Nat /\ req[x].entry <= req[p].at
            BY DEF Types, HitRecord
        <3>3. req[p].retry * SECOND \in Nat
            BY <3>2
        <3>4. r \notin InWindow(now)
            BY <3>1, <3>2, <3>3 DEF InWindow
        <3>5. InWindow(now) \subseteq InWindow(req[p].at)
            BY <3>2 DEF InWindow
        <3>6. /\ Cardinality(InWindow(now)) <= Cardinality(InWindow(req[p].at))
              /\ Cardinality(InWindow(now)) # Cardinality(InWindow(req[p].at))
            BY <3>1, <3>4, <3>5, WindowsAreFinite, FS_Subset
        <3>7. Cardinality(InWindow(req[p].at)) <= RATE_LIMIT
            BY <3>2 DEF WindowsAreBounded
        <3> QED BY <2>1, <3>6, <3>7, WindowsAreFinite
    <2> QED BY <2>2, <2>3
<1> QED BY <1>1, LimiterInvariant, PTL DEF Spec, RefusalsAreFair

-----------------------------------------------------------------------------
(* POST: the records, the rows and the answers                             *)

PostRecord ==
    [pc : {"idle", "creating", "created", "over"}, at : Instances \cup {None},
     key : Keys \cup {None}, body : Post!Bodies \cup {None}, id : Nat,
     status : {0, 201, 422, 500}, replay : BOOLEAN]

(* The rows P are numbered from 1 and no name is in two of them.           *)
RowsOK(P) ==
    /\ \E n \in Nat : DOMAIN P = 1..n
    /\ \A n \in DOMAIN P : P[n] \in Contents
    /\ \A m, n \in DOMAIN P : NameOf[P[m]] = NameOf[P[n]] => m = n

(* Requests that may still insert a row.                                   *)
Waiting(Q) == {r \in Posts : Q[r].pc \in {"idle", "creating"}}

(* A row for every request that is past its INSERT, at most.               *)
CountOK(P, Q) == Cardinality(DOMAIN P) + Cardinality(Waiting(Q)) <= Cardinality(Posts)

(* What a request knows of the rows.                                       *)
RequestOK(q, P) ==
    /\ q.pc # "idle" => q.at \in Instances /\ q.key \in Keys /\ q.body \in Post!Bodies
    /\ q.pc # "over" => q.status = 0 /\ ~q.replay
    /\ q.pc \in {"idle", "creating"} => q.id = 0
    /\ q.id \in DOMAIN P \cup {0}
    /\ q.pc = "created" \/ q.status = 201 => q.id \in DOMAIN P /\ P[q.id] = q.body.says
    /\ q.replay => q.status = 201

(* The request has made its product itself.                                *)
Claims(q) == q.pc = "created" \/ (q.status = 201 /\ ~q.replay)

ClaimsOK(Q) == \A p, q \in Posts : Claims(Q[p]) /\ Claims(Q[q]) /\ Q[p].id = Q[q].id => p = q

(* A record was left by a request that was answered with 201.              *)
LeftBy(rec, i, k, q) ==
    /\ q.status = 201 /\ q.at = i /\ q.key = k
    /\ rec.fingerprint = q.body.says /\ rec.response = q.id

RecordSet == [fingerprint : Contents, response : Nat]

RecordsOK(R, Q) ==
    /\ R \in [Instances -> [Keys -> RecordSet \cup {None}]]
    /\ \A i \in Instances, k \in Keys : R[i][k] # None => \E r \in Posts : LeftBy(R[i][k], i, k, Q[r])

(* While no instance has restarted, an answered key has its record.        *)
KeptOK(R, Q) == \A r \in Posts : Q[r].status = 201 => R[Q[r].at][Q[r].key] # None

PostInv ==
    /\ RowsOK(products) /\ CountOK(products, posted)
    /\ posted \in [Posts -> PostRecord]
    /\ \A r \in Posts : RequestOK(posted[r], products)
    /\ ClaimsOK(posted)
    /\ RecordsOK(records, posted)
    /\ restarts \in 0..MaxRestarts
    /\ restarts = 0 => KeptOK(records, posted)

LEMMA PostAssumed ==
    /\ IsFiniteSet(Posts) /\ None \notin Instances /\ None \notin Keys /\ None \notin RecordSet
    /\ MaxRestarts \in Nat
BY ProductsAssumption DEF Post!ProductIdempotencyAssumption, Post!IsFiniteSet, IsFiniteSet, RecordSet

LEMMA WaitingFinite ==
    ASSUME NEW Q
    PROVE  /\ IsFiniteSet(Waiting(Q)) /\ Cardinality(Waiting(Q)) \in Nat
           /\ Cardinality(Waiting(Q)) <= Cardinality(Posts) /\ Cardinality(Posts) \in Nat
BY PostAssumed, FS_Subset, FS_CardinalityType DEF Waiting

LEMMA RowsFinite ==
    ASSUME NEW P, NEW n \in Nat, DOMAIN P = 1..n
    PROVE  IsFiniteSet(DOMAIN P) /\ Cardinality(DOMAIN P) = n
BY FS_Interval

LEMMA PostStart == Post!Init => PostInv
<1> SUFFICES ASSUME Post!Init PROVE PostInv
    OBVIOUS
<1>1. DOMAIN products = 1..0
    BY DEF Post!Init
<1>2. RowsOK(products)
    BY <1>1 DEF RowsOK
<1>3. CountOK(products, posted)
    BY <1>1, RowsFinite, WaitingFinite DEF CountOK
<1>4. /\ Post!NotSent \in PostRecord /\ Post!NotSent.pc = "idle" /\ Post!NotSent.at = None
      /\ Post!NotSent.id = 0 /\ Post!NotSent.status = 0 /\ Post!NotSent.replay = FALSE
    BY DEF Post!NotSent, PostRecord
<1>5. posted \in [Posts -> PostRecord] /\ \A r \in Posts : posted[r] = Post!NotSent
    BY <1>4 DEF Post!Init
<1>6. /\ \A r \in Posts : RequestOK(posted[r], products)
      /\ ClaimsOK(posted)
    BY <1>4, <1>5 DEF RequestOK, ClaimsOK, Claims
<1>7. RecordsOK(records, posted)
    BY DEF Post!Init, RecordsOK
<1>8. KeptOK(records, posted)
    BY <1>4, <1>5 DEF KeptOK
<1> QED BY <1>2, <1>3, <1>5, <1>6, <1>7, <1>8, PostAssumed DEF PostInv, Post!Init

(* A request gets the answer v, or a state before it, and the rows stay:   *)
(* what the records say and what is claimed stays, too.                    *)
LEMMA PostMoves ==
    ASSUME PostInv, NEW r \in Posts, NEW v \in PostRecord, posted' = [posted EXCEPT ![r] = v],
           UNCHANGED <<products, restarts>>,
           posted[r].pc \in {"idle", "creating"} \/ v.pc \notin {"idle", "creating"},
           posted[r].status # 201, RequestOK(v, products),
           Claims(v) => Claims(posted[r]) /\ v.id = posted[r].id
    PROVE  /\ RowsOK(products') /\ CountOK(products', posted')
           /\ posted' \in [Posts -> PostRecord]
           /\ \A q \in Posts : RequestOK(posted'[q], products')
           /\ ClaimsOK(posted') /\ restarts' \in 0..MaxRestarts
           /\ RecordsOK(records, posted')
<1>1. posted \in [Posts -> PostRecord] /\ posted' \in [Posts -> PostRecord]
    BY DEF PostInv
<1>2. \A q \in Posts : posted'[q] = IF q = r THEN v ELSE posted[q]
    BY <1>1
<1>3. Waiting(posted') \subseteq Waiting(posted)
    BY <1>2 DEF Waiting
<1>4. Cardinality(Waiting(posted')) <= Cardinality(Waiting(posted))
    BY <1>3, WaitingFinite, FS_Subset
<1>5. CountOK(products', posted')
    <2>1. PICK n \in Nat : DOMAIN products = 1..n
        BY DEF PostInv, RowsOK
    <2>2. Cardinality(DOMAIN products) \in Nat
        BY <2>1, RowsFinite
    <2>3. CountOK(products, posted)
        BY DEF PostInv
    <2>4. CountOK(products, posted')
        BY <1>4, <2>2, <2>3, WaitingFinite DEF CountOK
    <2> QED BY <2>4
<1>6. \A q \in Posts : RequestOK(posted'[q], products)
    BY <1>2 DEF PostInv
<1>7. ClaimsOK(posted')
    BY <1>2 DEF PostInv, ClaimsOK
<1>8. ASSUME NEW i \in Instances, NEW k \in Keys, records[i][k] # None
      PROVE  \E q \in Posts : LeftBy(records[i][k], i, k, posted'[q])
    <2>1. PICK q \in Posts : LeftBy(records[i][k], i, k, posted[q])
        BY <1>8 DEF PostInv, RecordsOK
    <2>2. q # r
        BY <2>1 DEF LeftBy
    <2> QED BY <1>2, <2>1, <2>2
<1>9. RecordsOK(records, posted')
    BY <1>8 DEF PostInv, RecordsOK
<1> QED BY <1>1, <1>5, <1>6, <1>7, <1>9 DEF PostInv

(* A record names a row made from what its fingerprint is of.              *)
LEMMA RecordIsTrue ==
    ASSUME PostInv, NEW i \in Instances, NEW k \in Keys, records[i][k] # None
    PROVE  /\ records[i][k] \in RecordSet
           /\ records[i][k].response \in DOMAIN products
           /\ products[records[i][k].response] = records[i][k].fingerprint
<1>1. records[i][k] \in RecordSet
    BY DEF PostInv, RecordsOK
<1>2. PICK r \in Posts : LeftBy(records[i][k], i, k, posted[r])
    BY DEF PostInv, RecordsOK
<1>3. RequestOK(posted[r], products)
    BY DEF PostInv
<1> QED BY <1>1, <1>2, <1>3 DEF LeftBy, RequestOK

Sent(i, k, b) ==
    [Post!NotSent EXCEPT !.pc = "creating", !.at = i, !.key = k, !.body = b]

LEMMA SentFields ==
    ASSUME NEW i \in Instances, NEW k \in Keys, NEW b \in Post!Bodies
    PROVE  /\ Sent(i, k, b) \in PostRecord /\ Sent(i, k, b).pc = "creating"
           /\ Sent(i, k, b).at = i /\ Sent(i, k, b).key = k /\ Sent(i, k, b).body = b
           /\ Sent(i, k, b).id = 0 /\ Sent(i, k, b).status = 0 /\ ~Sent(i, k, b).replay
BY DEF Sent, Post!NotSent, PostRecord

(* A created product, one of a record, and an answer without a product.    *)
Again(q, id) == Post!Answered(q, id, 201, TRUE)

LEMMA AnsweredAgain ==
    ASSUME NEW q \in PostRecord, NEW id, id \in Nat
    PROVE  /\ Again(q, id) \in PostRecord /\ Again(q, id).pc = "over"
           /\ Again(q, id).at = q.at /\ Again(q, id).key = q.key
           /\ Again(q, id).body = q.body /\ Again(q, id).id = id
           /\ Again(q, id).status = 201 /\ Again(q, id).replay
<1>1. PICK v : v = Again(q, id)
    OBVIOUS
<1>2. v = [q EXCEPT !.pc = "over", !.id = id, !.status = 201, !.replay = TRUE]
    BY <1>1 DEF Again, Post!Answered
<1>3. v \in PostRecord
    <2>1. /\ q.at \in Instances \cup {None} /\ q.key \in Keys \cup {None}
          /\ q.body \in Post!Bodies \cup {None}
        BY DEF PostRecord
    <2>2. v = [pc |-> "over", at |-> q.at, key |-> q.key, body |-> q.body,
               id |-> id, status |-> 201, replay |-> TRUE]
        BY <1>2 DEF PostRecord
    <2> QED BY <2>1, <2>2 DEF PostRecord
<1>4. v.pc = "over" /\ v.at = q.at
    BY <1>2 DEF PostRecord
<1>5. v.key = q.key /\ v.body = q.body
    BY <1>2 DEF PostRecord
<1>6. v.id = id
    BY <1>2 DEF PostRecord
<1>7. v.status = 201
    BY <1>2 DEF PostRecord
<1>8. v.replay
    BY <1>2 DEF PostRecord
<1> QED BY <1>1, <1>3, <1>4, <1>5, <1>6, <1>7, <1>8

Anew(q, id) == Post!Answered(q, id, 201, FALSE)

LEMMA AnsweredAnew ==
    ASSUME NEW q \in PostRecord, NEW id, id \in Nat
    PROVE  /\ Anew(q, id) \in PostRecord /\ Anew(q, id).pc = "over"
           /\ Anew(q, id).at = q.at /\ Anew(q, id).key = q.key
           /\ Anew(q, id).body = q.body /\ Anew(q, id).id = id
           /\ Anew(q, id).status = 201 /\ ~Anew(q, id).replay
<1>1. PICK v : v = Anew(q, id)
    OBVIOUS
<1>2. v = [q EXCEPT !.pc = "over", !.id = id, !.status = 201, !.replay = FALSE]
    BY <1>1 DEF Anew, Post!Answered
<1>3. v \in PostRecord
    <2>1. /\ q.at \in Instances \cup {None} /\ q.key \in Keys \cup {None}
          /\ q.body \in Post!Bodies \cup {None}
        BY DEF PostRecord
    <2>2. v = [pc |-> "over", at |-> q.at, key |-> q.key, body |-> q.body,
               id |-> id, status |-> 201, replay |-> FALSE]
        BY <1>2 DEF PostRecord
    <2> QED BY <2>1, <2>2 DEF PostRecord
<1>4. v.pc = "over" /\ v.at = q.at
    BY <1>2 DEF PostRecord
<1>5. v.key = q.key /\ v.body = q.body
    BY <1>2 DEF PostRecord
<1>6. v.id = id
    BY <1>2 DEF PostRecord
<1>7. v.status = 201
    BY <1>2 DEF PostRecord
<1>8. ~v.replay
    BY <1>2 DEF PostRecord
<1> QED BY <1>1, <1>3, <1>4, <1>5, <1>6, <1>7, <1>8

NotCreated(q, s) == Post!Answered(q, 0, s, FALSE)

LEMMA AnsweredNot ==
    ASSUME NEW q \in PostRecord, NEW s, s \in {0, 422, 500}
    PROVE  /\ NotCreated(q, s) \in PostRecord /\ NotCreated(q, s).pc = "over"
           /\ NotCreated(q, s).at = q.at /\ NotCreated(q, s).key = q.key
           /\ NotCreated(q, s).body = q.body /\ NotCreated(q, s).id = 0
           /\ NotCreated(q, s).status = s /\ ~NotCreated(q, s).replay
<1>1. PICK v : v = NotCreated(q, s)
    OBVIOUS
<1>2. v = [q EXCEPT !.pc = "over", !.id = 0, !.status = s, !.replay = FALSE]
    BY <1>1 DEF NotCreated, Post!Answered
<1>3. v \in PostRecord
    <2>1. /\ q.at \in Instances \cup {None} /\ q.key \in Keys \cup {None}
          /\ q.body \in Post!Bodies \cup {None}
        BY DEF PostRecord
    <2>2. v = [pc |-> "over", at |-> q.at, key |-> q.key, body |-> q.body,
               id |-> 0, status |-> s, replay |-> FALSE]
        BY <1>2 DEF PostRecord
    <2> QED BY <2>1, <2>2 DEF PostRecord
<1>4. v.pc = "over" /\ v.at = q.at
    BY <1>2 DEF PostRecord
<1>5. v.key = q.key /\ v.body = q.body
    BY <1>2 DEF PostRecord
<1>6. v.id = 0
    BY <1>2 DEF PostRecord
<1>7. v.status = s
    BY <1>2 DEF PostRecord
<1>8. ~v.replay
    BY <1>2 DEF PostRecord
<1> QED BY <1>1, <1>3, <1>4, <1>5, <1>6, <1>7, <1>8

(* What a request is after Receive.                                        *)
LEMMA Received ==
    ASSUME PostInv, NEW r \in Posts, NEW i \in Instances, NEW k \in Keys, NEW b \in Post!Bodies,
           Post!Receive(r, i, k, b)
    PROVE  \E v \in PostRecord :
              /\ posted' = [posted EXCEPT ![r] = v]
              /\ v.at = i /\ v.key = k /\ v.body = b /\ v.pc \in {"creating", "over"}
              /\ RequestOK(v, products)
              /\ v.pc = "creating" => records[i][k] = None /\ v.status = 0
              /\ v.pc = "over" =>
                    /\ records[i][k] # None
                    /\ records[i][k].fingerprint = b.says =>
                          v.status = 201 /\ v.replay /\ v.id = records[i][k].response
                    /\ records[i][k].fingerprint # b.says => v.status = 422 /\ ~v.replay
<1>1. PICK q : q = Sent(i, k, b)
    OBVIOUS
<1>2. /\ q \in PostRecord /\ q.pc = "creating" /\ q.at = i /\ q.key = k /\ q.body = b
      /\ q.id = 0 /\ q.status = 0 /\ ~q.replay
    BY <1>1, SentFields
<1>3. posted' = [posted EXCEPT ![r] = IF records[i][k] = None THEN q
                                      ELSE Post!FromRecord(q, records[i][k])]
    BY <1>1 DEF Post!Receive, Sent
<1>4. CASE records[i][k] = None
    <2>1. RequestOK(q, products)
        BY <1>2 DEF RequestOK
    <2>2. posted' = [posted EXCEPT ![r] = q]
        BY <1>3, <1>4
    <2> QED BY <1>2, <1>4, <2>1, <2>2
<1>5. CASE records[i][k] # None
    <2>1. PICK rec : rec = records[i][k]
        OBVIOUS
    <2>2. /\ rec \in RecordSet /\ rec.response \in DOMAIN products
          /\ products[rec.response] = rec.fingerprint /\ rec.response \in Nat
        BY <1>5, <2>1, RecordIsTrue DEF RecordSet
    <2>3. PICK v : v = Post!FromRecord(q, rec)
        OBVIOUS
    <2>4. posted' = [posted EXCEPT ![r] = v]
        BY <1>3, <1>5, <2>1, <2>3
    <2>5. CASE rec.fingerprint = b.says
        <3>1. v = Again(q, rec.response)
            BY <1>2, <2>3, <2>5 DEF Again, Post!FromRecord, Post!createFingerprint
        <3>2. /\ v \in PostRecord /\ v.pc = "over" /\ v.at = i /\ v.key = k /\ v.body = b
              /\ v.id = rec.response /\ v.status = 201 /\ v.replay
            BY <1>2, <2>2, <3>1, AnsweredAgain
        <3>3. RequestOK(v, products)
            BY <2>2, <2>5, <3>2 DEF RequestOK
        <3> QED BY <1>5, <2>1, <2>4, <2>5, <3>2, <3>3
    <2>6. CASE rec.fingerprint # b.says
        <3>1. v = NotCreated(q, 422)
            BY <1>2, <2>3, <2>6 DEF NotCreated, Post!FromRecord, Post!createFingerprint
        <3>2. /\ v \in PostRecord /\ v.pc = "over" /\ v.at = i /\ v.key = k /\ v.body = b
              /\ v.id = 0 /\ v.status = 422 /\ ~v.replay
            BY <1>2, <3>1, AnsweredNot
        <3>3. RequestOK(v, products)
            BY <3>2 DEF RequestOK
        <3> QED BY <1>5, <2>1, <2>4, <2>6, <3>2, <3>3
    <2> QED BY <2>5, <2>6
<1> QED BY <1>4, <1>5

LEMMA ReceiveStep ==
    ASSUME PostInv, NEW r \in Posts, NEW i \in Instances, NEW k \in Keys, NEW b \in Post!Bodies,
           Post!Receive(r, i, k, b)
    PROVE  PostInv'
<1>1. UNCHANGED <<products, records, restarts>> /\ posted[r].pc = "idle"
    BY DEF Post!Receive
<1>2. PICK v \in PostRecord :
              /\ posted' = [posted EXCEPT ![r] = v]
              /\ v.at = i /\ v.key = k /\ v.body = b /\ v.pc \in {"creating", "over"}
              /\ RequestOK(v, products)
              /\ v.pc = "creating" => records[i][k] = None /\ v.status = 0
              /\ v.pc = "over" =>
                    /\ records[i][k] # None
                    /\ records[i][k].fingerprint = b.says =>
                          v.status = 201 /\ v.replay /\ v.id = records[i][k].response
                    /\ records[i][k].fingerprint # b.says => v.status = 422 /\ ~v.replay
    BY Received
<1>3. posted[r].status # 201 /\ ~Claims(v)
    BY <1>1, <1>2 DEF PostInv, RequestOK, Claims
<1>4. /\ RowsOK(products') /\ CountOK(products', posted')
      /\ posted' \in [Posts -> PostRecord]
      /\ \A q \in Posts : RequestOK(posted'[q], products')
      /\ ClaimsOK(posted') /\ restarts' \in 0..MaxRestarts
      /\ RecordsOK(records, posted')
    BY <1>1, <1>2, <1>3, PostMoves
<1>5. \A q \in Posts : posted'[q] = IF q = r THEN v ELSE posted[q]
    BY <1>2 DEF PostInv
<1>6. restarts' = 0 => KeptOK(records', posted')
    BY <1>1, <1>2, <1>5 DEF PostInv, KeptOK
<1> QED BY <1>1, <1>4, <1>6 DEF PostInv

LEMMA InsertFailsStep ==
    ASSUME PostInv, NEW r \in Posts, Post!InsertFails(r)
    PROVE  PostInv'
<1>1. /\ UNCHANGED <<products, records, restarts>> /\ posted[r].pc = "creating"
      /\ posted' = [posted EXCEPT ![r] = NotCreated(posted[r], 500)]
    BY DEF Post!InsertFails, PostInv, NotCreated
<1>2. PICK v : v = NotCreated(posted[r], 500)
    OBVIOUS
<1>3. posted[r] \in PostRecord /\ RequestOK(posted[r], products)
    BY DEF PostInv
<1>4. /\ v \in PostRecord /\ v.pc = "over" /\ v.at = posted[r].at /\ v.key = posted[r].key
      /\ v.body = posted[r].body /\ v.id = 0 /\ v.status = 500 /\ ~v.replay
    BY <1>2, <1>3, AnsweredNot
<1>5. posted[r].status # 201 /\ ~Claims(v) /\ RequestOK(v, products)
    BY <1>1, <1>3, <1>4 DEF RequestOK, Claims
<1>6. /\ RowsOK(products') /\ CountOK(products', posted')
      /\ posted' \in [Posts -> PostRecord]
      /\ \A q \in Posts : RequestOK(posted'[q], products')
      /\ ClaimsOK(posted') /\ restarts' \in 0..MaxRestarts
      /\ RecordsOK(records, posted')
    <2>1. posted' = [posted EXCEPT ![r] = v]
        BY <1>1, <1>2
    <2>2. v \in PostRecord /\ UNCHANGED <<products, restarts>>
        BY <1>1, <1>4
    <2>3. posted[r].pc \in {"idle", "creating"} \/ v.pc \notin {"idle", "creating"}
        BY <1>1
    <2>4. Claims(v) => Claims(posted[r]) /\ v.id = posted[r].id
        BY <1>5
    <2> QED BY <1>5, <2>1, <2>2, <2>3, <2>4, PostMoves
<1>7. \A q \in Posts : posted'[q] = IF q = r THEN v ELSE posted[q]
    BY <1>1, <1>2 DEF PostInv
<1>8. restarts' = 0 => KeptOK(records', posted')
    <2> SUFFICES ASSUME KeptOK(records, posted) PROVE KeptOK(records, posted')
        BY <1>1 DEF PostInv
    <2> QED BY <1>4, <1>7 DEF KeptOK
<1> QED BY <1>1, <1>6, <1>8 DEF PostInv

(* The INSERT: a new row, and one request less that may insert.            *)
LEMMA InsertStep ==
    ASSUME PostInv, NEW r \in Posts, Post!Insert(r)
    PROVE  PostInv'
<1>1. PICK n \in Nat : DOMAIN products = 1..n
    BY DEF PostInv, RowsOK
<1>2. /\ IsFiniteSet(DOMAIN products) /\ Cardinality(DOMAIN products) = n
      /\ Post!Cardinality(DOMAIN products) = n
    BY <1>1, RowsFinite DEF Post!Cardinality, Cardinality
<1>3. PICK id : id = n + 1
    OBVIOUS
<1>4. PICK c : c = posted[r].body.says
    OBVIOUS
<1>5. /\ posted[r].pc = "creating" /\ UNCHANGED <<records, restarts>>
      /\ products' = [x \in DOMAIN products \cup {id} |-> IF x = id THEN c ELSE products[x]]
      /\ posted' = [posted EXCEPT ![r].pc = "created", ![r].id = id]
      /\ \A x \in DOMAIN products : NameOf[products[x]] # NameOf[c]
    BY <1>2, <1>3, <1>4 DEF Post!Insert, Post!NameIsFree
<1>6. /\ id \in Nat \ {0} /\ id \notin DOMAIN products /\ DOMAIN products' = 1..id
    BY <1>1, <1>3, <1>5
<1>7. posted[r] \in PostRecord /\ RequestOK(posted[r], products)
    BY DEF PostInv
<1>8. c \in Contents
    BY <1>4, <1>5, <1>7 DEF RequestOK, Post!Bodies
<1>9. products'[id] = c /\ \A x \in DOMAIN products : products'[x] = products[x]
    BY <1>5, <1>6
<1>10. RowsOK(products')
    <2>1. \A x \in DOMAIN products' : x = id \/ x \in DOMAIN products
        BY <1>5
    <2>2. \A x \in DOMAIN products' : products'[x] \in Contents
        BY <1>8, <1>9, <2>1 DEF PostInv, RowsOK
    <2>3. \A x, y \in DOMAIN products' : NameOf[products'[x]] = NameOf[products'[y]] => x = y
        BY <1>5, <1>9, <2>1 DEF PostInv, RowsOK
    <2> QED BY <1>6, <2>2, <2>3 DEF RowsOK
<1>11. PICK v : v = [posted[r] EXCEPT !.pc = "created", !.id = id]
    OBVIOUS
<1>12. /\ v \in PostRecord /\ v.pc = "created" /\ v.id = id /\ v.at = posted[r].at
       /\ v.key = posted[r].key /\ v.body = posted[r].body /\ v.status = 0 /\ ~v.replay
    <2>1. /\ posted[r].status = 0 /\ ~posted[r].replay /\ id \in Nat
        BY <1>5, <1>6, <1>7 DEF RequestOK
    <2>2. v \in PostRecord
        <3>1. /\ posted[r].at \in Instances \cup {None} /\ posted[r].key \in Keys \cup {None}
              /\ posted[r].body \in Post!Bodies \cup {None} /\ posted[r].replay \in BOOLEAN
              /\ posted[r].status \in {0, 201, 422, 500}
            BY <1>7 DEF PostRecord
        <3>2. v = [pc |-> "created", at |-> posted[r].at, key |-> posted[r].key,
                   body |-> posted[r].body, id |-> id, status |-> posted[r].status,
                   replay |-> posted[r].replay]
            BY <1>7, <1>11 DEF PostRecord
        <3> QED BY <2>1, <3>1, <3>2 DEF PostRecord
    <2>3. v.pc = "created" /\ v.id = id
        BY <1>7, <1>11 DEF PostRecord
    <2>4. v.at = posted[r].at /\ v.key = posted[r].key /\ v.body = posted[r].body
        BY <1>7, <1>11 DEF PostRecord
    <2>5. v.status = 0
        BY <1>7, <1>11, <2>1 DEF PostRecord
    <2>6. ~v.replay
        BY <1>7, <1>11, <2>1 DEF PostRecord
    <2> QED BY <2>2, <2>3, <2>4, <2>5, <2>6
<1>13. /\ posted' \in [Posts -> PostRecord]
       /\ \A q \in Posts : posted'[q] = IF q = r THEN v ELSE posted[q]
    BY <1>5, <1>11, <1>12 DEF PostInv
<1>14. \A q \in Posts : RequestOK(posted'[q], products')
    <2>1. RequestOK(v, products')
        BY <1>4, <1>5, <1>6, <1>7, <1>9, <1>12 DEF RequestOK
    <2>2. \A q \in Posts : RequestOK(posted[q], products')
        BY <1>5, <1>9 DEF PostInv, RequestOK
    <2> QED BY <1>13, <2>1, <2>2
<1>15. ClaimsOK(posted')
    <2>1. \A q \in Posts : Claims(posted[q]) => posted[q].id # id
        BY <1>6 DEF PostInv, RequestOK, Claims
    <2> QED BY <1>12, <1>13, <2>1 DEF PostInv, ClaimsOK
<1>16. CountOK(products', posted')
    <2>1. Waiting(posted') = Waiting(posted) \ {r} /\ r \in Waiting(posted)
        BY <1>5, <1>12, <1>13 DEF Waiting
    <2>2. Cardinality(Waiting(posted')) = Cardinality(Waiting(posted)) - 1
        BY <2>1, WaitingFinite, FS_RemoveElement
    <2>3. Cardinality(DOMAIN products') = n + 1
        BY <1>3, <1>6, RowsFinite
    <2>4. n + Cardinality(Waiting(posted)) <= Cardinality(Posts)
        BY <1>2 DEF PostInv, CountOK
    <2>5. n + 1 + Cardinality(Waiting(posted')) <= Cardinality(Posts)
        BY <2>2, <2>4, WaitingFinite
    <2> QED BY <2>3, <2>5 DEF CountOK
<1>17. RecordsOK(records', posted')
    <2>1. ASSUME NEW i \in Instances, NEW k \in Keys, records[i][k] # None
          PROVE  \E q \in Posts : LeftBy(records[i][k], i, k, posted'[q])
        <3>1. PICK q \in Posts : LeftBy(records[i][k], i, k, posted[q])
            BY <2>1 DEF PostInv, RecordsOK
        <3>2. q # r
            BY <1>5, <1>7, <3>1 DEF LeftBy, RequestOK
        <3> QED BY <1>13, <3>1, <3>2
    <2>2. RecordsOK(records, posted')
        BY <2>1 DEF PostInv, RecordsOK
    <2> QED BY <1>5, <2>2
<1>18. restarts' = 0 => KeptOK(records', posted')
    <2> SUFFICES ASSUME KeptOK(records, posted) PROVE KeptOK(records, posted')
        BY <1>5 DEF PostInv
    <2>1. v.status # 201
        BY <1>5, <1>7, <1>12 DEF RequestOK
    <2> QED BY <1>13, <2>1 DEF KeptOK
<1>19. restarts' \in 0..MaxRestarts
    BY <1>5 DEF PostInv
<1> QED BY <1>10, <1>13, <1>14, <1>15, <1>16, <1>17, <1>18, <1>19 DEF PostInv

(* The rest of handleIdempotency: the record and its answer.               *)
LEMMA SaveStep ==
    ASSUME PostInv, NEW r \in Posts, Post!Save(r)
    PROVE  PostInv'
<1>1. PICK v : v = Anew(posted[r], posted[r].id)
    OBVIOUS
<1>2. PICK rec : rec = [fingerprint |-> posted[r].body.says, response |-> posted[r].id]
    OBVIOUS
<1>3. PICK i, k : i = posted[r].at /\ k = posted[r].key
    OBVIOUS
<1>4. posted[r] \in PostRecord /\ RequestOK(posted[r], products)
    BY DEF PostInv
<1>5. /\ posted[r].pc = "created" /\ UNCHANGED <<products, restarts>>
      /\ records' = [records EXCEPT ![i][k] = rec]
      /\ posted' = [posted EXCEPT ![r] = v]
    BY <1>1, <1>2, <1>3 DEF Post!Save, Post!NewRecord, Post!createFingerprint, Anew, PostInv
<1>6. /\ i \in Instances /\ k \in Keys /\ posted[r].body \in Post!Bodies
      /\ posted[r].id \in DOMAIN products /\ products[posted[r].id] = posted[r].body.says
      /\ posted[r].status = 0 /\ posted[r].id \in Nat
    BY <1>3, <1>4, <1>5 DEF RequestOK, PostRecord
<1>7. /\ v \in PostRecord /\ v.pc = "over" /\ v.at = i /\ v.key = k
      /\ v.body = posted[r].body /\ v.id = posted[r].id /\ v.status = 201 /\ ~v.replay
    BY <1>1, <1>3, <1>4, <1>6, AnsweredAnew
<1>8. rec \in RecordSet /\ rec # None /\ LeftBy(rec, i, k, v)
    BY <1>2, <1>6, <1>7, PostAssumed DEF RecordSet, LeftBy, Post!Bodies
<1>9. RequestOK(v, products) /\ (Claims(v) => Claims(posted[r]) /\ v.id = posted[r].id)
    BY <1>5, <1>6, <1>7 DEF RequestOK, Claims
<1>10. /\ RowsOK(products') /\ CountOK(products', posted')
       /\ posted' \in [Posts -> PostRecord]
       /\ \A q \in Posts : RequestOK(posted'[q], products')
       /\ ClaimsOK(posted') /\ restarts' \in 0..MaxRestarts
       /\ RecordsOK(records, posted')
    <2>1. v \in PostRecord /\ UNCHANGED <<products, restarts>> /\ posted' = [posted EXCEPT ![r] = v]
        BY <1>5, <1>7
    <2>2. posted[r].pc \in {"idle", "creating"} \/ v.pc \notin {"idle", "creating"}
        BY <1>7
    <2>3. posted[r].status # 201
        BY <1>6
    <2> QED BY <1>9, <2>1, <2>2, <2>3, PostMoves
<1>11. \A q \in Posts : posted'[q] = IF q = r THEN v ELSE posted[q]
    BY <1>5 DEF PostInv
<1>12. /\ records' \in [Instances -> [Keys -> RecordSet \cup {None}]]
       /\ \A j \in Instances, l \in Keys :
             records'[j][l] = IF j = i /\ l = k THEN rec ELSE records[j][l]
    BY <1>5, <1>6, <1>8 DEF PostInv, RecordsOK
<1>13. RecordsOK(records', posted')
    <2>1. ASSUME NEW j \in Instances, NEW l \in Keys, records'[j][l] # None
          PROVE  \E q \in Posts : LeftBy(records'[j][l], j, l, posted'[q])
        <3>1. CASE j = i /\ l = k
            BY <1>8, <1>11, <1>12, <3>1
        <3>2. CASE ~(j = i /\ l = k)
            BY <1>10, <1>12, <2>1, <3>2 DEF RecordsOK
        <3> QED BY <3>1, <3>2
    <2> QED BY <1>12, <2>1 DEF RecordsOK
<1>14. restarts' = 0 => KeptOK(records', posted')
    <2> SUFFICES ASSUME KeptOK(records, posted) PROVE KeptOK(records', posted')
        BY <1>5 DEF PostInv
    <2>1. ASSUME NEW q \in Posts, posted'[q].status = 201
          PROVE  records'[posted'[q].at][posted'[q].key] # None
        <3>1. posted'[q].at \in Instances /\ posted'[q].key \in Keys
            BY <1>10, <2>1 DEF RequestOK
        <3>2. CASE q = r
            BY <1>6, <1>7, <1>8, <1>11, <1>12, <3>2
        <3>3. CASE q # r
            BY <1>8, <1>11, <1>12, <2>1, <3>1, <3>3 DEF KeptOK
        <3> QED BY <3>2, <3>3
    <2> QED BY <2>1 DEF KeptOK
<1> QED BY <1>10, <1>13, <1>14 DEF PostInv

(* A restart: the records of an instance and its open requests are gone.   *)
LEMMA PostRestartStep ==
    ASSUME PostInv, NEW i \in Instances, Post!Restart(i)
    PROVE  PostInv'
<1> DEFINE Gone(q) == q.at = i /\ q.pc \in {"creating", "created"}
<1>1. /\ restarts < MaxRestarts /\ restarts' = restarts + 1 /\ UNCHANGED products
      /\ records' = [records EXCEPT ![i] = [k \in Keys |-> None]]
      /\ posted' = [r \in Posts |-> IF Gone(posted[r]) THEN NotCreated(posted[r], 0) ELSE posted[r]]
    BY DEF Post!Restart, NotCreated
<1>2. restarts' \in 0..MaxRestarts /\ restarts' # 0
    <2>1. restarts \in 0..MaxRestarts
        BY DEF PostInv
    <2> QED BY <1>1, <2>1, PostAssumed
<1>3. ASSUME NEW r \in Posts, Gone(posted[r])
      PROVE  /\ posted'[r] = NotCreated(posted[r], 0) /\ posted'[r] \in PostRecord
             /\ posted'[r].pc = "over" /\ posted'[r].at = i /\ posted'[r].status = 0
             /\ RequestOK(posted'[r], products) /\ ~Claims(posted'[r])
    <2>1. posted[r] \in PostRecord /\ RequestOK(posted[r], products)
        BY DEF PostInv
    <2>2. PICK v : v = NotCreated(posted[r], 0)
        OBVIOUS
    <2>3. /\ v \in PostRecord /\ v.pc = "over" /\ v.at = posted[r].at /\ v.key = posted[r].key
          /\ v.body = posted[r].body /\ v.id = 0 /\ v.status = 0 /\ ~v.replay
        BY <2>1, <2>2, AnsweredNot
    <2>4. RequestOK(v, products) /\ ~Claims(v)
        BY <1>3, <2>1, <2>3 DEF RequestOK, Claims
    <2> QED BY <1>1, <1>3, <2>2, <2>3, <2>4
<1>4. \A r \in Posts : ~Gone(posted[r]) => posted'[r] = posted[r]
    BY <1>1
<1> HIDE DEF Gone
<1>5. posted' \in [Posts -> PostRecord]
    <2>1. \A r \in Posts : posted'[r] \in PostRecord
        BY <1>3, <1>4 DEF PostInv
    <2> QED BY <1>1, <2>1
<1>6. \A r \in Posts : RequestOK(posted'[r], products)
    BY <1>3, <1>4 DEF PostInv
<1>7. ClaimsOK(posted')
    <2>1. \A r \in Posts : Claims(posted'[r]) => posted'[r] = posted[r]
        BY <1>3, <1>4
    <2> QED BY <2>1 DEF PostInv, ClaimsOK
<1>8. CountOK(products', posted')
    <2>1. Waiting(posted') \subseteq Waiting(posted)
        BY <1>3, <1>4 DEF Waiting
    <2>2. Cardinality(Waiting(posted')) <= Cardinality(Waiting(posted))
        BY <2>1, WaitingFinite, FS_Subset
    <2>3. PICK n \in Nat : DOMAIN products = 1..n
        BY DEF PostInv, RowsOK
    <2>4. Cardinality(DOMAIN products) \in Nat
        BY <2>3, RowsFinite
    <2>5. CountOK(products, posted)
        BY DEF PostInv
    <2>6. CountOK(products, posted')
        BY <2>2, <2>4, <2>5, WaitingFinite DEF CountOK
    <2> QED BY <1>1, <2>6
<1>9. /\ records' \in [Instances -> [Keys -> RecordSet \cup {None}]]
      /\ \A j \in Instances, k \in Keys : records'[j][k] = IF j = i THEN None ELSE records[j][k]
    BY <1>1 DEF PostInv, RecordsOK
<1>10. RecordsOK(records', posted')
    <2>1. ASSUME NEW j \in Instances, NEW k \in Keys, records'[j][k] # None
          PROVE  \E r \in Posts : LeftBy(records'[j][k], j, k, posted'[r])
        <3>1. records'[j][k] = records[j][k] /\ records[j][k] # None
            BY <1>9, <2>1
        <3>2. PICK r \in Posts : LeftBy(records[j][k], j, k, posted[r])
            BY <3>1 DEF PostInv, RecordsOK
        <3>3. ~Gone(posted[r])
            BY <3>2 DEF LeftBy, PostInv, RequestOK, Gone
        <3> QED BY <1>4, <3>1, <3>2, <3>3
    <2> QED BY <1>9, <2>1 DEF RecordsOK
<1>11. RowsOK(products') /\ \A r \in Posts : RequestOK(posted'[r], products')
    BY <1>1, <1>6 DEF PostInv
<1> QED BY <1>2, <1>5, <1>7, <1>8, <1>10, <1>11 DEF PostInv

LEMMA PostNext == ASSUME PostInv, [Post!Next]_postVars PROVE PostInv'
<1>1. CASE UNCHANGED postVars
    BY <1>1 DEF postVars, PostInv
<1>2. ASSUME NEW r \in Posts, NEW i \in Instances, NEW k \in Keys, NEW b \in Post!Bodies,
             Post!Receive(r, i, k, b)
      PROVE  PostInv'
    BY <1>2, ReceiveStep
<1>3. ASSUME NEW r \in Posts, Post!Insert(r) \/ Post!InsertFails(r) \/ Post!Save(r)
      PROVE  PostInv'
    BY <1>3, InsertStep, InsertFailsStep, SaveStep
<1>4. ASSUME NEW i \in Instances, Post!Restart(i)
      PROVE  PostInv'
    BY <1>4, PostRestartStep
<1> QED BY <1>1, <1>2, <1>3, <1>4 DEF Post!Next

LEMMA PostInvariant == ProductsSpec => []PostInv
<1>1. ProductsInit => PostInv
    BY PostStart DEF ProductsInit
<1>2. PostInv /\ [ProductsNext]_<<vars, postVars>> => PostInv'
    BY PostNext DEF ProductsNext
<1> QED BY <1>1, <1>2, PTL DEF ProductsSpec

(* For any instances, keys, requests and bodies, whatever overlaps and     *)
(* whichever instance restarts: POST /products makes at most one product   *)
(* of a name, one answer claims it, and a 201 names a product made from    *)
(* the body of its own request.                                            *)
THEOREM CreatesStayExact == ProductsSpec => []CreatesAreExact
<1>1. ASSUME PostInv PROVE CreatesAreExact
    <2>1. PICK n \in Nat : DOMAIN products = 1..n
        BY <1>1 DEF PostInv, RowsOK
    <2>2. n <= Cardinality(Posts) /\ Cardinality(Posts) \in Nat
        BY <1>1, <2>1, RowsFinite, WaitingFinite DEF PostInv, CountOK
    <2>3. \A m \in DOMAIN products : m \in 1..Post!Cardinality(Posts) /\ products[m] \in Contents
        <3>1. \A m \in 1..n : m \in 1..Cardinality(Posts)
            BY <2>2
        <3>2. Post!Cardinality(Posts) = Cardinality(Posts)
            BY DEF Post!Cardinality, Cardinality
        <3> QED BY <1>1, <2>1, <3>1, <3>2 DEF PostInv, RowsOK
    <2>4. \A i \in Instances, k \in Keys :
              records[i][k] = None \/
              (records[i][k].fingerprint \in Contents /\ records[i][k].response \in DOMAIN products)
        BY <1>1, RecordIsTrue DEF RecordSet
    <2>5. \A r \in Posts :
              /\ posted[r].pc \in {"idle", "creating", "created", "over"}
              /\ posted[r].status \in {0, 201, 422, 500} /\ posted[r].id \in DOMAIN products \cup {0}
              /\ posted[r].replay => posted[r].status = 201
        BY <1>1 DEF PostInv, PostRecord, RequestOK
    <2>6. Post!TypeOK
        BY <1>1, <2>3, <2>4, <2>5 DEF Post!TypeOK, PostInv
    <2>7. Post!OneProductPerBody
        BY <1>1 DEF Post!OneProductPerBody, PostInv, RowsOK, ClaimsOK, Claims
    <2>8. Post!AnswersMatchBodies
        BY <1>1 DEF Post!AnswersMatchBodies, PostInv, RequestOK
    <2> QED BY <2>6, <2>7, <2>8 DEF CreatesAreExact, Post!CreatesAreExact
<1> QED BY <1>1, PostInvariant, PTL

(* Only Receive takes a request out of "idle".                             *)
LEMMA OnlyReceiveStarts ==
    ASSUME PostInv, [Post!Next]_postVars, NEW q \in Posts,
           posted[q].pc = "idle", posted'[q].pc # "idle"
    PROVE  \E i \in Instances, k \in Keys, b \in Post!Bodies : Post!Receive(q, i, k, b)
<1>1. posted \in [Posts -> PostRecord]
    BY DEF PostInv
<1>2. CASE UNCHANGED postVars
    BY <1>2 DEF postVars
<1>3. ASSUME NEW r \in Posts, NEW i \in Instances, NEW k \in Keys, NEW b \in Post!Bodies,
             Post!Receive(r, i, k, b)
      PROVE  \E j \in Instances, l \in Keys, c \in Post!Bodies : Post!Receive(q, j, l, c)
    <2>1. r # q => posted'[q] = posted[q]
        BY <1>1, <1>3 DEF Post!Receive
    <2> QED BY <1>3, <2>1
<1>4. ASSUME NEW r \in Posts, Post!Insert(r) \/ Post!InsertFails(r) \/ Post!Save(r)
      PROVE  FALSE
    <2>1. r # q
        BY <1>4 DEF Post!Insert, Post!InsertFails, Post!Save
    <2>2. posted'[q] = posted[q]
        BY <1>1, <1>4, <2>1 DEF Post!Insert, Post!InsertFails, Post!Save
    <2> QED BY <2>2
<1>5. ASSUME NEW i \in Instances, Post!Restart(i)
      PROVE  FALSE
    BY <1>5 DEF Post!Restart
<1> QED BY <1>2, <1>3, <1>4, <1>5 DEF Post!Next

(* A request that comes after the 201 to its key and body, at the same     *)
(* instance, is replayed with the same product, however the requests with  *)
(* that key overlapped before, if no instance has restarted and the key    *)
(* was not used there with another body.                                   *)
THEOREM RetriesAreReplayed == ProductsSpec => LaterRetryIsReplayed
<1> DEFINE Replay ==
        \A p, q \in Posts :
          /\ posted[p].status = 201 /\ posted[q].pc = "idle" /\ posted'[q].pc # "idle"
          /\ posted'[q].at = posted[p].at /\ posted'[q].key = posted[p].key
          /\ posted'[q].body.says = posted[p].body.says
          /\ restarts = 0
          /\ \A r \in Posts : Post!SameCall(r, p) => posted[r].body.says = posted[p].body.says
          => posted'[q].replay /\ posted'[q].id = posted[p].id
<1>1. ASSUME PostInv, [ProductsNext]_<<vars, postVars>> PROVE [Replay]_postVars
    <2> SUFFICES ASSUME NEW p \in Posts, NEW q \in Posts,
                        posted[p].status = 201, posted[q].pc = "idle", posted'[q].pc # "idle",
                        posted'[q].at = posted[p].at, posted'[q].key = posted[p].key,
                        posted'[q].body.says = posted[p].body.says, restarts = 0,
                        \A r \in Posts : Post!SameCall(r, p) =>
                            posted[r].body.says = posted[p].body.says
                 PROVE  posted'[q].replay /\ posted'[q].id = posted[p].id
        OBVIOUS
    <2>1. [Post!Next]_postVars
        BY <1>1 DEF ProductsNext
    <2>2. PICK i \in Instances, k \in Keys, b \in Post!Bodies : Post!Receive(q, i, k, b)
        BY <1>1, <2>1, OnlyReceiveStarts
    <2>3. PICK v \in PostRecord :
              /\ posted' = [posted EXCEPT ![q] = v]
              /\ v.at = i /\ v.key = k /\ v.body = b /\ v.pc \in {"creating", "over"}
              /\ RequestOK(v, products)
              /\ v.pc = "creating" => records[i][k] = None /\ v.status = 0
              /\ v.pc = "over" =>
                    /\ records[i][k] # None
                    /\ records[i][k].fingerprint = b.says =>
                          v.status = 201 /\ v.replay /\ v.id = records[i][k].response
                    /\ records[i][k].fingerprint # b.says => v.status = 422 /\ ~v.replay
        BY <1>1, <2>2, Received
    <2>4. posted'[q] = v
        BY <1>1, <2>3 DEF PostInv
    <2>5. i = posted[p].at /\ k = posted[p].key /\ b.says = posted[p].body.says
        BY <2>3, <2>4
    <2>6. records[i][k] # None
        BY <1>1, <2>5 DEF PostInv, KeptOK
    <2>7. PICK r \in Posts : LeftBy(records[i][k], i, k, posted[r])
        BY <1>1, <2>6 DEF PostInv, RecordsOK
    <2>8. posted[r].body.says = posted[p].body.says
        BY <2>5, <2>7 DEF LeftBy, Post!SameCall
    <2>9. records[i][k].fingerprint = b.says /\ records[i][k].response = posted[r].id
        BY <2>5, <2>7, <2>8 DEF LeftBy
    <2>10. v.replay /\ v.id = posted[r].id
        BY <2>3, <2>6, <2>9
    <2>11. posted[r].id = posted[p].id
        <3>1. /\ posted[r].id \in DOMAIN products /\ posted[p].id \in DOMAIN products
              /\ products[posted[r].id] = products[posted[p].id]
            BY <1>1, <2>7, <2>8 DEF LeftBy, PostInv, RequestOK
        <3> QED BY <1>1, <3>1 DEF PostInv, RowsOK
    <2> QED BY <2>4, <2>10, <2>11
<1> QED BY <1>1, PostInvariant, PTL DEF ProductsSpec, LaterRetryIsReplayed, Post!LaterRetryIsReplayed, Post!vars, postVars
==============================================================================
