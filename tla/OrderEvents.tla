----------------------------- MODULE OrderEvents -----------------------------
(***************************************************************************)
(* Status changes of orders and the way their events reach clients: the    *)
(* conditional UPDATE, the in-memory bus with its bounded buffers, the SSE *)
(* streams of OrdersController with replay after Last-Event-ID, and the    *)
(* socket.io rooms of OrdersGateway.  One API process.                     *)
(*                                                                         *)
(* Of the authenticator only the verdict matters here: a token is valid    *)
(* until its user's session is revoked or expires; AccessDenylist models   *)
(* how the verdict is reached.                                             *)
(***************************************************************************)
EXTENDS Integers, Sequences, SequencesExt

CONSTANTS
    Orders, Users, Owner,       \* Owner[o], the buyer of order o
    Changers,                   \* concurrent PATCH /orders/:id/status requests
    Streams, Sockets,           \* SSE clients and socket.io clients
    UserOf,                     \* UserOf[k], the user a client is logged in as
    BUFFER_SIZE, MAX_ORDERS,
    None,
    MaxChanges, MaxCrashes      \* bounds on changes per order and restarts

EventsAssumption ==
    /\ Owner \in [Orders -> Users] /\ UserOf \in [Streams \cup Sockets -> Users]
    /\ BUFFER_SIZE \in Nat \ {0} /\ MAX_ORDERS \in Nat \ {0}
    /\ MaxChanges \in Nat /\ MaxCrashes \in Nat /\ None \notin Orders

VARIABLES
    status, committed,  \* the column, and the changes committed to it so far
    log,                \* log[o], the statuses published for o in this order
    change,             \* change[c], a change between its COMMIT and its event
    buffers,            \* the Map of OrderEventsService in insertion order
    stream, socket,     \* the clients
    gateway,            \* the concatMap queue of OrdersGateway
    revoked, expired,   \* users whose token is revoked, and whose token has expired
    mixed,              \* orders with overlapping changes or a change cut off by a crash
    crashes

busVars == <<status, committed, log, change, buffers, mixed>>
tokenVars == <<revoked, expired>>
vars == <<busVars, stream, socket, gateway, tokenVars, crashes>>

Status == {"pending", "paid", "cancelled"}
ALLOWED_PREVIOUS == [pending |-> {"paid"}, paid |-> {"pending"},
                     cancelled |-> {"pending", "paid"}]

Idle == [order |-> None, status |-> None]
NoClient == [pc |-> "closed", order |-> None, queue |-> <<>>, checking |-> FALSE, base |-> 0,
             got |-> <<>>]
NoSocket == [joining |-> None, rooms |-> {}, got |-> <<>>]
Waiting == [queue |-> <<>>, targets |-> {}, delivering |-> FALSE]

(* A client that is cut off keeps the events it has received.              *)
HungUp(x, got) == [NoClient EXCEPT !.order = x.order, !.got = got, !.base = Len(got)]
Disconnected(x) == [NoSocket EXCEPT !.got = x.got]

Init ==
    /\ status = [o \in Orders |-> "pending"]
    /\ committed = [o \in Orders |-> <<>>] /\ log = committed
    /\ change = [c \in Changers |-> Idle]
    /\ buffers = <<>>
    /\ stream = [k \in Streams |-> NoClient]
    /\ socket = [w \in Sockets |-> NoSocket]
    /\ gateway = Waiting
    /\ revoked = {} /\ expired = {} /\ mixed = {} /\ crashes = 0

-----------------------------------------------------------------------------
(* OrderStatusService.change and OrderEventsService                        *)

(* The row that UPDATE ... WHERE status IN (...) finds.                    *)
Updated(o, s) == {x \in {o} : status[x] \in ALLOWED_PREVIOUS[s]}

(* Mutant: the number of affected rows is not looked at.                   *)
AffectedAny(o, s) == TRUE

Affected(o, s) == Updated(o, s) # {}

(* The UPDATE has committed; an UPDATE without a row is a 404 or a 409.    *)
ChangeStatus(c, o, s) ==
    LET new(x) == x \in Updated(o, s) IN
    /\ change[c] = Idle /\ Affected(o, s) /\ Len(committed[o]) < MaxChanges
    /\ status' = [x \in Orders |-> IF new(x) THEN s ELSE status[x]]
    /\ committed' = [x \in Orders |-> IF new(x) THEN Append(committed[x], s) ELSE committed[x]]
    /\ change' = [change EXCEPT ![c] = [order |-> o, status |-> s]]
    /\ mixed' = mixed \cup {x \in {o} : \E d \in Changers : change[d].order = x}
    /\ UNCHANGED <<log, buffers, stream, socket, gateway, tokenVars, crashes>>

(* get and delete of the Map: an order has one entry at most.              *)
Has(o) == \E i \in 1..Len(buffers) : buffers[i].order = o
Place(o) == CHOOSE i \in 1..Len(buffers) : buffers[i].order = o
Buffer(o) == IF Has(o) THEN buffers[Place(o)].events ELSE <<>>
Without(o) == IF Has(o) THEN RemoveAt(buffers, Place(o)) ELSE buffers

LastId(b) == IF b = <<>> THEN 0 ELSE Last(b).id

(* The event carries its place n among all events of the order and whether *)
(* the owner's token was invalid when it was published.                    *)
Event(o, s) == [order |-> o, n |-> Len(log[o]) + 1, id |-> LastId(Buffer(o)) + 1,
                status |-> s, late |-> Owner[o] \in revoked \cup expired, replay |-> FALSE]

Shift(b) == IF Len(b) > BUFFER_SIZE THEN Tail(b) ELSE b

Evict(map) == IF Len(map) > MAX_ORDERS THEN Tail(map) ELSE map

(* concatMap: an event waits until the ones before it are done.            *)
Queued(q, e) == Append(q, e)

Enqueued(e) ==
    [k \in Streams |-> IF stream[k].pc \in {"open", "ended"} /\ stream[k].order = e.order
                       THEN [stream[k] EXCEPT !.queue = Queued(@, e)] ELSE stream[k]]

(* publish, synchronous from the number of the event to subject.next; with *)
(* no socket at all the gateway finds an empty room.                       *)
Publish(c) ==
    LET o == change[c].order
        e == Event(o, change[c].status) IN
    /\ o # None
    /\ log' = [log EXCEPT ![o] = Append(@, e.status)]
    /\ buffers' = Evict(Append(Without(o),
                               [order |-> o, events |-> Shift(Append(Buffer(o), e))]))
    /\ change' = [change EXCEPT ![c] = Idle]
    /\ stream' = Enqueued(e)
    /\ gateway' = IF Sockets = {} THEN gateway ELSE [gateway EXCEPT !.queue = Queued(@, e)]
    /\ UNCHANGED <<status, committed, socket, tokenVars, mixed, crashes>>

-----------------------------------------------------------------------------
(* GET /orders/:id/events                                                  *)

(* The guard has let the request through; findOwnerId is under way.  A     *)
(* client stays with the order of its first request.                       *)
Connect(k, o) ==
    /\ stream[k].pc = "closed" /\ UserOf[k] \notin revoked \cup expired
    /\ stream[k].order \in {o, None}
    /\ stream' = [stream EXCEPT ![k].pc = "owner", ![k].order = o]
    /\ UNCHANGED <<busVars, socket, gateway, tokenVars, crashes>>

(* filter: the elements of b at the places in S, in their order.           *)
Nth(S, n) == CHOOSE i \in S : Cardinality({j \in S : j < i}) = n - 1
Filter(b, S) == [n \in 1..Cardinality(S) |-> b[Nth(S, n)]]

(* Mutant: >= instead of >.                                                *)
MissedInclusive(o, lastId) ==
    Filter(Buffer(o), {i \in 1..Len(Buffer(o)) : Buffer(o)[i].id >= lastId})

MissedSince(o, lastId) ==
    Filter(Buffer(o), {i \in 1..Len(Buffer(o)) : Buffer(o)[i].id > lastId})

Replayed(events) == [i \in 1..Len(events) |-> [events[i] EXCEPT !.replay = TRUE]]

(* Ownership, the replay and the subscription, without an await between.   *)
(* A client that has received events sends the last id it has seen.        *)
Subscribe(k) ==
    LET x == stream[k]
        missed == MissedSince(x.order, Last(x.got).id)
        seen == IF x.got = <<>> THEN <<>> ELSE x.got \o Replayed(missed) IN
    /\ x.pc = "owner"
    /\ stream' = [stream EXCEPT ![k] =
          IF Owner[x.order] # UserOf[k] THEN HungUp(x, x.got)
          ELSE [x EXCEPT !.pc = "open", !.base = Len(x.got), !.got = seen]]
    /\ UNCHANGED <<busVars, socket, gateway, tokenVars, crashes>>

(* Mutant: without the answer of EXISTS.                                   *)
NeverDenied(u) == FALSE

(* The two parts of isStillValid: exp at once, the denylist by an EXISTS.  *)
HasExpired(u) == u \in expired
IsDenied(u) == u \in revoked

End(x) == [x EXCEPT !.pc = "ended", !.queue = <<>>, !.checking = FALSE]

(* isStillValid of the head of the queue: an expired token ends the stream *)
(* at once, otherwise EXISTS is sent.                                      *)
BeginCheck(k) ==
    /\ stream[k].queue # <<>> /\ ~stream[k].checking
    /\ stream' = [stream EXCEPT ![k] = IF HasExpired(UserOf[k]) THEN End(stream[k])
                                       ELSE [stream[k] EXCEPT !.checking = TRUE]]
    /\ UNCHANGED <<busVars, socket, gateway, tokenVars, crashes>>

(* The answer, and the write; a response that has ended takes no more.     *)
WriteEvent(k) ==
    LET x == stream[k] IN
    /\ x.checking
    /\ stream' = [stream EXCEPT ![k] =
          IF IsDenied(UserOf[k]) THEN End(x)
          ELSE [x EXCEPT !.queue = Tail(x.queue), !.checking = FALSE,
                         !.got = IF x.pc = "open" THEN Append(x.got, Head(x.queue)) ELSE x.got]]
    /\ UNCHANGED <<busVars, socket, gateway, tokenVars, crashes>>

(* The denylist is out of sync or Redis does not answer.                   *)
CheckUnavailable(k) ==
    /\ stream[k].queue # <<>>
    /\ stream' = [stream EXCEPT ![k] = End(@)]
    /\ UNCHANGED <<busVars, socket, gateway, tokenVars, crashes>>

(* The timer at exp; the subscription lives on until 'close'.              *)
ExpiryTimer(k) ==
    /\ stream[k].pc = "open" /\ HasExpired(UserOf[k])
    /\ stream' = [stream EXCEPT ![k].pc = "ended"]
    /\ UNCHANGED <<busVars, socket, gateway, tokenVars, crashes>>

(* 'close', from either side; what was written last may not have arrived.  *)
Close(k) ==
    /\ stream[k].pc \in {"open", "ended"}
    /\ \E m \in stream[k].base..Len(stream[k].got) :
          LET got == SubSeq(stream[k].got, 1, m) IN
          stream' = [stream EXCEPT ![k] = HungUp(@, got)]
    /\ UNCHANGED <<busVars, socket, gateway, tokenVars, crashes>>

-----------------------------------------------------------------------------
(* OrdersGateway                                                           *)

(* join: authenticate has answered, findOwnerId is under way.              *)
Join(w, o) ==
    /\ socket[w].joining = None /\ UserOf[w] \notin revoked \cup expired
    /\ o \notin socket[w].rooms
    /\ socket' = [socket EXCEPT ![w].joining = o]
    /\ UNCHANGED <<busVars, stream, gateway, tokenVars, crashes>>

EnterRoom(w) ==
    LET x == socket[w] IN
    /\ x.joining # None
    /\ socket' = [socket EXCEPT ![w] =
          [x EXCEPT !.joining = None,
                    !.rooms = x.rooms \cup {o \in {x.joining} : Owner[o] = UserOf[w]}]]
    /\ UNCHANGED <<busVars, stream, gateway, tokenVars, crashes>>

(* deliver: the sockets in the room of the next event; those whose token   *)
(* has expired are disconnected, the others wait for the denylist.         *)
FetchSockets ==
    LET room == {w \in Sockets : Head(gateway.queue).order \in socket[w].rooms} IN
    /\ gateway.queue # <<>> /\ ~gateway.delivering
    /\ gateway' = [gateway EXCEPT !.delivering = TRUE,
                                  !.targets = {w \in room : ~HasExpired(UserOf[w])}]
    /\ socket' = [w \in Sockets |-> IF w \in room /\ HasExpired(UserOf[w])
                                    THEN Disconnected(socket[w]) ELSE socket[w]]
    /\ UNCHANGED <<busVars, stream, tokenVars, crashes>>

(* The verdict on one socket: emit or disconnect.  A socket that has left  *)
(* in the meantime gets nothing.                                           *)
EmitTo(w) ==
    LET e == Head(gateway.queue)
        x == socket[w] IN
    /\ w \in gateway.targets
    /\ gateway' = [gateway EXCEPT !.targets = @ \ {w}]
    /\ socket' = [socket EXCEPT ![w] =
          IF IsDenied(UserOf[w]) THEN Disconnected(x)
          ELSE IF e.order \in x.rooms THEN [x EXCEPT !.got = Append(x.got, e)] ELSE x]
    /\ UNCHANGED <<busVars, stream, tokenVars, crashes>>

VerdictUnavailable(w) ==
    /\ w \in gateway.targets
    /\ gateway' = [gateway EXCEPT !.targets = @ \ {w}]
    /\ socket' = [socket EXCEPT ![w] = Disconnected(@)]
    /\ UNCHANGED <<busVars, stream, tokenVars, crashes>>

Delivered ==
    /\ gateway.delivering /\ gateway.targets = {}
    /\ gateway' = [gateway EXCEPT !.delivering = FALSE, !.queue = Tail(@)]
    /\ UNCHANGED <<busVars, stream, socket, tokenVars, crashes>>

LeaveRooms(w) ==
    /\ socket[w].rooms # {}
    /\ socket' = [socket EXCEPT ![w] = Disconnected(@)]
    /\ UNCHANGED <<busVars, stream, gateway, tokenVars, crashes>>

-----------------------------------------------------------------------------
(* A logout or a reuse, confirmed.                                         *)
Revoke(u) ==
    /\ u \notin revoked
    /\ revoked' = revoked \cup {u}
    /\ UNCHANGED <<busVars, stream, socket, gateway, expired, crashes>>

(* exp of the token has come.                                              *)
Expire(u) ==
    /\ u \notin expired
    /\ expired' = expired \cup {u}
    /\ UNCHANGED <<busVars, stream, socket, gateway, revoked, crashes>>

(* The process dies and comes back: the bus is empty, every client is cut  *)
(* off, and a committed change loses its event.                            *)
Crash ==
    /\ crashes < MaxCrashes
    /\ crashes' = crashes + 1
    /\ buffers' = <<>> /\ gateway' = Waiting
    /\ change' = [c \in Changers |-> Idle]
    /\ mixed' = mixed \cup {o \in Orders : \E c \in Changers : change[c].order = o}
    /\ stream' = [k \in Streams |-> HungUp(stream[k], stream[k].got)]
    /\ socket' = [w \in Sockets |-> Disconnected(socket[w])]
    /\ UNCHANGED <<status, committed, log, tokenVars>>

(* What happens sooner or later: pending promises of the process settle.   *)
StreamStep(k) == BeginCheck(k) \/ WriteEvent(k)
GatewayStep == FetchSockets \/ Delivered \/ \E w \in Sockets : EmitTo(w)

Next ==
    \/ \E c \in Changers : Publish(c) \/ \E o \in Orders, s \in Status : ChangeStatus(c, o, s)
    \/ \E k \in Streams :
        \/ Subscribe(k) \/ StreamStep(k) \/ CheckUnavailable(k)
        \/ ExpiryTimer(k) \/ Close(k) \/ \E o \in Orders : Connect(k, o)
    \/ \E w \in Sockets :
        \/ EnterRoom(w) \/ VerdictUnavailable(w) \/ LeaveRooms(w)
        \/ \E o \in Orders : Join(w, o)
    \/ GatewayStep \/ Crash
    \/ \E u \in Users : Revoke(u) \/ Expire(u)

Spec == Init /\ [][Next]_vars

-----------------------------------------------------------------------------
(* Properties                                                              *)

(* The types of the variables.  A buffer and the map of buffers keep their *)
(* limits, and the map has one entry per order.                            *)
TypeOK ==
    /\ status \in [Orders -> Status] /\ mixed \subseteq Orders
    /\ revoked \subseteq Users /\ expired \subseteq Users /\ crashes \in 0..MaxCrashes
    /\ \A c \in Changers : change[c] \in {Idle} \cup [order : Orders, status : Status]
    /\ Len(buffers) <= MAX_ORDERS
    /\ \A i, j \in 1..Len(buffers) : buffers[i].order = buffers[j].order => i = j
    /\ \A i \in 1..Len(buffers) : Len(buffers[i].events) \in 1..BUFFER_SIZE
    /\ \A k \in Streams : /\ stream[k].pc \in {"closed", "owner", "open", "ended"}
                          /\ stream[k].base \in 0..Len(stream[k].got)
    /\ \A w \in Sockets : socket[w].rooms \subseteq Orders

(* As long as the changes of an order do not overlap and the process lives *)
(* every committed change has exactly one event, in the order of the       *)
(* commits.                                                                *)
EventsFollowCommits ==
    \A o \in Orders \ mixed :
        \/ committed[o] = log[o] /\ \A c \in Changers : change[c].order # o
        \/ \E c \in Changers : /\ change[c].order = o
                              /\ committed[o] = Append(log[o], change[c].status)

SameNumbering(a, b) == a.n - a.id = b.n - b.id

(* Over any number of reconnects with Last-Event-ID a client gets no event *)
(* twice or out of order, and misses none that the buffer still had, as    *)
(* long as the numbers of the order have not started again at 1: they do   *)
(* when its buffer is evicted or the process restarts.                     *)
ReplayIsSeamless ==
    \A k \in Streams : \A i \in 1..(Len(stream[k].got) - 1) :
        LET a == stream[k].got[i]
            b == stream[k].got[i + 1] IN
        SameNumbering(a, b) =>
            /\ a.n < b.n
            /\ \A e \in Range(Buffer(stream[k].order)) :
                    SameNumbering(a, e) => e.n <= a.n \/ e.n >= b.n

(* A socket gets the events of an order in the order of their publication. *)
RoomsKeepOrder ==
    \A w \in Sockets : \A i, j \in 1..Len(socket[w].got) :
        LET a == socket[w].got[i]
            b == socket[w].got[j] IN
        i < j /\ a.order = b.order => a.n < b.n

(* A client sees the events of an order in order, on a stream over any     *)
(* number of reconnects and in a room, out of buffers that keep their      *)
(* limits.                                                                 *)
EventsInOrder == TypeOK /\ ReplayIsSeamless /\ RoomsKeepOrder

(* An event published after the client's token was revoked or expired does *)
(* not reach the client, however many events wait before it.  Replayed     *)
(* ones are left out: they are written without a check, although           *)
(* findOwnerId was awaited after the guard's.                              *)
NoLateEvent ==
    /\ \A k \in Streams : \A e \in Range(stream[k].got) : e.late => e.replay
    /\ \A w \in Sockets : \A e \in Range(socket[w].got) : ~e.late

(* What waits in a stream or in the gateway is dealt with: one slow check  *)
(* or a closed client does not block the events behind it for ever.        *)
QueuesDrain ==
    /\ \A k \in Streams : stream[k].queue # <<>> ~> stream[k].queue = <<>>
    /\ gateway.queue # <<>> ~> gateway.queue = <<>>
==============================================================================
