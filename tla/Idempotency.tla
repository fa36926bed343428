----------------------------- MODULE Idempotency -----------------------------
(****************************************************************************)
(* Idempotent submission: submit_order's replay and store steps around the  *)
(* dispatch of an order, the table "idempotency_keys", its pruning, and the *)
(* clients (threads or processes) that submit under the same keys.          *)
(*                                                                          *)
(* A submission is four separate accesses to the database: the lookup of    *)
(* the key, the read of the order it names, the transaction that makes the  *)
(* order, and the transaction that stores the key.  Each is one step here,  *)
(* so other clients, a reset, a cleanup or a crash may come between any two *)
(* of them.                                                                 *)
(*                                                                          *)
(* Abstractions.                                                            *)
(*  - A request is its key, the parameters that hash_request covers and the *)
(*    ones it leaves out (stop, target, product).  SHA-256 is injective.    *)
(*  - What becomes of an order after its dispatch is module Orders.         *)
(*  - The clock of the broker (ReplayClock or wall) is now; cleanup_expired *)
(*    uses the wall clock, which is Skew ahead of it.                       *)
(****************************************************************************)
EXTENDS Integers

CONSTANTS
  Keys,         \* idempotency keys
  Hashed,       \* side, symbol, qty, type, limit and tif of a request
  Unhashed,     \* its stop, target and product
  OrderIds,     \* ids that may be drawn; bounds the orders of a behaviour
  Clients,      \* concurrent submissions
  TTL,          \* the age at which a key may be pruned
  Skew,         \* wall clock minus the broker's clock
  Crashes,      \* whether a client may stop in the middle of a submission
  MaxTime,      \* bound: the last instant explored
  None

VARIABLES
  now,          \* ctx.clock
  orders,       \* table orders: the request of each order, and its time
  drawn,        \* order ids used so far
  keys,         \* table idempotency_keys, by key
  pc,           \* per client: what its submit_order does next
  req,          \* per client: the request it submits
  held,         \* per client: the order found or made, and its key's time
  answer        \* per client: the order its last submit_order returned

vars == <<now, orders, drawn, keys, pc, req, held, answer>>

Times == 0..MaxTime
Request == [key: Keys, hashed: Hashed, rest: Unhashed]
Order == [request: Request, at: Times]
Entry == [hash: Hashed, order: OrderIds, at: Times]
Held == [order: OrderIds, at: Times]

ASSUME IdempotencyAssumption ==
  /\ TTL \in Nat /\ Skew \in Nat /\ MaxTime \in Nat
  /\ Crashes \in BOOLEAN
  /\ None \notin Request \cup Held

\* A table with row v at k, and without the rows of K.
With(table, k, v) ==
  [x \in DOMAIN table \cup {k} |-> IF x = k THEN v ELSE table[x]]
Without(table, K) == [x \in DOMAIN table \ K |-> table[x]]

Init ==
  /\ now = 0
  /\ orders = [o \in {} |-> None]
  /\ drawn = {}
  /\ keys = [k \in {} |-> None]
  /\ pc = [c \in Clients |-> "idle"]
  /\ req = [c \in Clients |-> None]
  /\ held = [c \in Clients |-> None]
  /\ answer = [c \in Clients |-> None]

\* The lookup of the key (submit.py 221-238).  Another hash under the key
\* raises IdempotencyConflict: nothing happens.
Submit(c, r) ==
  /\ pc[c] = "idle"
  /\ req' = [req EXCEPT ![c] = r]
  /\ answer' = [answer EXCEPT ![c] = None]
  /\ \/ /\ r.key \notin DOMAIN keys
        /\ pc' = [pc EXCEPT ![c] = "dispatch"]
        /\ UNCHANGED held
     \/ /\ r.key \in DOMAIN keys
        /\ keys[r.key].hash = r.hashed
        /\ held' = [held EXCEPT ![c] = [order |-> keys[r.key].order,
                                        at |-> keys[r.key].at]]
        /\ pc' = [pc EXCEPT ![c] = "replay"]
  /\ UNCHANGED <<now, orders, drawn, keys>>

\* The order of the key is read and returned; an order that has gone
\* meanwhile makes the request a new one.
Replay(c) ==
  /\ pc[c] = "replay"
  /\ \/ /\ held[c].order \in DOMAIN orders
        /\ answer' = [answer EXCEPT ![c] = held[c]]
        /\ pc' = [pc EXCEPT ![c] = "idle"]
     \/ /\ held[c].order \notin DOMAIN orders
        /\ pc' = [pc EXCEPT ![c] = "dispatch"]
        /\ UNCHANGED answer
  /\ held' = [held EXCEPT ![c] = None]
  /\ UNCHANGED <<now, orders, drawn, keys, req>>

\* The checks pass and one transaction makes the order (steps 4 to 9).
Dispatch(c, o) ==
  /\ pc[c] = "dispatch"
  /\ o \notin drawn
  /\ drawn' = drawn \cup {o}
  /\ orders' = With(orders, o, [request |-> req[c], at |-> now])
  /\ held' = [held EXCEPT ![c] = [order |-> o, at |-> now]]
  /\ pc' = [pc EXCEPT ![c] = "store"]
  /\ UNCHANGED <<now, keys, req, answer>>

\* A check refuses the order, or its transaction rolls back.
Refuse(c) ==
  /\ pc[c] = "dispatch"
  /\ pc' = [pc EXCEPT ![c] = "idle"]
  /\ UNCHANGED <<now, orders, drawn, keys, req, held, answer>>

CanStore(c) == req[c].key \notin DOMAIN keys /\ held[c].order \in DOMAIN orders

\* Mutant of Store: INSERT OR REPLACE.
StoreReplaces(c) ==
  /\ pc[c] = "store" /\ held[c].order \in DOMAIN orders
  /\ keys' = With(keys, req[c].key, [hash |-> req[c].hashed,
                                     order |-> held[c].order, at |-> now])
  /\ answer' = [answer EXCEPT ![c] = [order |-> held[c].order, at |-> now]]
  /\ held' = [held EXCEPT ![c] = None]
  /\ pc' = [pc EXCEPT ![c] = "idle"]
  /\ UNCHANGED <<now, orders, drawn, req>>

\* The key is inserted and the order returned.
Store(c) ==
  /\ pc[c] = "store" /\ CanStore(c)
  /\ keys' = With(keys, req[c].key, [hash |-> req[c].hashed,
                                     order |-> held[c].order, at |-> now])
  /\ answer' = [answer EXCEPT ![c] = [order |-> held[c].order, at |-> now]]
  /\ held' = [held EXCEPT ![c] = None]
  /\ pc' = [pc EXCEPT ![c] = "idle"]
  /\ UNCHANGED <<now, orders, drawn, req>>

\* The INSERT violates the primary key or the foreign key: submit_order
\* raises although the order was made.
StoreRaises(c) ==
  /\ pc[c] = "store" /\ ~CanStore(c)
  /\ held' = [held EXCEPT ![c] = None]
  /\ pc' = [pc EXCEPT ![c] = "idle"]
  /\ UNCHANGED <<now, orders, drawn, keys, req, answer>>

\* The client's process stops; a later submission is its retry.
Crash(c) ==
  /\ Crashes /\ pc[c] # "idle"
  /\ held' = [held EXCEPT ![c] = None]
  /\ pc' = [pc EXCEPT ![c] = "idle"]
  /\ UNCHANGED <<now, orders, drawn, keys, req, answer>>

\* Mutant of Reset: the keys stay.
ResetKeepsKeys ==
  /\ DOMAIN orders # {}
  /\ orders' = [o \in {} |-> None]
  /\ UNCHANGED <<now, drawn, keys, pc, req, held, answer>>

\* broker.reset deletes the orders; ON DELETE CASCADE deletes their keys.
Reset ==
  /\ DOMAIN orders # {}
  /\ orders' = [o \in {} |-> None]
  /\ keys' = Without(keys, {k \in DOMAIN keys : keys[k].order \in DOMAIN orders})
  /\ UNCHANGED <<now, drawn, pc, req, held, answer>>

Expired == {k \in DOMAIN keys : keys[k].at < now + Skew - TTL}

\* cleanup_expired.
Cleanup ==
  /\ Expired # {}
  /\ keys' = Without(keys, Expired)
  /\ UNCHANGED <<now, orders, drawn, pc, req, held, answer>>

Tick ==
  /\ now < MaxTime
  /\ now' = now + 1
  /\ UNCHANGED <<orders, drawn, keys, pc, req, held, answer>>

ClientStep(c) ==
  \/ \E r \in Request : Submit(c, r)
  \/ \E o \in OrderIds : Dispatch(c, o)
  \/ Replay(c) \/ Refuse(c) \/ Store(c) \/ StoreRaises(c) \/ Crash(c)

Next == Reset \/ Cleanup \/ Tick \/ \E c \in Clients : ClientStep(c)

Spec == Init /\ [][Next]_vars

-----------------------------------------------------------------------------
(* Properties *)

TypeOK ==
  /\ now \in Times
  /\ drawn \subseteq OrderIds
  /\ DOMAIN orders \subseteq drawn
  /\ orders \in [DOMAIN orders -> Order]
  /\ DOMAIN keys \subseteq Keys
  /\ keys \in [DOMAIN keys -> Entry]
  /\ pc \in [Clients -> {"idle", "replay", "dispatch", "store"}]
  /\ req \in [Clients -> Request \cup {None}]
  /\ held \in [Clients -> Held \cup {None}]
  /\ answer \in [Clients -> Held \cup {None}]

\* A key leads to the order that was made for it: no key survives its order,
\* and none names an order of another key or of other hashed parameters,
\* whatever submissions, crashes, resets and cleanups overlap.
KeyNamesItsOrder ==
  \A k \in DOMAIN keys :
    /\ keys[k].order \in DOMAIN orders
    /\ orders[keys[k].order].request.key = k
    /\ orders[keys[k].order].request.hashed = keys[k].hash

Overlap(s, t) == s - t <= TTL /\ t - s <= TTL

\* However many orders races and retries have made under one key, clients are
\* only ever given one of them while the key lives.
AnswersAgree ==
  \A c, d \in Clients :
    /\ answer[c] # None /\ answer[d] # None
    /\ req[c].key = req[d].key
    /\ {answer[c].order, answer[d].order} \subseteq DOMAIN orders
    /\ Overlap(answer[c].at, answer[d].at)
    => answer[c].order = answer[d].order

\* A key is protected for its TTL in the broker's time: it only goes earlier
\* when its order does (COOKBOOK.md 111).
KeysLiveTheirTTL ==
  [][ \A k \in DOMAIN keys \ DOMAIN keys' :
        \/ now - keys[k].at > TTL
        \/ keys[k].order \notin DOMAIN orders' ]_vars

\* "Re-submitting the same key with the same params returns the original
\* order (no duplicate fill)" (QUICKSTART.md 132-133): two orders of one
\* key are further apart than the TTL.
NoDoubleBuy ==
  \A o, p \in DOMAIN orders :
    o # p /\ orders[o].request.key = orders[p].request.key =>
      ~Overlap(orders[o].at, orders[p].at)

\* "reject mismatched parameters under the same key" (idempotency.py 4-5):
\* the order a client is given is the one it asked for in every parameter.
AnswerIsTheRequest ==
  \A c \in Clients :
    answer[c] # None /\ answer[c].order \in DOMAIN orders =>
      orders[answer[c].order].request = req[c]
=============================================================================
