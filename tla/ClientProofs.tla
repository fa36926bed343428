---------------------------- MODULE ClientProofs ----------------------------
(****************************************************************************)
(* What the clients of a broker are told: by key (Idempotency) and by       *)
(* callback (Events).                                                       *)
(*                                                                          *)
(* Keys, for any number of clients, keys and orders, with crashes, resets   *)
(* and cleanups between any two steps.  A key is stored from what its       *)
(* client holds, two transactions after the order was made; HeldFits says   *)
(* what that still is.  That answers agree needs to be known of every order *)
(* a client was given or is about to be given (Given): its key is there, or *)
(* has been pruned (Backed); and any other one of the same key is far away  *)
(* in time (Apart), since a key is free again only when the one before is   *)
(* old.                                                                     *)
(*                                                                          *)
(* Callbacks, for any number of events, subscribers and nested calls.       *)
(* BusInv says where each event is and what the calls on the stack of the   *)
(* thread know of the lists they send from (Knows): a callback that calls   *)
(* the broker drains under the loop that called it, so the loops of one     *)
(* stack must stay apart.  It needs that one thread uses the broker, as     *)
(* the runs without it show; that nothing stays behind does not.            *)
(****************************************************************************)
EXTENDS Idempotency, Events, SequenceTheorems, TLAPS

\* A client with an order in hand holds an id that was drawn; one that is to
\* store its key holds the order it has made.
HeldFits ==
  \A c \in Clients :
    /\ pc[c] \in {"replay", "dispatch", "store"} => req[c] \in Request
    /\ pc[c] \in {"replay", "store"} => held[c] \in Held /\ held[c].order \in drawn
    /\ pc[c] = "store" /\ held[c].order \in DOMAIN orders =>
         orders[held[c].order].request = req[c]

NameInv == TypeOK /\ HeldFits /\ KeyNamesItsOrder

\* A table with one more row is a function into its rows.
LEMMA WithTyped ==
  ASSUME NEW R, NEW table, table \in [DOMAIN table -> R], NEW k, NEW v \in R
  PROVE  With(table, k, v) \in [DOMAIN With(table, k, v) -> R]
  BY DEF With

-----------------------------------------------------------------------------
(* Keys name their orders *)

\* Nothing is there at the start.
LEMMA NameInit == Init => NameInv
<1> SUFFICES ASSUME Init PROVE NameInv
  OBVIOUS
<1>1. DOMAIN orders = {} /\ DOMAIN keys = {}
  BY DEF Init
<1>2. TypeOK
  BY <1>1, IdempotencyAssumption DEF Init, TypeOK, IdempotencyAssumption, Times
<1>3. HeldFits /\ KeyNamesItsOrder
  BY <1>1 DEF Init, HeldFits, KeyNamesItsOrder
<1> QED
  BY <1>2, <1>3 DEF NameInv

\* One step of one client.
LEMMA NameClientStep ==
  ASSUME NameInv, NEW c \in Clients, ClientStep(c)
  PROVE  NameInv'
<1> USE DEF NameInv, TypeOK
<1>1. ASSUME NEW r \in Request, Submit(c, r)
      PROVE  NameInv'
  <2>1. r.key \in DOMAIN keys =>
          /\ [order |-> keys[r.key].order, at |-> keys[r.key].at] \in Held
          /\ keys[r.key].order \in drawn
    BY DEF Entry, Held, KeyNamesItsOrder
  <2>2. TypeOK'
    BY <1>1, <2>1 DEF Submit
  <2>3. HeldFits'
    BY <1>1, <2>1 DEF Submit, HeldFits
  <2> QED
    BY <1>1, <2>2, <2>3 DEF Submit, KeyNamesItsOrder
<1>2. CASE Replay(c)
  <2>1. TypeOK'
    BY <1>2 DEF Replay
  <2>2. HeldFits'
    BY <1>2 DEF Replay, HeldFits
  <2> QED
    BY <1>2, <2>1, <2>2 DEF Replay, KeyNamesItsOrder
<1>3. ASSUME NEW o \in OrderIds, Dispatch(c, o)
      PROVE  NameInv'
  <2> DEFINE row == [request |-> req[c], at |-> now]
  <2>1. /\ o \notin drawn /\ drawn' = drawn \cup {o}
        /\ orders' = With(orders, o, row)
        /\ UNCHANGED <<now, keys, req, answer>>
        /\ held' = [held EXCEPT ![c] = [order |-> o, at |-> now]]
        /\ pc' = [pc EXCEPT ![c] = "store"] /\ pc[c] = "dispatch"
    BY <1>3 DEF Dispatch
  <2>2. row \in Order /\ [order |-> o, at |-> now] \in Held
    BY <2>1 DEF Order, Held, HeldFits
  <2>3. /\ DOMAIN orders' = DOMAIN orders \cup {o}
        /\ orders'[o] = row
        /\ \A x \in DOMAIN orders : orders'[x] = orders[x] /\ x # o
    <3> HIDE DEF row
    <3> QED
      BY <2>1 DEF With
  <2>4. orders' \in [DOMAIN orders' -> Order]
    BY <2>1, <2>2, WithTyped
  <2>5. TypeOK'
    BY <2>1, <2>2, <2>3, <2>4
  <2>6. HeldFits'
    BY <2>1, <2>2, <2>3 DEF HeldFits
  <2>7. KeyNamesItsOrder'
    BY <2>1, <2>3 DEF KeyNamesItsOrder
  <2> QED
    BY <2>5, <2>6, <2>7
<1>4. CASE Refuse(c) \/ StoreRaises(c) \/ Crash(c)
  <2>1. TypeOK'
    BY <1>4 DEF Refuse, StoreRaises, Crash
  <2>2. HeldFits'
    BY <1>4 DEF Refuse, StoreRaises, Crash, HeldFits
  <2>3. KeyNamesItsOrder'
    BY <1>4 DEF Refuse, StoreRaises, Crash, KeyNamesItsOrder
  <2> QED
    BY <2>1, <2>2, <2>3
<1>5. CASE Store(c)
  <2> DEFINE k == req[c].key
             entry == [hash |-> req[c].hashed, order |-> held[c].order, at |-> now]
  <2>1. /\ pc[c] = "store" /\ held[c].order \in DOMAIN orders
        /\ keys' = With(keys, k, entry)
        /\ answer' = [answer EXCEPT ![c] = [order |-> held[c].order, at |-> now]]
        /\ held' = [held EXCEPT ![c] = None]
        /\ pc' = [pc EXCEPT ![c] = "idle"]
        /\ UNCHANGED <<now, orders, drawn, req>>
    BY <1>5 DEF Store, CanStore
  <2>2. /\ req[c] \in Request /\ held[c] \in Held
        /\ orders[held[c].order].request = req[c]
    BY <2>1 DEF HeldFits
  <2>3. k \in Keys /\ entry \in Entry /\ [order |-> held[c].order, at |-> now] \in Held
    BY <2>2 DEF Request, Entry, Held
  <2>4. /\ DOMAIN keys' = DOMAIN keys \cup {k} /\ keys'[k] = entry
        /\ \A x \in DOMAIN keys \ {k} : keys'[x] = keys[x]
    <3> HIDE DEF entry
    <3> QED
      BY <2>1 DEF With
  <2>5. keys' \in [DOMAIN keys' -> Entry]
    BY <2>1, <2>3, WithTyped
  <2>6. TypeOK'
    BY <2>1, <2>3, <2>4, <2>5
  <2>7. HeldFits'
    BY <2>1 DEF HeldFits
  <2>8. KeyNamesItsOrder'
    BY <2>1, <2>2, <2>4 DEF KeyNamesItsOrder
  <2> QED
    BY <2>6, <2>7, <2>8
<1> QED
  BY <1>1, <1>2, <1>3, <1>4, <1>5 DEF ClientStep

\* Resets, cleanups and the clock.
LEMMA NameStep == NameInv /\ [Next]_vars => NameInv'
<1> SUFFICES ASSUME NameInv, [Next]_vars PROVE NameInv'
  OBVIOUS
<1> USE DEF NameInv, TypeOK
<1>1. CASE Reset
  <2> DEFINE K == {k \in DOMAIN keys : keys[k].order \in DOMAIN orders}
  <2>1. /\ orders' = [o \in {} |-> None] /\ keys' = Without(keys, K)
        /\ UNCHANGED <<now, drawn, pc, req, held, answer>>
    BY <1>1 DEF Reset
  <2>2. DOMAIN orders' = {} /\ orders' \in [{} -> Order]
    BY <2>1
  <2>3. DOMAIN keys' = {} /\ keys' \in [DOMAIN keys' -> Entry]
    BY <2>1 DEF Without, KeyNamesItsOrder
  <2>4. TypeOK'
    BY <2>1, <2>2, <2>3
  <2> QED
    BY <2>1, <2>2, <2>3, <2>4 DEF HeldFits, KeyNamesItsOrder
<1>2. CASE Cleanup
  <2>1. keys' = Without(keys, Expired)
        /\ UNCHANGED <<now, orders, drawn, pc, req, held, answer>>
    BY <1>2 DEF Cleanup
  <2>2. /\ DOMAIN keys' \subseteq DOMAIN keys /\ keys' \in [DOMAIN keys' -> Entry]
        /\ \A k \in DOMAIN keys' : keys'[k] = keys[k]
    BY <2>1 DEF Without
  <2>3. TypeOK'
    BY <2>1, <2>2
  <2> QED
    BY <2>1, <2>2, <2>3 DEF HeldFits, KeyNamesItsOrder
<1>3. CASE Tick
  <2>1. TypeOK'
    BY <1>3, IdempotencyAssumption DEF Tick, Times, IdempotencyAssumption
  <2> QED
    BY <1>3, <2>1 DEF Tick, HeldFits, KeyNamesItsOrder
<1>4. CASE UNCHANGED vars
  BY <1>4 DEF vars, HeldFits, KeyNamesItsOrder
<1> QED
  BY <1>1, <1>2, <1>3, <1>4, NameClientStep DEF Next

\* Every row and every client stays well typed, for any number of clients.
THEOREM IdempotencyTypeOK == Spec => []TypeOK
<1>1. NameInv => TypeOK
  BY DEF NameInv
<1> QED
  BY <1>1, NameInit, NameStep, PTL DEF Spec

\* No key survives its order, and none names an order that was made for
\* another key or with other hashed parameters (idempotency.py, submit.py
\* 221-238), whatever submissions, crashes, resets and cleanups overlap.
THEOREM IdempotencyKeyNamesItsOrder == Spec => []KeyNamesItsOrder
<1>1. NameInv => KeyNamesItsOrder
  BY DEF NameInv
<1> QED
  BY <1>1, NameInit, NameStep, PTL DEF Spec

-----------------------------------------------------------------------------
(* Answers agree *)

\* What c was given, or found under its key and is about to be given.
Given(c) ==
  {x \in Held : \/ x = answer[c]
                \/ pc[c] = "replay" /\ x = held[c]}

\* The time for which a key is safe from the pruning by the wall clock.
Near(s, t) == s - t <= TTL - Skew /\ t - s <= TTL - Skew

\* An order that was given, and is not deleted, has its key, or had it long ago.
Backed ==
  \A c \in Clients : \A x \in Given(c) :
    /\ x.order \in drawn /\ x.at <= now
    /\ x.order \in DOMAIN orders =>
         \/ /\ req[c].key \in DOMAIN keys
            /\ keys[req[c].key].order = x.order /\ keys[req[c].key].at = x.at
         \/ now - x.at > TTL - Skew

\* Orders that were given, or can be, for one key are one or far apart.
Apart ==
  /\ \A k \in DOMAIN keys :
       /\ keys[k].at <= now
       /\ \A c \in Clients : \A x \in Given(c) :
            /\ req[c].key = k /\ x.order \in DOMAIN orders
            /\ Near(keys[k].at, x.at)
            => keys[k].order = x.order
  /\ \A c, d \in Clients : \A x \in Given(c), y \in Given(d) :
       /\ req[c].key = req[d].key
       /\ {x.order, y.order} \subseteq DOMAIN orders
       /\ Near(x.at, y.at)
       => x.order = y.order

AnswerInv == NameInv /\ Backed /\ Apart

\* Clients are given nothing new, and nothing else changed but that time went
\* on and old keys were pruned.
LEMMA NothingGiven ==
  ASSUME AnswerInv, NameInv',
         \A c \in Clients : /\ Given(c)' \subseteq Given(c)
                            /\ Given(c)' # {} => req'[c] = req[c],
         drawn \subseteq drawn', now <= now',
         DOMAIN keys' \subseteq DOMAIN keys,
         \A k \in DOMAIN keys' : keys'[k] = keys[k],
         \A k \in DOMAIN keys \ DOMAIN keys' : now - keys[k].at > TTL - Skew
                                              \/ keys[k].order \notin DOMAIN orders',
         DOMAIN orders' \cap drawn \subseteq DOMAIN orders
  PROVE  Backed' /\ Apart'
<1> USE DEF AnswerInv, NameInv, TypeOK, Times
<1>1. /\ now \in Int /\ now' \in Int /\ TTL \in Int /\ Skew \in Int
      /\ \A c \in Clients : Given(c) \subseteq Held
      /\ \A x \in Held : x.at \in Int
      /\ \A k \in DOMAIN keys : keys[k].at \in Int
  BY IdempotencyAssumption DEF IdempotencyAssumption, Given, Held, Entry
<1>2. Backed'
  BY <1>1 DEF Backed
<1>3. \A c \in Clients : \A x \in Given(c)' :
        /\ x \in Given(c) /\ req'[c] = req[c]
        /\ x.order \in DOMAIN orders' => x.order \in DOMAIN orders
  BY DEF Backed
<1>4. ASSUME NEW k \in DOMAIN keys'
      PROVE  /\ keys'[k].at <= now'
             /\ \A c \in Clients : \A x \in Given(c)' :
                  /\ req'[c].key = k /\ x.order \in DOMAIN orders'
                  /\ Near(keys'[k].at, x.at)
                  => keys'[k].order = x.order
  BY <1>1, <1>3 DEF Apart
<1>5. ASSUME NEW c \in Clients, NEW d \in Clients,
             NEW x \in Given(c)', NEW y \in Given(d)',
             req'[c].key = req'[d].key,
             {x.order, y.order} \subseteq DOMAIN orders',
             Near(x.at, y.at)
      PROVE  x.order = y.order
  BY <1>3, <1>5 DEF Apart
<1>6. Apart'
  BY <1>4, <1>5 DEF Apart, Near
<1> QED
  BY <1>2, <1>6

\* Nothing was given at the start.
LEMMA AnswerInit == Init => AnswerInv
<1> SUFFICES ASSUME Init PROVE AnswerInv
  OBVIOUS
<1>1. \A c \in Clients : Given(c) = {}
  BY IdempotencyAssumption DEF Init, Given, IdempotencyAssumption
<1>2. Backed /\ Apart
  BY <1>1 DEF Init, Backed, Apart
<1> QED
  BY <1>2, NameInit DEF AnswerInv

\* A submission forgets its client's last answer and may find the key's order.
LEMMA AnswerSubmit ==
  ASSUME AnswerInv, NameInv', NEW c \in Clients, NEW r \in Request, Submit(c, r)
  PROVE  Backed' /\ Apart'
<1> USE DEF AnswerInv, NameInv, TypeOK, Times
<1> DEFINE found == [order |-> keys[r.key].order, at |-> keys[r.key].at]
<1>1. /\ now \in Int /\ TTL \in Int /\ Skew \in Int
      /\ \A d \in Clients : Given(d) \subseteq Held
      /\ \A x \in Held : x.at \in Int /\ x.order \in OrderIds
      /\ \A k \in DOMAIN keys : keys[k].at \in Int
  BY IdempotencyAssumption DEF IdempotencyAssumption, Given, Held, Entry
<1>2. /\ UNCHANGED <<now, orders, drawn, keys>>
      /\ req' = [req EXCEPT ![c] = r]
      /\ \A d \in Clients \ {c} :
           /\ pc'[d] = pc[d] /\ req'[d] = req[d] /\ held'[d] = held[d]
           /\ answer'[d] = answer[d]
      /\ answer'[c] = None
  BY DEF Submit
<1>3. \A d \in Clients \ {c} : Given(d)' = Given(d)
  BY <1>2 DEF Given
<1>4. \A x \in Given(c)' :
        /\ r.key \in DOMAIN keys
        /\ x.order = keys[r.key].order /\ x.at = keys[r.key].at
  <2>1. Given(c)' # {} => r.key \in DOMAIN keys /\ held'[c] = found
    BY <1>2, IdempotencyAssumption DEF Submit, Given, IdempotencyAssumption
  <2>2. \A x \in Given(c)' : x = held'[c]
    BY <1>2, IdempotencyAssumption DEF Given, IdempotencyAssumption
  <2> QED
    BY <2>1, <2>2
<1>5. req'[c].key = r.key
  BY <1>2
<1>6. Backed'
  <2> SUFFICES ASSUME NEW d \in Clients, NEW x \in Given(d)'
               PROVE  /\ x.order \in drawn /\ x.at <= now
                      /\ x.order \in DOMAIN orders =>
                           \/ /\ req'[d].key \in DOMAIN keys
                              /\ keys[req'[d].key].order = x.order
                              /\ keys[req'[d].key].at = x.at
                           \/ now - x.at > TTL - Skew
    BY <1>2 DEF Backed
  <2>1. CASE d = c
    BY <2>1, <1>4, <1>5 DEF Apart, KeyNamesItsOrder
  <2>2. CASE d # c
    BY <2>2, <1>2, <1>3 DEF Backed
  <2> QED
    BY <2>1, <2>2
<1>7. ASSUME NEW k \in DOMAIN keys, NEW d \in Clients, NEW x \in Given(d)',
             req'[d].key = k, x.order \in DOMAIN orders, Near(keys[k].at, x.at)
      PROVE  keys[k].order = x.order
  <2>1. CASE d = c
    BY <2>1, <1>4, <1>5, <1>7
  <2>2. CASE d # c
    BY <2>2, <1>2, <1>3, <1>7 DEF Apart
  <2> QED
    BY <2>1, <2>2
<1>8. ASSUME NEW d \in Clients, NEW e \in Clients,
             NEW x \in Given(d)', NEW y \in Given(e)',
             req'[d].key = req'[e].key,
             {x.order, y.order} \subseteq DOMAIN orders, Near(x.at, y.at)
      PROVE  x.order = y.order
  <2>1. Near(y.at, x.at)
    BY <1>8 DEF Near
  <2>2. CASE d = c
    BY <2>2, <1>4, <1>5, <1>7, <1>8
  <2>3. CASE e = c
    BY <2>3, <1>4, <1>5, <1>7, <1>8, <2>1
  <2>4. CASE d # c /\ e # c
    BY <2>4, <1>2, <1>3, <1>8 DEF Apart
  <2> QED
    BY <2>2, <2>3, <2>4
<1>9. Apart'
  BY <1>2, <1>7, <1>8 DEF Apart, Near
<1> QED
  BY <1>6, <1>9

\* A key is stored only while it is free: whoever was given an order of it
\* was given it long ago.
LEMMA AnswerStore ==
  ASSUME AnswerInv, NameInv', NEW c \in Clients, Store(c)
  PROVE  Backed' /\ Apart'
<1> USE DEF AnswerInv, NameInv, TypeOK, Times
<1> DEFINE k == req[c].key
           o == held[c].order
<1>1. /\ now \in Int /\ TTL \in Int /\ Skew \in Int
      /\ \A d \in Clients : Given(d) \subseteq Held
      /\ \A x \in Held : x.at \in Int /\ x.order \in OrderIds
      /\ \A n \in DOMAIN keys : keys[n].at \in Int
  BY IdempotencyAssumption DEF IdempotencyAssumption, Given, Held, Entry
<1>2. /\ pc[c] = "store" /\ o \in DOMAIN orders /\ k \notin DOMAIN keys
      /\ o \in drawn
      /\ UNCHANGED <<now, orders, drawn, req>>
      /\ answer'[c] = [order |-> o, at |-> now] /\ pc'[c] = "idle"
      /\ \A d \in Clients \ {c} :
           pc'[d] = pc[d] /\ held'[d] = held[d] /\ answer'[d] = answer[d]
  BY DEF Store, CanStore, HeldFits
<1>3. /\ DOMAIN keys' = DOMAIN keys \cup {k}
      /\ keys'[k].order = o /\ keys'[k].at = now
      /\ \A n \in DOMAIN keys : keys'[n] = keys[n]
  <2> DEFINE entry == [hash |-> req[c].hashed, order |-> held[c].order, at |-> now]
  <2>1. keys' = With(keys, k, entry) /\ k \notin DOMAIN keys
    BY DEF Store, CanStore
  <2>2. entry.order = o /\ entry.at = now
    OBVIOUS
  <2> HIDE DEF entry
  <2> QED
    BY <2>1, <2>2 DEF With
<1>4. \A d \in Clients \ {c} : Given(d)' = Given(d)
  BY <1>2 DEF Given
<1>5. \A x \in Given(c)' : x.order = o /\ x.at = now
  BY <1>2 DEF Given
<1>6. \A d \in Clients \ {c} : \A x \in Given(d) :
        req[d].key = k /\ x.order \in DOMAIN orders =>
          ~Near(now, x.at) /\ ~Near(x.at, now)
  BY <1>1, <1>2 DEF Backed, Near
<1>7. Backed'
  <2> SUFFICES ASSUME NEW d \in Clients, NEW x \in Given(d)'
               PROVE  /\ x.order \in drawn /\ x.at <= now
                      /\ x.order \in DOMAIN orders =>
                           \/ /\ req[d].key \in DOMAIN keys'
                              /\ keys'[req[d].key].order = x.order
                              /\ keys'[req[d].key].at = x.at
                           \/ now - x.at > TTL - Skew
    BY <1>2 DEF Backed
  <2>1. CASE d = c
    BY <2>1, <1>1, <1>2, <1>3, <1>5
  <2>2. CASE d # c
    BY <2>2, <1>3, <1>4 DEF Backed
  <2> QED
    BY <2>1, <2>2
<1>8. ASSUME NEW n \in DOMAIN keys', NEW d \in Clients, NEW x \in Given(d)',
             req[d].key = n, x.order \in DOMAIN orders, Near(keys'[n].at, x.at)
      PROVE  keys'[n].order = x.order
  <2>1. CASE d = c
    BY <2>1, <1>3, <1>5, <1>8
  <2>2. CASE d # c /\ n = k
    BY <2>2, <1>3, <1>4, <1>6, <1>8
  <2>3. CASE d # c /\ n # k
    BY <2>3, <1>3, <1>4, <1>8 DEF Apart
  <2> QED
    BY <2>1, <2>2, <2>3
<1>9. ASSUME NEW d \in Clients, NEW e \in Clients,
             NEW x \in Given(d)', NEW y \in Given(e)',
             req[d].key = req[e].key,
             {x.order, y.order} \subseteq DOMAIN orders, Near(x.at, y.at)
      PROVE  x.order = y.order
  <2>1. CASE d = c /\ e = c
    BY <2>1, <1>5
  <2>2. CASE d = c /\ e # c
    BY <2>2, <1>4, <1>5, <1>6, <1>9
  <2>3. CASE d # c /\ e = c
    BY <2>3, <1>4, <1>5, <1>6, <1>9
  <2>4. CASE d # c /\ e # c
    BY <2>4, <1>4, <1>9 DEF Apart
  <2> QED
    BY <2>1, <2>2, <2>3, <2>4
<1>10. \A n \in DOMAIN keys' : keys'[n].at <= now
  BY <1>1, <1>3 DEF Apart
<1>11. Apart'
  BY <1>2, <1>8, <1>9, <1>10 DEF Apart, Near
<1> QED
  BY <1>7, <1>11

\* Every step keeps it.
LEMMA AnswerStep == AnswerInv /\ [Next]_vars => AnswerInv'
<1> SUFFICES ASSUME AnswerInv, [Next]_vars PROVE AnswerInv'
  OBVIOUS
<1>1. NameInv'
  BY NameStep DEF AnswerInv
<1> SUFFICES Backed' /\ Apart'
  BY <1>1 DEF AnswerInv
<1>2. now \in Int /\ TTL \in Int /\ Skew \in Int
      /\ \A k \in DOMAIN keys : keys[k].at \in Int
  BY IdempotencyAssumption
     DEF IdempotencyAssumption, AnswerInv, NameInv, TypeOK, Times, Entry
<1>3. ASSUME NEW c \in Clients, ClientStep(c)
      PROVE  Backed' /\ Apart'
  <2>1. ASSUME NEW r \in Request, Submit(c, r)
        PROVE  Backed' /\ Apart'
    BY <2>1, <1>1, AnswerSubmit
  <2>2. CASE Store(c)
    BY <2>2, <1>1, AnswerStore
  <2>3. CASE Replay(c)
    <3>1. /\ UNCHANGED <<now, orders, drawn, keys, req>>
          /\ \A d \in Clients \ {c} :
               pc'[d] = pc[d] /\ held'[d] = held[d] /\ answer'[d] = answer[d]
          /\ pc[c] = "replay" /\ pc'[c] # "replay"
          /\ answer'[c] \in {answer[c], held[c]}
      BY <2>3 DEF Replay, AnswerInv, NameInv, TypeOK
    <3>2. \A d \in Clients : Given(d)' \subseteq Given(d)
      BY <3>1 DEF Given
    <3> QED
      BY <3>1, <3>2, <1>1, <1>2, NothingGiven
  <2>4. ASSUME NEW o \in OrderIds, Dispatch(c, o)
        PROVE  Backed' /\ Apart'
    <3>1. /\ UNCHANGED <<now, keys, req, answer>>
          /\ o \notin drawn /\ drawn' = drawn \cup {o}
          /\ DOMAIN orders' = DOMAIN orders \cup {o}
          /\ \A d \in Clients \ {c} : pc'[d] = pc[d] /\ held'[d] = held[d]
          /\ pc[c] = "dispatch" /\ pc'[c] = "store"
      BY <2>4 DEF Dispatch, With, AnswerInv, NameInv, TypeOK
    <3>2. \A d \in Clients : Given(d)' \subseteq Given(d)
      BY <3>1 DEF Given
    <3>3. DOMAIN orders' \cap drawn \subseteq DOMAIN orders
      BY <3>1
    <3> QED
      BY <3>1, <3>2, <3>3, <1>1, <1>2, NothingGiven
  <2>5. CASE Refuse(c) \/ StoreRaises(c) \/ Crash(c)
    <3>1. /\ UNCHANGED <<now, orders, drawn, keys, req, answer>>
          /\ \A d \in Clients \ {c} : pc'[d] = pc[d] /\ held'[d] = held[d]
          /\ pc'[c] = "idle"
      BY <2>5 DEF Refuse, StoreRaises, Crash, AnswerInv, NameInv, TypeOK
    <3>2. \A d \in Clients : Given(d)' \subseteq Given(d)
      BY <3>1 DEF Given
    <3> QED
      BY <3>1, <3>2, <1>1, <1>2, NothingGiven
  <2> QED
    BY <1>3, <2>1, <2>2, <2>3, <2>4, <2>5 DEF ClientStep
<1>4. CASE Reset
  <2>1. /\ UNCHANGED <<now, drawn, pc, req, held, answer>>
        /\ DOMAIN orders' = {}
        /\ DOMAIN keys' \subseteq DOMAIN keys
        /\ \A k \in DOMAIN keys' : keys'[k] = keys[k]
    BY <1>4 DEF Reset, Without
  <2>2. \A d \in Clients : Given(d)' = Given(d)
    BY <2>1 DEF Given
  <2> QED
    BY <2>1, <2>2, <1>1, <1>2, NothingGiven
<1>5. CASE Cleanup
  <2>1. /\ UNCHANGED <<now, orders, drawn, pc, req, held, answer>>
        /\ DOMAIN keys' = DOMAIN keys \ Expired
        /\ \A k \in DOMAIN keys' : keys'[k] = keys[k]
    BY <1>5 DEF Cleanup, Without
  <2>2. \A d \in Clients : Given(d)' = Given(d)
    BY <2>1 DEF Given
  <2>3. \A k \in DOMAIN keys \ DOMAIN keys' : now - keys[k].at > TTL - Skew
    BY <2>1, <1>2 DEF Expired
  <2> QED
    BY <2>1, <2>2, <2>3, <1>1, <1>2, NothingGiven
<1>6. CASE Tick
  <2>1. /\ UNCHANGED <<orders, drawn, keys, pc, req, held, answer>>
        /\ now <= now'
    BY <1>6, <1>2 DEF Tick
  <2>2. \A d \in Clients : Given(d)' = Given(d)
    BY <2>1 DEF Given
  <2> QED
    BY <2>1, <2>2, <1>1, <1>2, NothingGiven
<1>7. CASE UNCHANGED vars
  <2>1. \A d \in Clients : Given(d)' = Given(d)
    BY <1>7 DEF Given, vars
  <2> QED
    BY <1>7, <2>1, <1>1, <1>2, NothingGiven DEF vars
<1> QED
  BY <1>3, <1>4, <1>5, <1>6, <1>7 DEF Next

\* With a clock ahead by Skew, answers within TTL - Skew of each other agree.
NearAnswersAgree ==
  \A c, d \in Clients :
    /\ answer[c] # None /\ answer[d] # None
    /\ req[c].key = req[d].key
    /\ {answer[c].order, answer[d].order} \subseteq DOMAIN orders
    /\ Near(answer[c].at, answer[d].at)
    => answer[c].order = answer[d].order

\* The invariant gives what Idempotency asks of near answers.
LEMMA AnswerInvAgrees == AnswerInv => NearAnswersAgree
<1> SUFFICES ASSUME AnswerInv PROVE NearAnswersAgree
  OBVIOUS
<1>1. \A c \in Clients : answer[c] # None => answer[c] \in Given(c)
  BY DEF AnswerInv, NameInv, TypeOK, Given
<1> QED
  BY <1>1 DEF AnswerInv, Apart, NearAnswersAgree

\* However the clocks of broker and cleanup differ, clients who retry under one
\* key are given one order for as long as both clocks protect the key
\* (idempotency.py, submit.py 221-238 and 500-508).
THEOREM IdempotencyNearAnswersAgree == Spec => []NearAnswersAgree
<1> QED
  BY AnswerInit, AnswerStep, AnswerInvAgrees, PTL DEF Spec

\* With one clock, that is the key's whole TTL.
THEOREM IdempotencyAnswersAgree ==
  ASSUME Skew = 0
  PROVE  Spec => []AnswersAgree
<1>1. AnswerInv => AnswersAgree
  <2> SUFFICES ASSUME AnswerInv,
                      NEW c \in Clients, NEW d \in Clients,
                      answer[c] # None, answer[d] # None,
                      req[c].key = req[d].key,
                      {answer[c].order, answer[d].order} \subseteq DOMAIN orders,
                      Overlap(answer[c].at, answer[d].at)
               PROVE  answer[c].order = answer[d].order
    BY DEF AnswersAgree
  <2>1. Near(answer[c].at, answer[d].at)
    BY IdempotencyAssumption DEF Near, Overlap, IdempotencyAssumption
  <2> QED
    BY <2>1, AnswerInvAgrees DEF NearAnswersAgree
<1> QED
  BY <1>1, AnswerInit, AnswerStep, PTL DEF Spec

\* With one clock, a key only goes before its TTL when its order does
\* (COOKBOOK.md 111).
THEOREM IdempotencyKeysLiveTheirTTL ==
  ASSUME Skew = 0
  PROVE  Spec => KeysLiveTheirTTL
<1> DEFINE Lives == \A k \in DOMAIN keys \ DOMAIN keys' :
                      \/ now - keys[k].at > TTL
                      \/ keys[k].order \notin DOMAIN orders'
<1>1. NameInv /\ [Next]_vars => [Lives]_vars
  <2> SUFFICES ASSUME NameInv, Next PROVE Lives
    BY DEF vars
  <2>1. CASE Reset
    BY <2>1 DEF Reset
  <2>2. CASE Cleanup
    <3>1. now \in Int /\ TTL \in Int /\ \A k \in DOMAIN keys : keys[k].at \in Int
      BY IdempotencyAssumption
         DEF IdempotencyAssumption, NameInv, TypeOK, Times, Entry
    <3> QED
      BY <2>2, <3>1 DEF Cleanup, Expired, Without
  <2>3. CASE Tick
    BY <2>3 DEF Tick
  <2>4. ASSUME NEW c \in Clients, ClientStep(c)
        PROVE  DOMAIN keys \subseteq DOMAIN keys'
    BY <2>4 DEF ClientStep, Submit, Replay, Dispatch, Refuse, Store, StoreRaises,
                Crash, With
  <2> QED
    BY <2>1, <2>2, <2>3, <2>4 DEF Next
<1> QED
  BY <1>1, NameInit, NameStep, PTL DEF Spec, KeysLiveTheirTTL

-----------------------------------------------------------------------------
(* Callbacks: one thread, and what is known of its lists *)

\* One thread uses the broker.
OneThread == \A t, u \in Threads : t = u

\* Nobody has been called with e.
Unsent(e) == \A s \in Subscribers : delivered[s][e] = 0

\* e is not in any list yet.
Unlisted(e) == \A l \in DOMAIN lists : \A j \in DOMAIN lists[l] : lists[l][j] # e

\* Who is inside a transaction: in front of its commit, a rights issue always.
Inside(t) ==
  stack[t] # <<>> /\ (Rights(t) \/ Top(t).pc \in {"append", "open"})

\* The transaction is its thread's, and its events are not in the log.
LockFits ==
  /\ \A t \in Threads : Inside(t) <=> lock = t
  /\ lock = NoThread => uncommitted = {}
  /\ uncommitted \cap log = {}

\* Only ordinary calls that are publishing are left waiting by a callback.
CallsNest ==
  \A t \in Threads : \A i \in 1..(Len(stack[t]) - 1) :
    stack[t][i].pc = "publish" /\ stack[t][i].op # "rights"

\* Every event is in one place of one list, and has a row.
EventsPlaced ==
  /\ \A l, m \in DOMAIN lists : \A i \in DOMAIN lists[l], j \in DOMAIN lists[m] :
       lists[l][i] = lists[m][j] => l = m /\ i = j
  /\ \A l \in DOMAIN lists : \A j \in DOMAIN lists[l] :
       lists[l][j] \in log \cup uncommitted

\* What is not in a list or waits in the current one was not sent, and nobody
\* is sent anything twice.
SentOnce ==
  /\ \A e \in Events : Unlisted(e) => Unsent(e)
  /\ \A j \in DOMAIN lists[pending] : Unsent(lists[pending][j])
  /\ \A s \in Subscribers, e \in Events : delivered[s][e] \in {0, 1}
  /\ IsInjective(subscribers)

Sending(f) == f.pc \in {"send", "publish"}

\* What a call knows where it is: what follows in its list was not sent, and
\* the subscribers that follow were not called with the event at hand.
Knows(f) ==
  /\ f.pc = "append" => /\ f.list = pending
                        /\ f.event \in uncommitted /\ Unlisted(f.event)
  /\ f.pc = "swap" => f.list = pending /\ f.next = 1
  /\ Sending(f) =>
       /\ f.list \in DOMAIN lists /\ f.list # pending /\ f.next >= 1
       /\ \A j \in DOMAIN lists[f.list] : j > f.next => Unsent(lists[f.list][j])
  /\ f.pc = "send" /\ f.next \in DOMAIN lists[f.list] =>
       Unsent(lists[f.list][f.next])
  /\ f.pc = "publish" =>
       /\ f.next \in DOMAIN lists[f.list] /\ f.sub >= 1
       /\ \A k \in DOMAIN subscribers : k >= f.sub =>
            delivered[subscribers[k]][lists[f.list][f.next]] = 0

Calls(t) == {stack[t][i] : i \in DOMAIN stack[t]}

\* Calls send from different lists.
OwnLists(t) ==
  \A i, j \in DOMAIN stack[t] :
    i # j /\ Sending(stack[t][i]) /\ Sending(stack[t][j]) =>
      stack[t][i].list # stack[t][j].list

CallsKnow == \A t \in Threads : OwnLists(t) /\ \A f \in Calls(t) : Knows(f)

BusInv == EventsTypeOK /\ LockFits /\ CallsNest /\ EventsPlaced /\ SentOnce /\ CallsKnow

-----------------------------------------------------------------------------
(* Stacks *)

\* The calls of t that wait for a callback.
Waiting(t) == {stack[t][i] : i \in 1..(Len(stack[t]) - 1)}

\* The stack of a thread that is inside the broker.
LEMMA TopFacts ==
  ASSUME EventsTypeOK, NEW t \in Threads, stack[t] # <<>>
  PROVE  /\ stack[t] \in Seq(Frame) /\ Len(stack[t]) \in Nat \ {0}
         /\ Top(t) = stack[t][Len(stack[t])] /\ Top(t) \in Frame
         /\ DOMAIN stack[t] = 1..Len(stack[t])
         /\ Waiting(t) \in SUBSET Frame
<1>1. stack[t] \in Seq(Frame)
  BY DEF EventsTypeOK
<1>2. Len(stack[t]) \in Nat \ {0}
  BY <1>1, EmptySeq
<1>3. Top(t) = stack[t][Len(stack[t])]
  BY DEF Top, Last
<1>4. \A i \in 1..Len(stack[t]) : stack[t][i] \in Frame
  BY <1>1, ElementOfSeq
<1>5. \A i \in 1..(Len(stack[t]) - 1) : i \in 1..Len(stack[t])
  BY <1>2
<1> QED
  BY <1>1, <1>2, <1>3, <1>4, <1>5, LenProperties DEF Waiting

\* The first elements of a sequence.
LEMMA FrontFacts ==
  ASSUME NEW F, NEW s \in Seq(F), s # <<>>
  PROVE  /\ Front(s) \in Seq(F) /\ Len(Front(s)) = Len(s) - 1
         /\ \A i \in 1..(Len(s) - 1) : Front(s)[i] = s[i]
<1>1. Len(s) \in Nat \ {0} /\ \A i \in 1..Len(s) : s[i] \in F
  BY EmptySeq, ElementOfSeq
<1> DEFINE m == Len(s) - 1
<1>2. m \in Nat /\ 1 \in Int /\ \A i \in 1..m : i \in 1..Len(s)
  BY <1>1
<1>3. Front(s) = SubSeq(s, 1, m)
  BY DEF Front
<1> HIDE DEF m
<1>4. \A i \in 1..m : s[i] \in F
  BY <1>1, <1>2
<1>5. /\ SubSeq(s, 1, m) \in Seq(F)
      /\ Len(SubSeq(s, 1, m)) = IF 1 <= m THEN m - 1 + 1 ELSE 0
      /\ \A i \in 1..(m - 1 + 1) : SubSeq(s, 1, m)[i] = s[1 + i - 1]
  BY <1>2, <1>4, SubSeqProperties
<1>6. Len(Front(s)) = m /\ \A i \in 1..m : Front(s)[i] = s[i]
  BY <1>2, <1>3, <1>5
<1> QED
  BY <1>3, <1>5, <1>6 DEF m

\* Another call is made.
LEMMA CallFacts ==
  ASSUME EventsTypeOK, NEW t \in Threads, NEW f \in Frame,
         stack' = [stack EXCEPT ![t] = Append(@, f)]
  PROVE  /\ stack' \in [Threads -> Seq(Frame)]
         /\ stack'[t] # <<>> /\ Len(stack'[t]) = Len(stack[t]) + 1
         /\ stack'[t][Len(stack[t]) + 1] = f
         /\ \A i \in 1..Len(stack[t]) : stack'[t][i] = stack[t][i]
<1>1. stack \in [Threads -> Seq(Frame)] /\ stack[t] \in Seq(Frame)
  BY DEF EventsTypeOK
<1>2. stack'[t] = Append(stack[t], f)
  BY <1>1
<1>3. /\ Append(stack[t], f) \in Seq(Frame)
      /\ Len(Append(stack[t], f)) = Len(stack[t]) + 1
      /\ \A i \in 1..Len(stack[t]) : Append(stack[t], f)[i] = stack[t][i]
      /\ Append(stack[t], f)[Len(stack[t]) + 1] = f
      /\ Append(stack[t], f) # <<>>
  BY <1>1
<1>4. stack' \in [Threads -> Seq(Frame)]
  BY <1>1, <1>2, <1>3
<1> QED
  BY <1>2, <1>3, <1>4

\* The innermost call moves on.
LEMMA MoveFacts ==
  ASSUME EventsTypeOK, NEW t \in Threads, stack[t] # <<>>, NEW f \in Frame,
         stack' = Moved(t, f)
  PROVE  /\ stack' \in [Threads -> Seq(Frame)]
         /\ stack'[t] # <<>> /\ Len(stack'[t]) = Len(stack[t])
         /\ stack'[t][Len(stack[t])] = f
         /\ \A i \in 1..(Len(stack[t]) - 1) : stack'[t][i] = stack[t][i]
<1>1. stack \in [Threads -> Seq(Frame)] /\ stack[t] \in Seq(Frame)
  BY DEF EventsTypeOK
<1> DEFINE s == Front(stack[t])
<1>2. stack'[t] = Append(s, f)
  BY <1>1 DEF Moved
<1>3. /\ s \in Seq(Frame) /\ Len(s) = Len(stack[t]) - 1
      /\ \A i \in 1..(Len(stack[t]) - 1) : s[i] = stack[t][i]
  BY <1>1, FrontFacts
<1>4. Len(stack[t]) \in Nat \ {0}
  BY TopFacts
<1>5. stack' = [stack EXCEPT ![t] = Append(s, f)]
  BY DEF Moved
<1> HIDE DEF s
<1>6. /\ Append(s, f) \in Seq(Frame)
      /\ Len(Append(s, f)) = Len(s) + 1
      /\ \A i \in 1..Len(s) : Append(s, f)[i] = s[i]
      /\ Append(s, f)[Len(s) + 1] = f
      /\ Append(s, f) # <<>>
  BY <1>3
<1>7. stack' \in [Threads -> Seq(Frame)]
  BY <1>1, <1>5, <1>6
<1>8. Len(s) + 1 = Len(stack[t])
  BY <1>3, <1>4
<1> QED
  BY <1>2, <1>3, <1>6, <1>7, <1>8

\* The innermost call returns.
LEMMA ReturnFacts ==
  ASSUME EventsTypeOK, NEW t \in Threads, stack[t] # <<>>, stack' = Returned(t)
  PROVE  /\ stack' \in [Threads -> Seq(Frame)]
         /\ Len(stack'[t]) = Len(stack[t]) - 1
         /\ \A i \in 1..(Len(stack[t]) - 1) : stack'[t][i] = stack[t][i]
<1>1. stack \in [Threads -> Seq(Frame)] /\ stack[t] \in Seq(Frame)
  BY DEF EventsTypeOK
<1>2. stack'[t] = Front(stack[t])
  BY <1>1 DEF Returned
<1>3. /\ Front(stack[t]) \in Seq(Frame) /\ Len(Front(stack[t])) = Len(stack[t]) - 1
      /\ \A i \in 1..(Len(stack[t]) - 1) : Front(stack[t])[i] = stack[t][i]
  BY <1>1, FrontFacts
<1>4. stack' \in [Threads -> Seq(Frame)]
  BY <1>1, <1>3 DEF Returned
<1> QED
  BY <1>2, <1>3, <1>4

\* One element less.
LEMMA RemoveAtFacts ==
  ASSUME NEW S, NEW s \in Seq(S), NEW i \in DOMAIN s
  PROVE  /\ RemoveAt(s, i) \in Seq(S) /\ Len(RemoveAt(s, i)) = Len(s) - 1
         /\ \A k \in 1..(Len(s) - 1) :
              RemoveAt(s, i)[k] = IF k < i THEN s[k] ELSE s[k + 1]
<1> DEFINE n == Len(s)
           a == SubSeq(s, 1, i - 1)
           b == SubSeq(s, i + 1, n)
<1>1. n \in Nat /\ i \in 1..n /\ \A k \in 1..n : s[k] \in S
  BY LenProperties, ElementOfSeq
<1>2. /\ a \in Seq(S) /\ Len(a) = i - 1
      /\ \A k \in 1..(i - 1) : a[k] = s[k]
  <2>1. /\ a \in Seq(S) /\ Len(a) = (IF 1 <= i - 1 THEN i - 1 - 1 + 1 ELSE 0)
        /\ \A k \in 1..(i - 1 - 1 + 1) : a[k] = s[1 + k - 1]
    <3>1. 1 \in Int /\ i - 1 \in Int /\ \A k \in 1..(i - 1) : s[k] \in S
      BY <1>1
    <3> QED
      BY <3>1, SubSeqProperties
  <2> HIDE DEF a
  <2> QED
    BY <1>1, <2>1
<1>3. /\ b \in Seq(S) /\ Len(b) = n - i
      /\ \A k \in 1..(n - i) : b[k] = s[i + k]
  <2>1. /\ b \in Seq(S) /\ Len(b) = (IF i + 1 <= n THEN n - (i + 1) + 1 ELSE 0)
        /\ \A k \in 1..(n - (i + 1) + 1) : b[k] = s[i + 1 + k - 1]
    <3>1. i + 1 \in Int /\ n \in Int /\ \A k \in (i + 1)..n : s[k] \in S
      BY <1>1
    <3> QED
      BY <3>1, SubSeqProperties
  <2> HIDE DEF b
  <2> QED
    BY <1>1, <2>1
<1>4. RemoveAt(s, i) = a \o b
  BY DEF RemoveAt
<1> HIDE DEF n, a, b
<1>5. /\ a \o b \in Seq(S) /\ Len(a \o b) = Len(a) + Len(b)
      /\ \A k \in 1..(Len(a) + Len(b)) :
           (a \o b)[k] = IF k <= Len(a) THEN a[k] ELSE b[k - Len(a)]
  BY <1>2, <1>3, ConcatProperties
<1>6. Len(a) + Len(b) = n - 1
  BY <1>1, <1>2, <1>3
<1>7. \A k \in 1..(n - 1) : (a \o b)[k] = IF k < i THEN s[k] ELSE s[k + 1]
  <2> SUFFICES ASSUME NEW k \in 1..(n - 1)
               PROVE  (a \o b)[k] = IF k < i THEN s[k] ELSE s[k + 1]
    OBVIOUS
  <2>1. CASE k < i
    <3>1. k \in 1..(i - 1) /\ k <= Len(a)
      BY <1>1, <1>2, <2>1
    <3> QED
      BY <1>2, <1>5, <1>6, <2>1, <3>1
  <2>2. CASE ~(k < i)
    <3>1. ~(k <= Len(a)) /\ k - Len(a) \in 1..(n - i) /\ i + (k - Len(a)) = k + 1
      BY <1>1, <1>2, <2>2
    <3> QED
      BY <1>3, <1>5, <1>6, <2>2, <3>1
  <2> QED
    BY <2>1, <2>2
<1> QED
  BY <1>4, <1>5, <1>6, <1>7 DEF n

-----------------------------------------------------------------------------
(* Types *)

\* The lists after an append.
LEMMA AppendFacts ==
  ASSUME EventsTypeOK, NEW l \in Nat, NEW e \in Events,
         lists' = [lists EXCEPT ![l] = Append(@, e)]
  PROVE  lists' \in Seq(Seq(Events)) /\ Len(lists') = Len(lists)
<1>1. lists \in Seq(Seq(Events))
  BY DEF EventsTypeOK
<1>2. CASE l \in 1..Len(lists)
  <2>1. lists[l] \in Seq(Events)
    BY <1>1, <1>2, ElementOfSeq
  <2>2. Append(lists[l], e) \in Seq(Events)
    BY <2>1
  <2>3. lists' = [lists EXCEPT ![l] = Append(lists[l], e)]
    OBVIOUS
  <2> QED
    BY <1>1, <1>2, <2>2, <2>3, ExceptSeq
<1>3. CASE l \notin 1..Len(lists)
  <2>1. lists' = lists
    BY <1>1, <1>3
  <2> QED
    BY <1>1, <2>1
<1> QED
  BY <1>2, <1>3

\* The lists after a swap.
LEMMA SwapFacts ==
  ASSUME EventsTypeOK, lists' = Append(lists, <<>>), pending' = Len(lists) + 1
  PROVE  /\ lists' \in Seq(Seq(Events)) /\ Len(lists') = Len(lists) + 1
         /\ pending' \in 1..Len(lists') /\ lists'[pending'] = <<>>
         /\ \A l \in 1..Len(lists) : lists'[l] = lists[l]
<1>1. lists \in Seq(Seq(Events)) /\ <<>> \in Seq(Events) /\ Len(lists) \in Nat
  BY DEF EventsTypeOK
<1>2. /\ Append(lists, <<>>) \in Seq(Seq(Events))
      /\ Len(Append(lists, <<>>)) = Len(lists) + 1
      /\ \A l \in 1..Len(lists) : Append(lists, <<>>)[l] = lists[l]
      /\ Append(lists, <<>>)[Len(lists) + 1] = <<>>
  BY <1>1, AppendProperties
<1> QED
  BY <1>1, <1>2

\* Each step keeps the types.
LEMMA EventsTypeStep ==
  ASSUME EventsTypeOK, [EventsNext]_eventVars
  PROVE  EventsTypeOK'
<1>0. /\ lock \in Threads \cup {NoThread}
      /\ uncommitted \subseteq Events /\ log \subseteq Events
      /\ lists \in Seq(Seq(Events)) /\ pending \in 1..Len(lists)
      /\ Len(lists) \in Nat /\ pending \in Nat /\ Len(lists) + 1 \in Nat
      /\ stack \in [Threads -> Seq(Frame)]
      /\ subscribers \in Seq(Subscribers)
      /\ delivered \in [Subscribers -> [Events -> Nat]]
  BY DEF EventsTypeOK
<1>1. ASSUME NEW t \in Threads, NEW op \in Operations, NEW e \in Events, Begin(t, op, e)
      PROVE  EventsTypeOK'
  <2> DEFINE f == [op |-> op, pc |-> "append", event |-> e, list |-> pending,
                   next |-> 1, sub |-> 1]
  <2>1. f \in Frame
    BY <1>0 DEF Frame
  <2>2. stack' = [stack EXCEPT ![t] = Append(@, f)]
    BY <1>1 DEF Begin
  <2> HIDE DEF f
  <2>3. stack' \in [Threads -> Seq(Frame)]
    BY <2>1, <2>2, CallFacts
  <2> QED
    BY <1>0, <1>1, <2>3 DEF Begin, EventsTypeOK, busVars
<1>2. ASSUME NEW t \in Threads, stack[t] # <<>>, stack' = Returned(t)
      PROVE  stack' \in [Threads -> Seq(Frame)]
  BY <1>2, ReturnFacts
<1>3. ASSUME NEW t \in Threads, stack[t] # <<>>,
             \E f \in Frame : stack' = Moved(t, f)
      PROVE  stack' \in [Threads -> Seq(Frame)]
  BY <1>3, MoveFacts
<1>4. ASSUME NEW t \in Threads, stack[t] # <<>>, Drained(t)
      PROVE  stack' \in [Threads -> Seq(Frame)]
  <2>1. [Top(t) EXCEPT !.pc = "commit"] \in Frame
    BY <1>4, TopFacts DEF Frame
  <2> QED
    BY <1>2, <1>3, <1>4, <2>1 DEF Drained
<1>5. ASSUME NEW t \in Threads, NEW e \in Events, EmitMore(t, e)
      PROVE  EventsTypeOK'
  <2>1. stack[t] # <<>>
    BY <1>5 DEF EmitMore, At
  <2>2. [Top(t) EXCEPT !.pc = "append", !.event = e, !.list = pending] \in Frame
    BY <1>0, <2>1, TopFacts DEF Frame
  <2>3. stack' \in [Threads -> Seq(Frame)]
    BY <1>3, <1>5, <2>1, <2>2 DEF EmitMore
  <2> QED
    BY <1>0, <1>5, <2>3 DEF EmitMore, EventsTypeOK, busVars
<1>6. ASSUME NEW t \in Threads, Proceed(t)
      PROVE  EventsTypeOK'
  <2>1. stack[t] # <<>>
    BY <1>6 DEF Proceed, AppendEvent, Commit, DrainInside, TestPending, Take, Swap,
                Send, Publish, At
  <2>2. Top(t) \in Frame
    BY <2>1, TopFacts
  <2>3. \A point \in {"append", "open", "test", "take", "swap", "send", "publish", "commit"} :
          [Top(t) EXCEPT !.pc = point] \in Frame
    BY <2>2 DEF Frame
  <2>4. CASE AppendEvent(t)
    <3>1. stack' \in [Threads -> Seq(Frame)]
      BY <1>3, <2>1, <2>3, <2>4 DEF AppendEvent
    <3>2. Top(t).list \in Nat /\ Top(t).event \in Events
      BY <2>2 DEF Frame
    <3>3. lists' \in Seq(Seq(Events)) /\ Len(lists') = Len(lists)
      BY <2>4, <3>2, AppendFacts DEF AppendEvent
    <3> QED
      BY <1>0, <2>4, <3>1, <3>3 DEF AppendEvent, EventsTypeOK, busVars
  <2>5. CASE Commit(t)
    <3>1. stack' \in [Threads -> Seq(Frame)]
      BY <1>2, <1>3, <2>1, <2>3, <2>5 DEF Commit
    <3> QED
      BY <1>0, <2>5, <3>1 DEF Commit, EventsTypeOK, busVars
  <2>6. CASE DrainInside(t) \/ TestPending(t) \/ Take(t) \/ Send(t)
    <3>1. [Top(t) EXCEPT !.pc = "swap", !.list = pending, !.next = 1] \in Frame
      BY <1>0, <2>2 DEF Frame
    <3>2. [Top(t) EXCEPT !.pc = "publish", !.sub = 1] \in Frame
      BY <2>2 DEF Frame
    <3>3. stack' \in [Threads -> Seq(Frame)]
      BY <1>3, <1>4, <2>1, <2>3, <2>6, <3>1, <3>2
         DEF DrainInside, TestPending, Take, Send
    <3> QED
      BY <1>0, <2>6, <3>3
         DEF DrainInside, TestPending, Take, Send, EventsTypeOK, busVars
  <2>7. CASE Swap(t)
    <3>1. stack' \in [Threads -> Seq(Frame)]
      BY <1>3, <2>1, <2>3, <2>7 DEF Swap
    <3>2. lists' \in Seq(Seq(Events)) /\ pending' \in 1..Len(lists')
      BY <2>7, SwapFacts DEF Swap
    <3> QED
      BY <1>0, <2>7, <3>1, <3>2 DEF Swap, EventsTypeOK, busVars
  <2>8. CASE Publish(t)
    <3>1. Top(t).sub + 1 \in Nat /\ Top(t).next + 1 \in Nat
      BY <2>2 DEF Frame
    <3>2. /\ [Top(t) EXCEPT !.sub = @ + 1] \in Frame
          /\ [Top(t) EXCEPT !.pc = "send", !.next = @ + 1] \in Frame
      BY <2>2, <3>1 DEF Frame
    <3>3. stack' \in [Threads -> Seq(Frame)]
      BY <1>3, <2>1, <2>8, <3>2 DEF Publish
    <3>4. delivered' \in [Subscribers -> [Events -> Nat]]
      <4>1. ASSUME NEW s, NEW e, delivered' = [delivered EXCEPT ![s][e] = @ + 1]
            PROVE  delivered' \in [Subscribers -> [Events -> Nat]]
        <5> DEFINE d == [delivered[s] EXCEPT ![e] = @ + 1]
        <5>1. delivered' = [delivered EXCEPT ![s] = d]
          BY <4>1
        <5>2. s \in Subscribers => delivered[s] \in [Events -> Nat]
          BY <1>0
        <5>3. s \in Subscribers => d \in [Events -> Nat]
          <6>1. CASE e \in Events
            BY <5>2, <6>1
          <6>2. CASE e \notin Events
            <7>1. s \in Subscribers => d = delivered[s]
              BY <5>2, <6>2
            <7> HIDE DEF d
            <7> QED
              BY <5>2, <7>1
          <6> QED
            BY <6>1, <6>2
        <5> HIDE DEF d
        <5> QED
          BY <1>0, <5>1, <5>3
      <4> QED
        BY <1>0, <2>8, <4>1 DEF Publish
    <3> QED
      BY <1>0, <2>8, <3>3, <3>4 DEF Publish, EventsTypeOK
  <2> QED
    BY <1>6, <2>4, <2>5, <2>6, <2>7, <2>8 DEF Proceed
<1>7. ASSUME NEW s \in Subscribers, Subscribe(s)
      PROVE  EventsTypeOK'
  <2>1. subscribers' \in Seq(Subscribers)
    BY <1>0, <1>7, AppendProperties DEF Subscribe
  <2> QED
    BY <1>0, <1>7, <2>1 DEF Subscribe, EventsTypeOK
<1>8. ASSUME NEW s \in Subscribers, Unsubscribe(s)
      PROVE  EventsTypeOK'
  <2>1. subscribers' \in Seq(Subscribers)
    BY <1>0, <1>8, RemoveAtFacts DEF Unsubscribe
  <2> QED
    BY <1>0, <1>8, <2>1 DEF Unsubscribe, EventsTypeOK
<1>9. CASE UNCHANGED eventVars
  BY <1>9 DEF eventVars, busVars, EventsTypeOK
<1> QED
  BY <1>1, <1>5, <1>6, <1>7, <1>8, <1>9 DEF EventsNext

\* The types hold at the start.
LEMMA EventsTypeInit == EventsInit => EventsTypeOK
<1> SUFFICES ASSUME EventsInit PROVE EventsTypeOK
  OBVIOUS
<1>1. << <<>> >> \in Seq(Seq(Events)) /\ Len(<< <<>> >>) = 1
  OBVIOUS
<1>2. stack \in [Threads -> Seq(Frame)]
  BY DEF EventsInit
<1>3. delivered \in [Subscribers -> [Events -> Nat]]
  BY DEF EventsInit
<1> QED
  BY <1>1, <1>2, <1>3, EventsAssumption DEF EventsInit, EventsTypeOK, EventsAssumption

\* The bus keeps its types, for any number of threads.
THEOREM EventsTypes == EventsSpec => []EventsTypeOK
  BY EventsTypeInit, EventsTypeStep, PTL DEF EventsSpec

-----------------------------------------------------------------------------
(* Nothing stays behind *)

\* A thread on its way to a drain.
WillDrain(t) ==
  stack[t] # <<>> /\ Top(t).pc \in {"append", "open", "test", "take", "swap"}

\* What waits is waiting for somebody.
SomebodyDrains == lists[pending] # <<>> => \E t \in Threads : WillDrain(t)

\* A thread that has its drain ahead leaves it behind only when nothing waits.
LEMMA DrainStep ==
  ASSUME EventsTypeOK, SomebodyDrains, [EventsNext]_eventVars
  PROVE  SomebodyDrains'
<1>1. ASSUME NEW t \in Threads, \A u \in Threads : u # t => stack'[u] = stack[u],
             \/ WillDrain(t)'
             \/ lists'[pending'] = <<>>
             \/ ~WillDrain(t) /\ UNCHANGED <<lists, pending>>
      PROVE  SomebodyDrains'
  <2> SUFFICES ASSUME ~WillDrain(t), UNCHANGED <<lists, pending>>, lists[pending] # <<>>
               PROVE  \E u \in Threads : WillDrain(u)'
    BY <1>1 DEF SomebodyDrains
  <2>1. PICK u \in Threads : WillDrain(u)
    BY DEF SomebodyDrains
  <2> QED
    BY <1>1, <2>1 DEF WillDrain, Top
<1>2. ASSUME NEW t \in Threads, stack[t] # <<>>, NEW f \in Frame, stack' = Moved(t, f),
             f.pc \in {"append", "open", "test", "take", "swap"}
      PROVE  WillDrain(t)'
  <2>1. stack'[t] # <<>> /\ stack'[t][Len(stack'[t])] = f
    BY <1>2, MoveFacts
  <2> QED
    BY <1>2, <2>1 DEF WillDrain, Top, Last
<1>3. ASSUME NEW t \in Threads, NEW op \in Operations, NEW e \in Events, Begin(t, op, e)
      PROVE  SomebodyDrains'
  <2> DEFINE f == [op |-> op, pc |-> "append", event |-> e, list |-> pending,
                   next |-> 1, sub |-> 1]
  <2>1. f \in Frame /\ f.pc = "append"
    BY DEF Frame, EventsTypeOK
  <2>2. stack' = [stack EXCEPT ![t] = Append(@, f)]
    BY <1>3 DEF Begin
  <2> HIDE DEF f
  <2>3. stack'[t] # <<>> /\ stack'[t][Len(stack'[t])] = f
    BY <2>1, <2>2, CallFacts
  <2>4. WillDrain(t)'
    BY <2>1, <2>3 DEF WillDrain, Top, Last
  <2>5. \A u \in Threads : u # t => stack'[u] = stack[u]
    BY <2>2 DEF EventsTypeOK
  <2> QED
    BY <1>1, <2>4, <2>5
<1>4. ASSUME NEW t \in Threads, NEW e \in Events, EmitMore(t, e)
      PROVE  SomebodyDrains'
  <2>1. stack[t] # <<>>
    BY <1>4 DEF EmitMore, At
  <2> DEFINE f == [Top(t) EXCEPT !.pc = "append", !.event = e, !.list = pending]
  <2>2. f \in Frame /\ f.pc = "append"
    <3>1. Top(t) \in Frame /\ pending \in Nat
      BY <2>1, TopFacts DEF EventsTypeOK
    <3> QED
      BY <3>1 DEF Frame
  <2>3. stack' = Moved(t, f)
    BY <1>4 DEF EmitMore
  <2> HIDE DEF f
  <2>4. WillDrain(t)'
    BY <1>2, <2>1, <2>2, <2>3
  <2>5. \A u \in Threads : u # t => stack'[u] = stack[u]
    BY <2>3 DEF EventsTypeOK, Moved
  <2> QED
    BY <1>1, <2>4, <2>5
<1>5. ASSUME NEW t \in Threads, Proceed(t)
      PROVE  SomebodyDrains'
  <2>1. stack[t] # <<>>
    BY <1>5 DEF Proceed, AppendEvent, Commit, DrainInside, TestPending, Take, Swap,
                Send, Publish, At
  <2>2. Top(t) \in Frame
    BY <2>1, TopFacts
  <2>3. \A point \in {"append", "open", "test", "take", "swap"} :
          /\ [Top(t) EXCEPT !.pc = point] \in Frame
          /\ [Top(t) EXCEPT !.pc = point].pc = point
    BY <2>2 DEF Frame
  <2>4. \A u \in Threads : u # t => stack'[u] = stack[u]
    BY <1>5 DEF Proceed, AppendEvent, Commit, DrainInside, TestPending, Take, Swap,
                Send, Publish, Drained, Moved, Returned, EventsTypeOK
  <2>5. CASE AppendEvent(t) \/ DrainInside(t) \/ (Commit(t) /\ At(t, "open"))
    <3>1. WillDrain(t)'
      BY <1>2, <2>1, <2>3, <2>5 DEF AppendEvent, DrainInside, Commit, At
    <3> QED
      BY <1>1, <2>4, <3>1
  <2>6. CASE Commit(t) /\ ~At(t, "open")
    BY <1>1, <2>4, <2>6 DEF Commit, At, WillDrain
  <2>7. CASE TestPending(t)
    <3>1. CASE lists[pending] = <<>>
      <4>1. lists'[pending'] = <<>>
        BY <2>7, <3>1 DEF TestPending
      <4> QED
        BY <1>1, <2>4, <4>1
    <3>2. CASE lists[pending] # <<>>
      <4>1. WillDrain(t)'
        BY <1>2, <2>1, <2>3, <2>7, <3>2 DEF TestPending
      <4> QED
        BY <1>1, <2>4, <4>1
    <3> QED
      BY <3>1, <3>2
  <2>8. CASE Take(t)
    <3> DEFINE f == [Top(t) EXCEPT !.pc = "swap", !.list = pending, !.next = 1]
    <3>1. f \in Frame /\ f.pc = "swap"
      <4>1. pending \in Nat
        BY DEF EventsTypeOK
      <4> QED
        BY <2>2, <4>1 DEF Frame
    <3>2. stack' = Moved(t, f)
      BY <2>8 DEF Take
    <3> HIDE DEF f
    <3>3. WillDrain(t)'
      BY <1>2, <2>1, <3>1, <3>2
    <3> QED
      BY <1>1, <2>4, <3>3
  <2>9. CASE Swap(t)
    <3>1. lists'[pending'] = <<>>
      BY <2>9, SwapFacts DEF Swap
    <3> QED
      BY <1>1, <2>4, <3>1
  <2>10. CASE Send(t) \/ Publish(t)
    BY <1>1, <2>4, <2>10 DEF Send, Publish, At, WillDrain
  <2> QED
    BY <1>5, <2>5, <2>6, <2>7, <2>8, <2>9, <2>10 DEF Proceed
<1>6. ASSUME UNCHANGED <<lists, pending, stack>>
      PROVE  SomebodyDrains'
  BY <1>6 DEF SomebodyDrains, WillDrain, Top
<1>7. ASSUME NEW s \in Subscribers, Subscribe(s) \/ Unsubscribe(s)
      PROVE  SomebodyDrains'
  BY <1>6, <1>7 DEF Subscribe, Unsubscribe
<1>8. CASE UNCHANGED eventVars
  BY <1>6, <1>8 DEF eventVars
<1> QED
  BY <1>3, <1>4, <1>5, <1>7, <1>8 DEF EventsNext

\* Whoever emits also drains (_context.py 108-140, and its callers): when no
\* thread is inside the broker, no event is left waiting for the next call, for
\* any number of threads that swap and append without a lock.
THEOREM EventsQuietMeansDrained == EventsSpec => []QuietMeansDrained
<1>1. EventsInit => SomebodyDrains
  BY DEF EventsInit, SomebodyDrains
<1>2. EventsSpec => [](EventsTypeOK /\ SomebodyDrains)
  BY <1>1, EventsTypeInit, EventsTypeStep, DrainStep, PTL DEF EventsSpec
<1>3. SomebodyDrains => QuietMeansDrained
  BY DEF SomebodyDrains, QuietMeansDrained, WillDrain
<1> QED
  BY <1>2, <1>3, PTL

-----------------------------------------------------------------------------
(* Calls and their transactions *)

\* With one thread, the others are no concern.
LEMMA OnlyThread ==
  ASSUME OneThread, NEW t \in Threads, NEW u \in Threads
  PROVE  u = t
  BY DEF OneThread

\* After a move the innermost call is the new frame.
LEMMA MovedTop ==
  ASSUME EventsTypeOK, NEW t \in Threads, stack[t] # <<>>, NEW f \in Frame,
         stack' = Moved(t, f)
  PROVE  stack'[t] # <<>> /\ Top(t)' = f
  BY MoveFacts DEF Top, Last

\* After a return it is a call that waited.
LEMMA ReturnedTop ==
  ASSUME EventsTypeOK, CallsNest, NEW t \in Threads, stack[t] # <<>>,
         stack' = Returned(t), stack'[t] # <<>>
  PROVE  Top(t)'.pc = "publish" /\ Top(t)'.op # "rights"
<1>1. stack'[t] \in Seq(Frame) /\ Len(stack'[t]) = Len(stack[t]) - 1
  BY ReturnFacts
<1>2. Len(stack'[t]) \in Nat \ {0}
  BY <1>1, EmptySeq
<1>3. Len(stack'[t]) \in 1..(Len(stack[t]) - 1)
  BY <1>1, <1>2
<1>4. stack'[t][Len(stack'[t])] = stack[t][Len(stack'[t])]
  BY <1>3, ReturnFacts
<1> QED
  BY <1>3, <1>4 DEF CallsNest, Top, Last

\* The innermost call moves on within its operation, in or out of its
\* transaction.
LEMMA MovedNest ==
  ASSUME OneThread, EventsTypeOK, CallsNest, NEW t \in Threads, stack[t] # <<>>,
         NEW f \in Frame, stack' = Moved(t, f)
  PROVE  /\ CallsNest'
         /\ \A u \in Threads :
              Inside(u)' <=> (f.op = "rights" \/ f.pc \in {"append", "open"})
<1>1. Inside(t)' <=> (f.op = "rights" \/ f.pc \in {"append", "open"})
  BY MovedTop DEF Inside, Rights
<1>2. \A i \in 1..(Len(stack'[t]) - 1) : stack'[t][i] = stack[t][i]
  BY MoveFacts
<1>3. Len(stack'[t]) = Len(stack[t])
  BY MoveFacts
<1>4. CallsNest'
  <2> SUFFICES ASSUME NEW u \in Threads, NEW i \in 1..(Len(stack'[u]) - 1)
               PROVE  stack'[u][i].pc = "publish" /\ stack'[u][i].op # "rights"
    BY DEF CallsNest
  <2>1. u = t
    BY OnlyThread
  <2> QED
    BY <1>2, <1>3, <2>1 DEF CallsNest
<1>5. \A u \in Threads : u = t
  BY OnlyThread
<1> QED
  BY <1>1, <1>4, <1>5

\* The innermost call returns.
LEMMA ReturnedNest ==
  ASSUME OneThread, EventsTypeOK, CallsNest, NEW t \in Threads, stack[t] # <<>>,
         stack' = Returned(t)
  PROVE  CallsNest' /\ \A u \in Threads : ~Inside(u)'
<1>1. ~Inside(t)'
  BY ReturnedTop DEF Inside, Rights
<1>2. /\ Len(stack'[t]) = Len(stack[t]) - 1 /\ Len(stack[t]) \in Nat
      /\ \A i \in 1..(Len(stack[t]) - 1) : stack'[t][i] = stack[t][i]
  BY ReturnFacts, TopFacts
<1>3. \A i \in 1..(Len(stack'[t]) - 1) :
        i \in 1..(Len(stack[t]) - 1) /\ stack'[t][i] = stack[t][i]
  BY <1>2
<1>4. CallsNest'
  <2> SUFFICES ASSUME NEW u \in Threads, NEW i \in 1..(Len(stack'[u]) - 1)
               PROVE  stack'[u][i].pc = "publish" /\ stack'[u][i].op # "rights"
    BY DEF CallsNest
  <2>1. u = t
    BY OnlyThread
  <2> QED
    BY <1>3, <2>1 DEF CallsNest
<1>5. \A u \in Threads : u = t
  BY OnlyThread
<1> QED
  BY <1>1, <1>4, <1>5

\* A thread that begins a transaction waits in no other one.
LEMMA BeginNest ==
  ASSUME OneThread, EventsTypeOK, LockFits, CallsNest, NEW t \in Threads,
         NEW op \in Operations, NEW e \in Events, Begin(t, op, e),
         NEW f \in Frame, f.pc = "append",
         stack' = [stack EXCEPT ![t] = Append(@, f)]
  PROVE  /\ CallsNest' /\ Top(t)' = f
         /\ \A u \in Threads : Inside(u)'
         /\ \A i \in DOMAIN stack[t] :
              stack[t][i].pc = "publish" /\ stack[t][i].op # "rights"
<1>1. /\ stack'[t] # <<>> /\ Len(stack'[t]) = Len(stack[t]) + 1
      /\ stack'[t][Len(stack[t]) + 1] = f
      /\ \A i \in 1..Len(stack[t]) : stack'[t][i] = stack[t][i]
  BY CallFacts
<1>2. Top(t)' = f
  BY <1>1 DEF Top, Last
<1>3. Inside(t)'
  BY <1>1, <1>2 DEF Inside
<1>4. stack[t] \in Seq(Frame) /\ Len(stack[t]) \in Nat /\ DOMAIN stack[t] = 1..Len(stack[t])
  BY DEF EventsTypeOK
<1>5. lock # t
  BY EventsAssumption DEF Begin, EventsAssumption
<1>6. \A i \in 1..Len(stack[t]) : stack[t][i].pc = "publish" /\ stack[t][i].op # "rights"
  <2> SUFFICES ASSUME NEW i \in 1..Len(stack[t])
               PROVE  stack[t][i].pc = "publish" /\ stack[t][i].op # "rights"
    OBVIOUS
  <2>1. CASE i = Len(stack[t])
    <3>1. stack[t] # <<>>
      BY <1>4, <2>1
    <3>2. Top(t).pc = "publish" /\ ~Rights(t)
      BY <1>5, <3>1 DEF Begin, At, LockFits, Inside
    <3> QED
      BY <2>1, <3>1, <3>2, TopFacts DEF Rights
  <2>2. CASE i # Len(stack[t])
    <3>1. i \in 1..(Len(stack[t]) - 1)
      BY <1>4, <2>2
    <3> QED
      BY <3>1 DEF CallsNest
  <2> QED
    BY <2>1, <2>2
<1>7. CallsNest'
  <2> SUFFICES ASSUME NEW u \in Threads, NEW i \in 1..(Len(stack'[u]) - 1)
               PROVE  stack'[u][i].pc = "publish" /\ stack'[u][i].op # "rights"
    BY DEF CallsNest
  <2>1. u = t
    BY OnlyThread
  <2>2. i \in 1..Len(stack[t])
    BY <1>1, <1>4, <2>1
  <2> QED
    BY <1>1, <1>6, <2>1, <2>2
<1>8. \A u \in Threads : u = t
  BY OnlyThread
<1> QED
  BY <1>2, <1>3, <1>4, <1>6, <1>7, <1>8

\* Each step keeps lock and transaction together, and the calls nested.
LEMMA LockStep ==
  ASSUME OneThread, EventsTypeOK, LockFits, CallsNest, [EventsNext]_eventVars
  PROVE  LockFits' /\ CallsNest'
<1>1. ASSUME NEW t \in Threads, stack[t] # <<>>, NEW f \in Frame, stack' = Moved(t, f),
             f.op = Top(t).op,
             \/ f.pc \in {"append", "open"} /\ Top(t).pc \in {"append", "open"}
             \/ f.pc \notin {"append", "open"} /\ Top(t).pc \notin {"append", "open"}
      PROVE  CallsNest' /\ \A u \in Threads : Inside(u)' <=> Inside(u)
  <2>1. /\ CallsNest'
        /\ \A u \in Threads : Inside(u)' <=> (f.op = "rights" \/ f.pc \in {"append", "open"})
    BY <1>1, MovedNest
  <2>2. Inside(t) <=> (f.op = "rights" \/ f.pc \in {"append", "open"})
    BY <1>1 DEF Inside, Rights
  <2>3. \A u \in Threads : u = t
    BY OnlyThread
  <2> QED
    BY <2>1, <2>2, <2>3
<1>2. ASSUME NEW t \in Threads, stack[t] # <<>>, stack' = Returned(t), ~Rights(t),
             Top(t).pc \notin {"append", "open"},
             lock' = lock, log' = log, uncommitted' = uncommitted
      PROVE  LockFits' /\ CallsNest'
  <2>1. CallsNest' /\ \A u \in Threads : ~Inside(u)'
    BY <1>2, ReturnedNest
  <2>2. ~Inside(t)
    BY <1>2 DEF Inside
  <2>3. \A u \in Threads : u = t
    BY OnlyThread
  <2> QED
    BY <1>2, <2>1, <2>2, <2>3 DEF LockFits
<1>3. ASSUME NEW t \in Threads, NEW op \in Operations, NEW e \in Events, Begin(t, op, e)
      PROVE  LockFits' /\ CallsNest'
  <2>1. PICK f \in Frame : /\ f.pc = "append"
                           /\ stack' = [stack EXCEPT ![t] = Append(@, f)]
    <3>1. [op |-> op, pc |-> "append", event |-> e, list |-> pending,
           next |-> 1, sub |-> 1] \in Frame
      BY DEF Frame, EventsTypeOK
    <3> QED
      BY <1>3, <3>1 DEF Begin
  <2>2. CallsNest' /\ \A u \in Threads : Inside(u)'
    BY <1>3, <2>1, BeginNest
  <2>3. lock' = t /\ t # NoThread /\ uncommitted' = {e} /\ e \notin log /\ log' = log
    BY <1>3, EventsAssumption DEF Begin, Fresh, EventsAssumption
  <2>4. \A u \in Threads : u = t
    BY OnlyThread
  <2> QED
    BY <2>2, <2>3, <2>4 DEF LockFits
<1>4. ASSUME NEW t \in Threads, NEW e \in Events, EmitMore(t, e)
      PROVE  LockFits' /\ CallsNest'
  <2>1. stack[t] # <<>> /\ Top(t).pc = "open"
    BY <1>4 DEF EmitMore, At
  <2>2. PICK f \in Frame : /\ f.op = Top(t).op /\ f.pc = "append"
                           /\ stack' = Moved(t, f)
    <3>1. Top(t) \in Frame /\ pending \in Nat
      BY <2>1, TopFacts DEF EventsTypeOK
    <3>2. /\ [Top(t) EXCEPT !.pc = "append", !.event = e, !.list = pending] \in Frame
          /\ [Top(t) EXCEPT !.pc = "append", !.event = e, !.list = pending].op = Top(t).op
      BY <3>1 DEF Frame
    <3> QED
      BY <1>4, <3>1, <3>2 DEF EmitMore, Frame
  <2>3. lock = t /\ lock # NoThread
    BY <2>1, EventsAssumption DEF LockFits, Inside, EventsAssumption
  <2>4. uncommitted' \cap log = {} /\ lock' = lock /\ log' = log
    BY <1>4 DEF EmitMore, Fresh, LockFits
  <2>5. CallsNest' /\ \A u \in Threads : Inside(u)' <=> Inside(u)
    BY <1>1, <2>1, <2>2
  <2> QED
    BY <2>3, <2>4, <2>5 DEF LockFits
<1>5. ASSUME NEW t \in Threads, Proceed(t)
      PROVE  LockFits' /\ CallsNest'
  <2>1. stack[t] # <<>>
    BY <1>5 DEF Proceed, AppendEvent, Commit, DrainInside, TestPending, Take, Swap,
                Send, Publish, At
  <2>2. Top(t) \in Frame /\ pending \in Nat
    BY <2>1, TopFacts DEF EventsTypeOK
  <2>3. ASSUME Drained(t), Top(t).pc \notin {"append", "open"},
               UNCHANGED <<lock, log, uncommitted>>
        PROVE  LockFits' /\ CallsNest'
    <3>1. CASE Rights(t)
      <4>1. /\ [Top(t) EXCEPT !.pc = "commit"] \in Frame
            /\ [Top(t) EXCEPT !.pc = "commit"].op = Top(t).op
            /\ [Top(t) EXCEPT !.pc = "commit"].pc = "commit"
        BY <2>2 DEF Frame
      <4>2. PICK f \in Frame : /\ f.op = Top(t).op /\ f.pc = "commit"
                               /\ stack' = Moved(t, f)
        BY <2>3, <3>1, <4>1 DEF Drained
      <4>3. CallsNest' /\ \A u \in Threads : Inside(u)' <=> Inside(u)
        BY <1>1, <2>1, <2>3, <4>2
      <4> QED
        BY <2>3, <4>3 DEF LockFits
    <3>2. CASE ~Rights(t)
      BY <1>2, <2>1, <2>3, <3>2 DEF Drained
    <3> QED
      BY <3>1, <3>2
  <2>4. ASSUME NEW point \in {"append", "open", "test", "take", "swap", "send", "publish", "commit"}
        PROVE  /\ [Top(t) EXCEPT !.pc = point] \in Frame
               /\ [Top(t) EXCEPT !.pc = point].op = Top(t).op
               /\ [Top(t) EXCEPT !.pc = point].pc = point
    BY <2>2 DEF Frame
  <2>5. CASE Commit(t)
    <3>1. CallsNest' /\ \A u \in Threads : ~Inside(u)'
      <4>1. CASE stack' = Returned(t)
        BY <2>1, <4>1, ReturnedNest
      <4>2. CASE ~Rights(t) /\ stack' = Moved(t, [Top(t) EXCEPT !.pc = "test"])
        <5>1. PICK f \in Frame : f.op # "rights" /\ f.pc = "test" /\ stack' = Moved(t, f)
          BY <2>4, <4>2 DEF Rights
        <5> QED
          BY <2>1, <5>1, MovedNest
      <4> QED
        BY <2>5, <4>1, <4>2 DEF Commit
    <3> QED
      BY <2>5, <3>1, EventsAssumption DEF Commit, LockFits, EventsAssumption
  <2>6. CASE AppendEvent(t)
    <3>1. PICK f \in Frame : f.op = Top(t).op /\ f.pc = "open" /\ stack' = Moved(t, f)
      BY <2>4, <2>6 DEF AppendEvent
    <3>2. CallsNest' /\ \A u \in Threads : Inside(u)' <=> Inside(u)
      BY <1>1, <2>1, <2>6, <3>1 DEF AppendEvent, At
    <3> QED
      BY <2>6, <3>2 DEF AppendEvent, LockFits
  <2>7. CASE DrainInside(t)
    <3>1. PICK f \in Frame : f.op = Top(t).op /\ f.pc = "test" /\ stack' = Moved(t, f)
      BY <2>4, <2>7 DEF DrainInside
    <3>2. CallsNest' /\ \A u \in Threads : Inside(u)'
      BY <2>1, <2>7, <3>1, MovedNest DEF DrainInside, Rights
    <3>3. \A u \in Threads : Inside(u)
      BY <2>1, <2>7, OnlyThread DEF DrainInside, Inside
    <3> QED
      BY <2>7, <3>2, <3>3 DEF DrainInside, LockFits
  <2>8. CASE TestPending(t)
    <3>1. CASE stack' = Moved(t, [Top(t) EXCEPT !.pc = "take"])
      <4>1. PICK f \in Frame : f.op = Top(t).op /\ f.pc = "take" /\ stack' = Moved(t, f)
        BY <2>4, <3>1
      <4>2. CallsNest' /\ \A u \in Threads : Inside(u)' <=> Inside(u)
        BY <1>1, <2>1, <2>8, <4>1 DEF TestPending, At
      <4> QED
        BY <2>8, <4>2 DEF TestPending, LockFits
    <3>2. CASE Drained(t)
      BY <2>3, <2>8, <3>2 DEF TestPending, At
    <3> QED
      BY <2>8, <3>1, <3>2 DEF TestPending
  <2>9. CASE Take(t)
    <3> DEFINE g == [Top(t) EXCEPT !.pc = "swap", !.list = pending, !.next = 1]
    <3>1. g \in Frame /\ g.op = Top(t).op /\ g.pc = "swap"
      BY <2>2 DEF Frame
    <3>2. stack' = Moved(t, g)
      BY <2>9 DEF Take
    <3> HIDE DEF g
    <3>3. PICK f \in Frame : f.op = Top(t).op /\ f.pc = "swap" /\ stack' = Moved(t, f)
      BY <3>1, <3>2
    <3>4. CallsNest' /\ \A u \in Threads : Inside(u)' <=> Inside(u)
      BY <1>1, <2>1, <2>9, <3>3 DEF Take, At
    <3> QED
      BY <2>9, <3>4 DEF Take, LockFits
  <2>10. CASE Swap(t)
    <3>1. PICK f \in Frame : f.op = Top(t).op /\ f.pc = "send" /\ stack' = Moved(t, f)
      BY <2>4, <2>10 DEF Swap
    <3>2. CallsNest' /\ \A u \in Threads : Inside(u)' <=> Inside(u)
      BY <1>1, <2>1, <2>10, <3>1 DEF Swap, At
    <3> QED
      BY <2>10, <3>2 DEF Swap, LockFits
  <2>11. CASE Send(t)
    <3>1. CASE stack' = Moved(t, [Top(t) EXCEPT !.pc = "publish", !.sub = 1])
      <4> DEFINE g == [Top(t) EXCEPT !.pc = "publish", !.sub = 1]
      <4>1. g \in Frame /\ g.op = Top(t).op /\ g.pc = "publish"
        BY <2>2 DEF Frame
      <4>2. stack' = Moved(t, g)
        BY <3>1
      <4> HIDE DEF g
      <4>3. PICK f \in Frame : f.op = Top(t).op /\ f.pc = "publish" /\ stack' = Moved(t, f)
        BY <4>1, <4>2
      <4>4. CallsNest' /\ \A u \in Threads : Inside(u)' <=> Inside(u)
        BY <1>1, <2>1, <2>11, <4>3 DEF Send, At
      <4> QED
        BY <2>11, <4>4 DEF Send, LockFits
    <3>2. CASE Drained(t)
      BY <2>3, <2>11, <3>2 DEF Send, At
    <3> QED
      BY <2>11, <3>1, <3>2 DEF Send
  <2>12. CASE Publish(t)
    <3>1. Top(t).sub + 1 \in Nat /\ Top(t).next + 1 \in Nat
      BY <2>2 DEF Frame
    <3>2. /\ [Top(t) EXCEPT !.sub = @ + 1] \in Frame
          /\ [Top(t) EXCEPT !.sub = @ + 1].op = Top(t).op
          /\ [Top(t) EXCEPT !.sub = @ + 1].pc = Top(t).pc
          /\ [Top(t) EXCEPT !.pc = "send", !.next = @ + 1] \in Frame
          /\ [Top(t) EXCEPT !.pc = "send", !.next = @ + 1].op = Top(t).op
          /\ [Top(t) EXCEPT !.pc = "send", !.next = @ + 1].pc = "send"
      BY <2>2, <3>1 DEF Frame
    <3>3. PICK f \in Frame : /\ f.op = Top(t).op /\ f.pc \in {"publish", "send"}
                             /\ stack' = Moved(t, f)
      BY <2>12, <3>2 DEF Publish, At
    <3>4. CallsNest' /\ \A u \in Threads : Inside(u)' <=> Inside(u)
      BY <1>1, <2>1, <2>12, <3>3 DEF Publish, At
    <3> QED
      BY <2>12, <3>4 DEF Publish, LockFits
  <2> QED
    BY <1>5, <2>5, <2>6, <2>7, <2>8, <2>9, <2>10, <2>11, <2>12 DEF Proceed
<1>6. ASSUME UNCHANGED <<lock, uncommitted, log, stack>>
      PROVE  LockFits' /\ CallsNest'
  BY <1>6 DEF LockFits, CallsNest, Inside, Rights, Top
<1>7. ASSUME NEW s \in Subscribers, Subscribe(s) \/ Unsubscribe(s)
      PROVE  LockFits' /\ CallsNest'
  BY <1>6, <1>7 DEF Subscribe, Unsubscribe
<1>8. CASE UNCHANGED eventVars
  BY <1>6, <1>8 DEF eventVars
<1> QED
  BY <1>3, <1>4, <1>5, <1>7, <1>8 DEF EventsNext

-----------------------------------------------------------------------------
(* What a call knows *)

\* The calls that wait are sending, each from a list of its own.
LEMMA WaitingFacts ==
  ASSUME EventsTypeOK, CallsNest, CallsKnow, NEW t \in Threads, stack[t] # <<>>,
         NEW g \in Waiting(t)
  PROVE  /\ g \in Frame /\ g.pc = "publish" /\ Knows(g)
         /\ Sending(Top(t)) => g.list # Top(t).list
<1>1. PICK i \in 1..(Len(stack[t]) - 1) : g = stack[t][i]
  BY DEF Waiting
<1>2. g.pc = "publish"
  BY <1>1 DEF CallsNest
<1>3. i \in DOMAIN stack[t] /\ Len(stack[t]) \in DOMAIN stack[t] /\ i # Len(stack[t])
  BY TopFacts
<1>4. Knows(g)
  BY <1>1, <1>3 DEF CallsKnow, Calls
<1>5. Sending(Top(t)) => g.list # Top(t).list
  BY <1>1, <1>2, <1>3, TopFacts DEF CallsKnow, OwnLists, Sending
<1> QED
  BY <1>2, <1>4, <1>5, TopFacts

\* The innermost call knows where it is.
LEMMA TopKnows ==
  ASSUME EventsTypeOK, CallsKnow, NEW t \in Threads, stack[t] # <<>>
  PROVE  Knows(Top(t))
<1>1. Len(stack[t]) \in DOMAIN stack[t] /\ Top(t) = stack[t][Len(stack[t])]
  BY TopFacts
<1>2. Top(t) \in Calls(t)
  BY <1>1 DEF Calls
<1> QED
  BY <1>2 DEF CallsKnow

\* The innermost call moves on, and no call waits with its list.
LEMMA MovedKnow ==
  ASSUME OneThread, EventsTypeOK, CallsNest, CallsKnow, NEW t \in Threads,
         stack[t] # <<>>, NEW f \in Frame, stack' = Moved(t, f), Knows(f)',
         \A g \in Waiting(t) : Knows(g)',
         Sending(f) => \A g \in Waiting(t) : g.list # f.list
  PROVE  CallsKnow'
<1> DEFINE n == Len(stack[t])
<1>1. /\ stack'[t] \in Seq(Frame) /\ Len(stack'[t]) = n /\ stack'[t][n] = f
      /\ \A i \in 1..(n - 1) : stack'[t][i] = stack[t][i]
  BY MoveFacts
<1>2. /\ n \in Nat \ {0} /\ DOMAIN stack[t] = 1..n /\ DOMAIN stack'[t] = 1..n
  BY <1>1, TopFacts
<1>3. \A i \in 1..(n - 1) : stack[t][i] \in Waiting(t)
  BY DEF Waiting
<1> HIDE DEF n
<1>4. \A g \in Calls(t)' : Knows(g)'
  <2> SUFFICES ASSUME NEW i \in 1..n, NEW g, g = stack'[t][i]
               PROVE  Knows(g)'
    BY <1>2 DEF Calls
  <2>1. CASE i = n
    <3>1. g = f
      BY <1>1, <2>1
    <3> QED
      BY <3>1
  <2>2. CASE i # n
    <3>1. i \in 1..(n - 1)
      BY <1>2, <2>2
    <3>2. g \in Waiting(t)
      BY <1>1, <1>3, <3>1
    <3> QED
      BY <3>2
  <2> QED
    BY <2>1, <2>2
<1>5. ASSUME NEW i \in 1..n, NEW j \in 1..n, i # j, Sending(stack'[t][i]), Sending(stack'[t][j])
      PROVE  stack'[t][i].list # stack'[t][j].list
  <2>1. CASE i = n
    <3>1. j \in 1..(n - 1)
      BY <1>2, <1>5, <2>1
    <3> QED
      BY <1>1, <1>3, <1>5, <2>1, <3>1
  <2>2. CASE j = n
    <3>1. i \in 1..(n - 1)
      BY <1>2, <1>5, <2>2
    <3> QED
      BY <1>1, <1>3, <1>5, <2>2, <3>1
  <2>3. CASE i # n /\ j # n
    <3>1. i \in 1..(n - 1) /\ j \in 1..(n - 1) /\ i \in DOMAIN stack[t] /\ j \in DOMAIN stack[t]
      BY <1>2, <2>3
    <3> QED
      BY <1>1, <1>5, <3>1 DEF CallsKnow, OwnLists
  <2> QED
    BY <2>1, <2>2, <2>3
<1>6. OwnLists(t)'
  BY <1>2, <1>5 DEF OwnLists, Sending
<1>7. \A u \in Threads : u = t
  BY OnlyThread
<1> QED
  BY <1>4, <1>6, <1>7 DEF CallsKnow

\* The innermost call returns.
LEMMA ReturnedKnow ==
  ASSUME OneThread, EventsTypeOK, CallsNest, CallsKnow, NEW t \in Threads,
         stack[t] # <<>>, stack' = Returned(t), \A g \in Waiting(t) : Knows(g)'
  PROVE  CallsKnow'
<1> DEFINE n == Len(stack[t])
<1>1. /\ stack'[t] \in Seq(Frame) /\ Len(stack'[t]) = n - 1
      /\ \A i \in 1..(n - 1) : stack'[t][i] = stack[t][i]
  BY ReturnFacts
<1>2. /\ n \in Nat \ {0} /\ DOMAIN stack[t] = 1..n /\ DOMAIN stack'[t] = 1..(n - 1)
  BY <1>1, TopFacts
<1>3. \A i \in 1..(n - 1) : stack[t][i] \in Waiting(t)
  BY DEF Waiting
<1> HIDE DEF n
<1>4. \A g \in Calls(t)' : Knows(g)'
  <2> SUFFICES ASSUME NEW i \in 1..(n - 1), NEW g, g = stack'[t][i]
               PROVE  Knows(g)'
    BY <1>2 DEF Calls
  <2>1. g \in Waiting(t)
    BY <1>1, <1>3
  <2> QED
    BY <2>1
<1>5. ASSUME NEW i \in 1..(n - 1), NEW j \in 1..(n - 1), i # j,
             Sending(stack'[t][i]), Sending(stack'[t][j])
      PROVE  stack'[t][i].list # stack'[t][j].list
  <2>1. i \in DOMAIN stack[t] /\ j \in DOMAIN stack[t]
    BY <1>2
  <2> QED
    BY <1>1, <1>5, <2>1 DEF CallsKnow, OwnLists
<1>6. OwnLists(t)'
  BY <1>2, <1>5 DEF OwnLists, Sending
<1>7. \A u \in Threads : u = t
  BY OnlyThread
<1> QED
  BY <1>4, <1>6, <1>7 DEF CallsKnow

\* A callback calls the broker again.
LEMMA CalledKnow ==
  ASSUME OneThread, EventsTypeOK, CallsKnow, NEW t \in Threads, NEW f \in Frame,
         stack' = [stack EXCEPT ![t] = Append(@, f)], Knows(f)', ~Sending(f),
         \A g \in Calls(t) : Knows(g)'
  PROVE  CallsKnow'
<1> DEFINE n == Len(stack[t])
<1>1. /\ stack'[t] \in Seq(Frame) /\ Len(stack'[t]) = n + 1 /\ stack'[t][n + 1] = f
      /\ \A i \in 1..n : stack'[t][i] = stack[t][i]
  BY CallFacts
<1>2. /\ n \in Nat /\ DOMAIN stack[t] = 1..n /\ DOMAIN stack'[t] = 1..(n + 1)
  BY <1>1 DEF EventsTypeOK
<1> HIDE DEF n
<1>3. \A g \in Calls(t)' : Knows(g)'
  <2> SUFFICES ASSUME NEW i \in 1..(n + 1), NEW g, g = stack'[t][i]
               PROVE  Knows(g)'
    BY <1>2 DEF Calls
  <2>1. CASE i = n + 1
    <3>1. g = f
      BY <1>1, <2>1
    <3> QED
      BY <3>1
  <2>2. CASE i # n + 1
    <3>1. i \in 1..n
      BY <1>2, <2>2
    <3>2. g \in Calls(t)
      BY <1>1, <1>2, <3>1 DEF Calls
    <3> QED
      BY <3>2
  <2> QED
    BY <2>1, <2>2
<1>4. ASSUME NEW i \in 1..(n + 1), NEW j \in 1..(n + 1), i # j,
             Sending(stack'[t][i]), Sending(stack'[t][j])
      PROVE  stack'[t][i].list # stack'[t][j].list
  <2>1. i # n + 1 /\ j # n + 1
    BY <1>1, <1>4
  <2>2. i \in 1..n /\ j \in 1..n
    BY <1>2, <2>1
  <2> QED
    BY <1>1, <1>2, <1>4, <2>2 DEF CallsKnow, OwnLists
<1>5. OwnLists(t)'
  BY <1>2, <1>4 DEF OwnLists, Sending
<1>6. \A u \in Threads : u = t
  BY OnlyThread
<1> QED
  BY <1>3, <1>5, <1>6 DEF CallsKnow

-----------------------------------------------------------------------------
(* The steps that leave lists and subscribers alone *)

\* What stays true while nothing is listed, sent, or subscribed.
LEMMA KnowsKept ==
  ASSUME lists' = lists, pending' = pending, delivered' = delivered,
         subscribers' = subscribers, NEW g, Knows(g), g.pc = "publish"
  PROVE  Knows(g)'
  BY DEF Knows, Sending, Unsent

\* Places and counts are the same while nothing is listed, sent, or subscribed.
LEMMA PlacesKept ==
  ASSUME EventsPlaced, SentOnce, lists' = lists, pending' = pending,
         delivered' = delivered, subscribers' = subscribers,
         log \cup uncommitted \subseteq log' \cup uncommitted'
  PROVE  EventsPlaced' /\ SentOnce'
<1>1. EventsPlaced'
  BY DEF EventsPlaced
<1>2. SentOnce'
  BY DEF SentOnce, Unlisted, Unsent, IsInjective
<1> QED
  BY <1>1, <1>2

\* The calls that wait know what they knew.
LEMMA WaitingKept ==
  ASSUME EventsTypeOK, CallsNest, CallsKnow, NEW t \in Threads, stack[t] # <<>>,
         lists' = lists, pending' = pending, delivered' = delivered,
         subscribers' = subscribers
  PROVE  \A g \in Waiting(t) : Knows(g)'
<1> SUFFICES ASSUME NEW g \in Waiting(t) PROVE Knows(g)'
  OBVIOUS
<1>1. g.pc = "publish" /\ Knows(g)
  BY WaitingFacts
<1> QED
  BY <1>1, KnowsKept

\* Nothing is known of a list between two loops.
LEMMA MovedOn ==
  ASSUME OneThread, EventsTypeOK, CallsNest, CallsKnow, NEW t \in Threads,
         stack[t] # <<>>, NEW f \in Frame, stack' = Moved(t, f),
         f.pc \in {"open", "test", "take", "commit"},
         \A g \in Waiting(t) : Knows(g)'
  PROVE  CallsKnow'
<1>1. Knows(f)' /\ ~Sending(f)
  BY DEF Knows, Sending
<1> QED
  BY <1>1, MovedKnow

\* The end of a drain.
LEMMA DrainedKnow ==
  ASSUME OneThread, EventsTypeOK, CallsNest, CallsKnow, NEW t \in Threads,
         stack[t] # <<>>, Drained(t), \A g \in Waiting(t) : Knows(g)'
  PROVE  CallsKnow'
<1>1. CASE stack' = Returned(t)
  BY <1>1, ReturnedKnow
<1>2. CASE stack' = Moved(t, [Top(t) EXCEPT !.pc = "commit"])
  <2>1. Top(t) \in Frame
    BY TopFacts
  <2>2. /\ [Top(t) EXCEPT !.pc = "commit"] \in Frame
        /\ [Top(t) EXCEPT !.pc = "commit"].pc = "commit"
    BY <2>1 DEF Frame
  <2>3. PICK f \in Frame : f.pc = "commit" /\ stack' = Moved(t, f)
    BY <1>2, <2>2
  <2> QED
    BY <2>3, MovedOn
<1> QED
  BY <1>1, <1>2 DEF Drained

\* An event that has no row is in no list.
LEMMA FreshUnlisted ==
  ASSUME EventsPlaced, NEW e \in Events, Fresh(e)
  PROVE  Unlisted(e)
  BY DEF EventsPlaced, Fresh, Unlisted

\* A transaction begins with an event that is in no list.
LEMMA BeginKnow ==
  ASSUME OneThread, BusInv, NEW t \in Threads, NEW op \in Operations, NEW e \in Events,
         Begin(t, op, e)
  PROVE  EventsPlaced' /\ SentOnce' /\ CallsKnow'
<1>1. PICK f \in Frame : /\ f.pc = "append" /\ f.list = pending /\ f.event = e
                         /\ stack' = [stack EXCEPT ![t] = Append(@, f)]
  <2>1. [op |-> op, pc |-> "append", event |-> e, list |-> pending,
         next |-> 1, sub |-> 1] \in Frame
    BY DEF Frame, BusInv, EventsTypeOK
  <2> QED
    BY <2>1 DEF Begin
<1>2. /\ lists' = lists /\ pending' = pending /\ delivered' = delivered
      /\ subscribers' = subscribers /\ log' = log /\ uncommitted' = {e}
  BY DEF Begin, busVars
<1>3. EventsPlaced' /\ SentOnce'
  <2>1. uncommitted = {}
    BY DEF BusInv, LockFits, Begin
  <2> QED
    BY <1>2, <2>1, PlacesKept DEF BusInv
<1>4. Knows(f)' /\ ~Sending(f)
  <2>1. Unlisted(e)
    BY FreshUnlisted DEF BusInv, Begin
  <2>2. Unlisted(e)'
    BY <1>2, <2>1 DEF Unlisted
  <2> QED
    BY <1>1, <1>2, <2>2 DEF Knows, Sending
<1>5. \A g \in Calls(t) : Knows(g)'
  <2> SUFFICES ASSUME NEW g \in Calls(t) PROVE Knows(g)'
    OBVIOUS
  <2>1. Knows(g)
    BY DEF BusInv, CallsKnow
  <2>2. g.pc = "publish"
    BY <1>1, BeginNest DEF Calls, BusInv
  <2> QED
    BY <1>2, <2>1, <2>2, KnowsKept
<1>6. CallsKnow'
  BY <1>1, <1>4, <1>5, CalledKnow DEF BusInv
<1> QED
  BY <1>3, <1>6

\* It goes on with another one.
LEMMA EmitMoreKnow ==
  ASSUME OneThread, BusInv, NEW t \in Threads, NEW e \in Events, EmitMore(t, e)
  PROVE  EventsPlaced' /\ SentOnce' /\ CallsKnow'
<1>1. stack[t] # <<>>
  BY DEF EmitMore, At
<1>2. PICK f \in Frame : /\ f.pc = "append" /\ f.list = pending /\ f.event = e
                         /\ stack' = Moved(t, f)
  <2> DEFINE g == [Top(t) EXCEPT !.pc = "append", !.event = e, !.list = pending]
  <2>1. Top(t) \in Frame /\ pending \in Nat
    BY <1>1, TopFacts DEF EventsTypeOK, BusInv
  <2>2. g \in Frame /\ g.pc = "append" /\ g.list = pending /\ g.event = e
    BY <2>1 DEF Frame
  <2>3. stack' = Moved(t, g)
    BY DEF EmitMore
  <2> HIDE DEF g
  <2> QED
    BY <2>2, <2>3
<1>3. /\ lists' = lists /\ pending' = pending /\ delivered' = delivered
      /\ subscribers' = subscribers /\ log' = log /\ uncommitted' = uncommitted \cup {e}
  BY DEF EmitMore, busVars
<1>4. EventsPlaced' /\ SentOnce'
  BY <1>3, PlacesKept DEF BusInv
<1>5. Knows(f)' /\ ~Sending(f)
  <2>1. Unlisted(e)
    BY FreshUnlisted DEF BusInv, EmitMore
  <2>2. Unlisted(e)'
    BY <1>3, <2>1 DEF Unlisted
  <2> QED
    BY <1>2, <1>3, <2>2 DEF Knows, Sending
<1>6. \A g \in Waiting(t) : Knows(g)'
  BY <1>1, <1>3, WaitingKept DEF BusInv
<1>7. CallsKnow'
  BY <1>1, <1>2, <1>5, <1>6, MovedKnow DEF BusInv
<1> QED
  BY <1>4, <1>7

\* Commits, tests and the heads of loops move nothing.
LEMMA QuietStepKnow ==
  ASSUME OneThread, BusInv, NEW t \in Threads,
         DrainInside(t) \/ Commit(t) \/ TestPending(t) \/ Take(t) \/ Send(t)
  PROVE  EventsPlaced' /\ SentOnce' /\ CallsKnow'
<1>1. stack[t] # <<>>
  BY DEF DrainInside, Commit, TestPending, Take, Send, At
<1>2. /\ Top(t) \in Frame /\ pending \in Nat /\ Knows(Top(t))
      /\ lists \in Seq(Seq(Events))
  BY <1>1, TopFacts, TopKnows DEF EventsTypeOK, BusInv
<1>3. /\ lists' = lists /\ pending' = pending /\ delivered' = delivered
      /\ subscribers' = subscribers
      /\ log \cup uncommitted \subseteq log' \cup uncommitted'
  BY DEF DrainInside, Commit, TestPending, Take, Send, busVars
<1>4. EventsPlaced' /\ SentOnce'
  BY <1>3, PlacesKept DEF BusInv
<1>5. \A g \in Waiting(t) : Knows(g)'
  BY <1>1, <1>3, WaitingKept DEF BusInv
<1>6. ASSUME NEW point \in {"open", "test", "take", "commit"},
             stack' = Moved(t, [Top(t) EXCEPT !.pc = point])
      PROVE  CallsKnow'
  <2>1. /\ [Top(t) EXCEPT !.pc = point] \in Frame
        /\ [Top(t) EXCEPT !.pc = point].pc = point
    BY <1>2 DEF Frame
  <2>2. PICK f \in Frame : f.pc = point /\ stack' = Moved(t, f)
    BY <1>6, <2>1
  <2> QED
    BY <1>1, <1>5, <2>2, MovedOn DEF BusInv
<1>7. CASE DrainInside(t) \/ Commit(t)
  <2>1. CASE stack' = Returned(t)
    BY <1>1, <1>4, <1>5, <2>1, ReturnedKnow DEF BusInv
  <2> QED
    BY <1>4, <1>6, <1>7, <2>1 DEF DrainInside, Commit
<1>8. CASE TestPending(t)
  <2>1. CASE Drained(t)
    BY <1>1, <1>4, <1>5, <2>1, DrainedKnow DEF BusInv
  <2> QED
    BY <1>4, <1>6, <1>8, <2>1 DEF TestPending
<1>9. CASE Take(t)
  <2> DEFINE g == [Top(t) EXCEPT !.pc = "swap", !.list = pending, !.next = 1]
  <2>1. g \in Frame /\ g.pc = "swap" /\ g.list = pending /\ g.next = 1
    BY <1>2 DEF Frame
  <2>2. stack' = Moved(t, g)
    BY <1>9 DEF Take
  <2> HIDE DEF g
  <2>3. PICK f \in Frame : /\ f.pc = "swap" /\ f.list = pending /\ f.next = 1
                           /\ stack' = Moved(t, f)
    BY <2>1, <2>2
  <2>4. Knows(f)' /\ ~Sending(f)
    BY <1>3, <2>3 DEF Knows, Sending
  <2> QED
    BY <1>1, <1>4, <1>5, <2>3, <2>4, MovedKnow DEF BusInv
<1>10. CASE Send(t)
  <2>1. CASE Drained(t)
    BY <1>1, <1>4, <1>5, <2>1, DrainedKnow DEF BusInv
  <2>2. CASE /\ Top(t).next <= Len(lists[Top(t).list])
             /\ stack' = Moved(t, [Top(t) EXCEPT !.pc = "publish", !.sub = 1])
    <3> DEFINE g == [Top(t) EXCEPT !.pc = "publish", !.sub = 1]
    <3>1. g \in Frame /\ g.pc = "publish" /\ g.sub = 1 /\ g.list = Top(t).list
            /\ g.next = Top(t).next
      BY <1>2 DEF Frame
    <3>2. stack' = Moved(t, g)
      BY <2>2
    <3> HIDE DEF g
    <3>3. PICK f \in Frame : /\ f.pc = "publish" /\ f.sub = 1 /\ f.list = Top(t).list
                             /\ f.next = Top(t).next /\ stack' = Moved(t, f)
      BY <3>1, <3>2
    <3>4. Top(t).pc = "send" /\ Sending(Top(t))
      BY <1>10 DEF Send, At, Sending
    <3>5. /\ f.list \in DOMAIN lists /\ f.list # pending /\ f.next >= 1
          /\ \A j \in DOMAIN lists[f.list] : j > f.next => Unsent(lists[f.list][j])
          /\ f.next \in DOMAIN lists[f.list] => Unsent(lists[f.list][f.next])
      BY <1>2, <3>3, <3>4 DEF Knows
    <3>6. f.next \in DOMAIN lists[f.list]
      <4>1. lists[f.list] \in Seq(Events) /\ f.next \in Nat
        BY <1>2, <3>5, ElementOfSeq DEF Frame
      <4> QED
        BY <2>2, <3>3, <3>5, <4>1
    <3>7. \A k \in DOMAIN subscribers : delivered[subscribers[k]][lists[f.list][f.next]] = 0
      <4>1. \A k \in DOMAIN subscribers : subscribers[k] \in Subscribers
        BY ElementOfSeq DEF BusInv, EventsTypeOK
      <4> QED
        BY <3>5, <3>6, <4>1 DEF Unsent
    <3>8. Knows(f)
      BY <3>3, <3>5, <3>6, <3>7 DEF Knows
    <3>9. Knows(f)'
      BY <1>3, <3>3, <3>8, KnowsKept
    <3>10. \A g2 \in Waiting(t) : g2.list # f.list
      BY <1>1, <3>3, <3>4, WaitingFacts DEF BusInv
    <3>11. CallsKnow'
      BY <1>1, <1>5, <3>3, <3>9, <3>10, MovedKnow DEF BusInv
    <3> QED
      BY <1>4, <3>11
  <2> QED
    BY <1>10, <2>1, <2>2 DEF Send
<1> QED
  BY <1>4, <1>7, <1>8, <1>9, <1>10

-----------------------------------------------------------------------------
(* The steps that list, take, send, and subscribe *)

\* The elements of the lists.
LEMMA ListFacts ==
  ASSUME EventsTypeOK
  PROVE  /\ DOMAIN lists = 1..Len(lists) /\ Len(lists) \in Nat
         /\ pending \in DOMAIN lists
         /\ \A l \in DOMAIN lists :
              /\ lists[l] \in Seq(Events) /\ Len(lists[l]) \in Nat
              /\ DOMAIN lists[l] = 1..Len(lists[l])
              /\ \A j \in DOMAIN lists[l] : lists[l][j] \in Events
<1>1. lists \in Seq(Seq(Events)) /\ pending \in 1..Len(lists)
  BY DEF EventsTypeOK
<1>2. DOMAIN lists = 1..Len(lists) /\ Len(lists) \in Nat
  BY <1>1
<1> SUFFICES ASSUME NEW l \in DOMAIN lists
             PROVE  /\ lists[l] \in Seq(Events) /\ Len(lists[l]) \in Nat
                    /\ DOMAIN lists[l] = 1..Len(lists[l])
                    /\ \A j \in DOMAIN lists[l] : lists[l][j] \in Events
  BY <1>1, <1>2
<1>3. lists[l] \in Seq(Events)
  BY <1>1, <1>2, ElementOfSeq
<1>4. Len(lists[l]) \in Nat /\ DOMAIN lists[l] = 1..Len(lists[l])
  BY <1>3
<1> QED
  BY <1>3, <1>4, ElementOfSeq

\* The event at hand takes the last place of the current list.
LEMMA AppendEventKnow ==
  ASSUME OneThread, BusInv, NEW t \in Threads, AppendEvent(t)
  PROVE  EventsPlaced' /\ SentOnce' /\ CallsKnow'
<1>1. stack[t] # <<>> /\ Top(t).pc = "append"
  BY DEF AppendEvent, At
<1>2. Top(t) \in Frame
  BY <1>1, TopFacts DEF BusInv
<1> DEFINE e == Top(t).event
           p == Append(lists[pending], e)
<1>3. e \in Events /\ Top(t).list = pending /\ e \in uncommitted /\ Unlisted(e)
  BY <1>1, <1>2, TopKnows DEF Frame, Knows, BusInv
<1>4. /\ pending' = pending /\ delivered' = delivered /\ subscribers' = subscribers
      /\ log' = log /\ uncommitted' = uncommitted
      /\ lists' = [lists EXCEPT ![pending] = p]
  BY <1>3 DEF AppendEvent, busVars
<1> HIDE DEF e
<1>5. /\ DOMAIN lists = 1..Len(lists) /\ pending \in DOMAIN lists
      /\ lists[pending] \in Seq(Events) /\ Len(lists[pending]) \in Nat
      /\ DOMAIN lists[pending] = 1..Len(lists[pending])
  BY ListFacts DEF BusInv
<1>6. /\ DOMAIN p = 1..(Len(lists[pending]) + 1) /\ p[Len(lists[pending]) + 1] = e
      /\ \A j \in DOMAIN lists[pending] : p[j] = lists[pending][j]
  BY <1>3, <1>5
<1>7. /\ DOMAIN lists' = DOMAIN lists /\ lists'[pending] = p
      /\ \A l \in DOMAIN lists : l # pending => lists'[l] = lists[l]
  BY <1>4, <1>5
<1> HIDE DEF p
<1>8. \A l \in DOMAIN lists : \A j \in DOMAIN lists'[l] :
        \/ j \in DOMAIN lists[l] /\ lists'[l][j] = lists[l][j]
        \/ l = pending /\ j = Len(lists[pending]) + 1 /\ lists'[l][j] = e
  BY <1>5, <1>6, <1>7
<1>9. \A l \in DOMAIN lists : \A j \in DOMAIN lists[l] : lists[l][j] # e
  BY <1>3 DEF Unlisted
<1>10. EventsPlaced'
  <2>1. \A l \in DOMAIN lists : \A j \in DOMAIN lists'[l] : lists'[l][j] \in log \cup uncommitted
    BY <1>3, <1>8 DEF BusInv, EventsPlaced
  <2>2. ASSUME NEW l \in DOMAIN lists, NEW m \in DOMAIN lists, NEW i \in DOMAIN lists'[l],
               NEW j \in DOMAIN lists'[m], lists'[l][i] = lists'[m][j]
        PROVE  l = m /\ i = j
    <3>1. CASE i \in DOMAIN lists[l] /\ lists'[l][i] = lists[l][i]
      <4>1. j \in DOMAIN lists[m] /\ lists'[m][j] = lists[m][j]
        BY <1>8, <1>9, <2>2, <3>1
      <4>2. lists[l][i] = lists[m][j]
        BY <2>2, <3>1, <4>1
      <4>3. i \in DOMAIN lists[l] /\ j \in DOMAIN lists[m]
        BY <3>1, <4>1
      <4>4. EventsPlaced
        BY DEF BusInv
      <4> QED
        BY <4>2, <4>3, <4>4 DEF EventsPlaced
    <3>2. CASE l = pending /\ i = Len(lists[pending]) + 1 /\ lists'[l][i] = e
      <4>1. m = pending /\ j = Len(lists[pending]) + 1
        BY <1>8, <1>9, <2>2, <3>2
      <4> QED
        BY <3>2, <4>1
    <3> QED
      BY <1>8, <3>1, <3>2
  <2> QED
    BY <1>4, <1>7, <2>1, <2>2 DEF EventsPlaced
<1>11. SentOnce'
  <2>1. ASSUME NEW x \in Events, Unlisted(x)'
        PROVE  Unsent(x)'
    <3>1. Unlisted(x)
      <4> SUFFICES ASSUME NEW l \in DOMAIN lists, NEW j \in DOMAIN lists[l]
                   PROVE  lists[l][j] # x
        BY DEF Unlisted
      <4>1. j \in DOMAIN lists'[l] /\ lists'[l][j] = lists[l][j]
        BY <1>5, <1>6, <1>7
      <4> QED
        BY <1>7, <2>1, <4>1 DEF Unlisted
    <3> QED
      BY <1>4, <3>1 DEF Unsent, BusInv, SentOnce
  <2>2. ASSUME NEW j \in DOMAIN lists'[pending]
        PROVE  \A s \in Subscribers : delivered[s][lists'[pending][j]] = 0
    BY <1>3, <1>5, <1>8 DEF BusInv, SentOnce, Unsent
  <2> QED
    BY <1>4, <2>1, <2>2 DEF SentOnce, BusInv, Unsent, IsInjective
<1>12. \A g \in Waiting(t) : Knows(g)'
  <2> SUFFICES ASSUME NEW g \in Waiting(t) PROVE Knows(g)'
    OBVIOUS
  <2>1. g.pc = "publish" /\ Knows(g)
    BY <1>1, WaitingFacts DEF BusInv
  <2>2. g.list \in DOMAIN lists /\ g.list # pending
    BY <2>1 DEF Knows, Sending
  <2>3. lists'[g.list] = lists[g.list]
    BY <1>7, <2>2
  <2> QED
    BY <1>4, <1>7, <2>1, <2>2, <2>3 DEF Knows, Sending, Unsent
<1>13. CallsKnow'
  <2>1. /\ [Top(t) EXCEPT !.pc = "open"] \in Frame
        /\ [Top(t) EXCEPT !.pc = "open"].pc = "open"
    BY <1>2 DEF Frame
  <2>2. PICK f \in Frame : f.pc = "open" /\ stack' = Moved(t, f)
    BY <2>1 DEF AppendEvent
  <2> QED
    BY <1>1, <1>12, <2>2, MovedOn DEF BusInv
<1> QED
  BY <1>10, <1>11, <1>13

\* The current list becomes the one that its taker sends from.
LEMMA SwapKnow ==
  ASSUME OneThread, BusInv, NEW t \in Threads, Swap(t)
  PROVE  EventsPlaced' /\ SentOnce' /\ CallsKnow'
<1>1. stack[t] # <<>> /\ Top(t).pc = "swap"
  BY DEF Swap, At
<1>2. Top(t) \in Frame
  BY <1>1, TopFacts DEF BusInv
<1>3. Top(t).list = pending /\ Top(t).next = 1
  BY <1>1, TopKnows DEF Knows, BusInv
<1>4. /\ delivered' = delivered /\ subscribers' = subscribers
      /\ log' = log /\ uncommitted' = uncommitted
  BY DEF Swap, busVars
<1>5. /\ DOMAIN lists = 1..Len(lists) /\ Len(lists) \in Nat /\ pending \in DOMAIN lists
  BY ListFacts DEF BusInv
<1>6. /\ DOMAIN lists' = DOMAIN lists \cup {pending'} /\ pending' \notin DOMAIN lists
      /\ lists'[pending'] = <<>> /\ \A l \in DOMAIN lists : lists'[l] = lists[l]
  <2>1. /\ lists' \in Seq(Seq(Events)) /\ Len(lists') = Len(lists) + 1
        /\ lists'[pending'] = <<>> /\ \A l \in 1..Len(lists) : lists'[l] = lists[l]
    BY SwapFacts DEF Swap, BusInv
  <2>2. DOMAIN lists' = 1..(Len(lists) + 1) /\ pending' = Len(lists) + 1
    BY <2>1 DEF Swap
  <2> QED
    BY <1>5, <2>1, <2>2
<1>7. \A l \in DOMAIN lists' : \A j \in DOMAIN lists'[l] :
        l \in DOMAIN lists /\ j \in DOMAIN lists[l] /\ lists'[l][j] = lists[l][j]
  BY <1>6
<1>8. EventsPlaced'
  BY <1>4, <1>7 DEF BusInv, EventsPlaced
<1>9. SentOnce'
  <2>1. ASSUME NEW x \in Events, Unlisted(x)'
        PROVE  Unsent(x)'
    <3>1. Unlisted(x)
      BY <1>6, <2>1 DEF Unlisted
    <3> QED
      BY <1>4, <3>1 DEF Unsent, BusInv, SentOnce
  <2>2. DOMAIN lists'[pending'] = {}
    BY <1>6
  <2>3. IsInjective(subscribers)'
    BY <1>4 DEF BusInv, SentOnce, IsInjective
  <2>4. \A s \in Subscribers, e \in Events : delivered'[s][e] \in {0, 1}
    BY <1>4 DEF BusInv, SentOnce
  <2> QED
    BY <2>1, <2>2, <2>3, <2>4 DEF SentOnce
<1>10. \A g \in Waiting(t) : Knows(g)' /\ g.list # pending
  <2> SUFFICES ASSUME NEW g \in Waiting(t) PROVE Knows(g)' /\ g.list # pending
    OBVIOUS
  <2>1. g.pc = "publish" /\ Knows(g)
    BY <1>1, WaitingFacts DEF BusInv
  <2>2. g.list \in DOMAIN lists /\ g.list # pending
    BY <2>1 DEF Knows, Sending
  <2>3. lists'[g.list] = lists[g.list] /\ g.list \in DOMAIN lists' /\ g.list # pending'
    BY <1>6, <2>2
  <2> QED
    BY <1>4, <2>1, <2>2, <2>3 DEF Knows, Sending, Unsent
<1>11. CallsKnow'
  <2>1. PICK f \in Frame : /\ f.pc = "send" /\ f.list = pending /\ f.next = 1
                           /\ stack' = Moved(t, f)
    <3> DEFINE g == [Top(t) EXCEPT !.pc = "send"]
    <3>1. g \in Frame /\ g.pc = "send" /\ g.list = pending /\ g.next = 1
      BY <1>2, <1>3 DEF Frame
    <3>2. stack' = Moved(t, g)
      BY DEF Swap
    <3> HIDE DEF g
    <3> QED
      BY <3>1, <3>2
  <2>2. lists'[f.list] = lists[pending] /\ f.list \in DOMAIN lists' /\ f.list # pending'
    BY <1>5, <1>6, <2>1
  <2>3. \A j \in DOMAIN lists[pending] : Unsent(lists[pending][j])
    BY DEF BusInv, SentOnce
  <2>4. Knows(f)'
    BY <1>4, <2>1, <2>2, <2>3 DEF Knows, Sending, Unsent
  <2> QED
    BY <1>1, <1>10, <2>1, <2>4, MovedKnow DEF BusInv
<1> QED
  BY <1>8, <1>9, <1>11

\* The list of subscribers.
LEMMA SubscriberFacts ==
  ASSUME EventsTypeOK
  PROVE  /\ DOMAIN subscribers = 1..Len(subscribers) /\ Len(subscribers) \in Nat
         /\ \A k \in DOMAIN subscribers : subscribers[k] \in Subscribers /\ k \in Nat
<1>1. subscribers \in Seq(Subscribers)
  BY DEF EventsTypeOK
<1>2. DOMAIN subscribers = 1..Len(subscribers) /\ Len(subscribers) \in Nat
  BY <1>1
<1> QED
  BY <1>1, <1>2, ElementOfSeq

\* What the call that publishes knows.
LEMMA PublishFacts ==
  ASSUME BusInv, NEW t \in Threads, Publish(t)
  PROVE  /\ stack[t] # <<>> /\ Top(t) \in Frame
         /\ Top(t).pc = "publish" /\ Sending(Top(t))
         /\ Top(t).list \in DOMAIN lists /\ Top(t).list # pending
         /\ Top(t).next \in DOMAIN lists[Top(t).list]
         /\ Top(t).next \in Nat \ {0} /\ Top(t).sub \in Nat \ {0}
         /\ lists[Top(t).list][Top(t).next] \in Events
         /\ \A j \in DOMAIN lists[Top(t).list] :
              j > Top(t).next => Unsent(lists[Top(t).list][j])
         /\ \A k \in DOMAIN subscribers : k >= Top(t).sub =>
              delivered[subscribers[k]][lists[Top(t).list][Top(t).next]] = 0
<1>1. stack[t] # <<>> /\ Top(t).pc = "publish"
  BY DEF Publish, At
<1>2. Top(t) \in Frame /\ Knows(Top(t))
  BY <1>1, TopFacts, TopKnows DEF BusInv
<1>3. /\ Top(t).list \in DOMAIN lists /\ Top(t).list # pending
      /\ Top(t).next \in DOMAIN lists[Top(t).list]
      /\ Top(t).next >= 1 /\ Top(t).sub >= 1
      /\ \A j \in DOMAIN lists[Top(t).list] :
           j > Top(t).next => Unsent(lists[Top(t).list][j])
      /\ \A k \in DOMAIN subscribers : k >= Top(t).sub =>
           delivered[subscribers[k]][lists[Top(t).list][Top(t).next]] = 0
  BY <1>1, <1>2 DEF Knows, Sending
<1>4. Top(t).next \in Nat /\ Top(t).sub \in Nat
  BY <1>2 DEF Frame
<1>5. lists[Top(t).list][Top(t).next] \in Events
  BY <1>3, ListFacts DEF BusInv
<1> QED
  BY <1>1, <1>2, <1>3, <1>4, <1>5 DEF Sending

\* A subscriber is called.
LEMMA CallbackKnow ==
  ASSUME OneThread, BusInv, NEW t \in Threads, Publish(t),
         Top(t).sub <= Len(subscribers)
  PROVE  /\ EventsPlaced' /\ SentOnce' /\ CallsKnow'
         /\ \E s \in Subscribers, e \in Events :
              /\ e \in log \cup uncommitted /\ delivered[s][e] = 0
              /\ delivered' = [delivered EXCEPT ![s][e] = 1]
<1>1. /\ stack[t] # <<>> /\ Top(t) \in Frame
      /\ Top(t).pc = "publish" /\ Sending(Top(t))
      /\ Top(t).next \in Nat \ {0} /\ Top(t).sub \in Nat \ {0}
  BY PublishFacts
<1>2. PICK l \in DOMAIN lists : l = Top(t).list /\ l # pending
  BY PublishFacts
<1>3. PICK n \in DOMAIN lists[l] : n = Top(t).next
  BY <1>2, PublishFacts
<1>4. PICK e \in Events : e = lists[l][n]
  BY <1>2, <1>3, PublishFacts
<1>5. PICK c \in DOMAIN subscribers : c = Top(t).sub
  BY <1>1, SubscriberFacts DEF BusInv
<1>6. PICK s \in Subscribers : s = subscribers[c]
  BY SubscriberFacts DEF BusInv
<1>7. /\ \A j \in DOMAIN lists[l] : j > n => Unsent(lists[l][j])
      /\ \A k \in DOMAIN subscribers : k >= c => delivered[subscribers[k]][e] = 0
  BY <1>2, <1>3, <1>4, <1>5, PublishFacts
<1>8. /\ lists' = lists /\ pending' = pending /\ subscribers' = subscribers
      /\ log' = log /\ uncommitted' = uncommitted
      /\ delivered' = [delivered EXCEPT ![s][e] = @ + 1]
  BY <1>1, <1>2, <1>3, <1>4, <1>5, <1>6 DEF Publish
<1>9. delivered \in [Subscribers -> [Events -> Nat]] /\ delivered[s][e] = 0
  <2>1. delivered \in [Subscribers -> [Events -> Nat]]
    BY DEF BusInv, EventsTypeOK
  <2>2. c >= c
    BY <1>1, <1>5
  <2> QED
    BY <1>6, <1>7, <2>1, <2>2
<1>10. delivered' = [delivered EXCEPT ![s][e] = 1]
  BY <1>8, <1>9
<1>11. /\ \A x \in Events : x # e => \A u \in Subscribers : delivered'[u][x] = delivered[u][x]
       /\ \A u \in Subscribers : u # s => delivered'[u][e] = delivered[u][e]
       /\ delivered'[s][e] = 1
  BY <1>9, <1>10
<1>12. \A m \in DOMAIN lists : \A j \in DOMAIN lists[m] :
         /\ lists[m][j] \in Events
         /\ lists[m][j] = e => m = l /\ j = n
  BY <1>4, ListFacts DEF BusInv, EventsPlaced
<1>13. \A x \in Events : Unsent(x) /\ x # e => Unsent(x)'
  BY <1>11 DEF Unsent
<1>14. EventsPlaced'
  BY <1>8 DEF BusInv, EventsPlaced
<1>15. SentOnce'
  <2>1. ASSUME NEW x \in Events, Unlisted(x)'
        PROVE  Unsent(x)'
    <3>1. Unlisted(x) /\ x # e
      BY <1>4, <1>8, <2>1 DEF Unlisted
    <3> QED
      BY <1>13, <3>1 DEF BusInv, SentOnce
  <2>2. ASSUME NEW j \in DOMAIN lists[pending], NEW u \in Subscribers
        PROVE  delivered'[u][lists[pending][j]] = 0
    <3>1. pending \in DOMAIN lists
      BY ListFacts DEF BusInv
    <3>2. lists[pending][j] \in Events /\ lists[pending][j] # e
      BY <1>2, <1>12, <3>1
    <3> QED
      BY <1>11, <3>2 DEF BusInv, SentOnce, Unsent
  <2>3. IsInjective(subscribers)'
    BY <1>8 DEF BusInv, SentOnce, IsInjective
  <2>4. \A u \in Subscribers, x \in Events : delivered'[u][x] \in {0, 1}
    BY <1>11 DEF BusInv, SentOnce
  <2> QED
    BY <1>8, <2>1, <2>2, <2>3, <2>4 DEF SentOnce, Unsent
<1>16. \A g \in Waiting(t) : Knows(g)' /\ g.list # l
  <2> SUFFICES ASSUME NEW g \in Waiting(t) PROVE Knows(g)' /\ g.list # l
    OBVIOUS
  <2>1. g.pc = "publish" /\ Knows(g) /\ g.list # l
    BY <1>1, <1>2, WaitingFacts DEF BusInv
  <2>2. g.list \in DOMAIN lists /\ g.next \in DOMAIN lists[g.list]
    BY <2>1 DEF Knows, Sending
  <2>3. \A j \in DOMAIN lists[g.list] : lists[g.list][j] \in Events /\ lists[g.list][j] # e
    BY <1>12, <2>1, <2>2
  <2>4. \A j \in DOMAIN lists[g.list] :
          Unsent(lists[g.list][j]) =>
            \A u \in Subscribers : delivered'[u][lists[g.list][j]] = 0
    BY <1>11, <2>3 DEF Unsent
  <2>5. \A k \in DOMAIN subscribers : subscribers[k] \in Subscribers
    BY SubscriberFacts DEF BusInv
  <2>6. \A k \in DOMAIN subscribers :
          delivered'[subscribers[k]][lists[g.list][g.next]]
            = delivered[subscribers[k]][lists[g.list][g.next]]
    BY <1>11, <2>2, <2>3, <2>5
  <2> QED
    BY <1>8, <2>1, <2>2, <2>4, <2>6 DEF Knows, Sending, Unsent
<1>17. CallsKnow'
  <2>1. PICK f \in Frame : /\ f.pc = "publish" /\ f.list = l /\ f.next = n /\ f.sub = c + 1
                           /\ stack' = Moved(t, f)
    <3> DEFINE g == [Top(t) EXCEPT !.sub = @ + 1]
    <3>1. g \in Frame /\ g.pc = "publish" /\ g.list = l /\ g.next = n /\ g.sub = c + 1
      BY <1>1, <1>2, <1>3, <1>5 DEF Frame
    <3>2. stack' = Moved(t, g)
      BY <1>1, <1>5 DEF Publish, BusInv, EventsTypeOK
    <3> HIDE DEF g
    <3> QED
      BY <3>1, <3>2
  <2>2. \A j \in DOMAIN lists[l] : j > n =>
          \A u \in Subscribers : delivered'[u][lists[l][j]] = 0
    <3> SUFFICES ASSUME NEW j \in DOMAIN lists[l], j > n, NEW u \in Subscribers
                 PROVE  delivered'[u][lists[l][j]] = 0
      OBVIOUS
    <3>1. n \in Nat /\ j # n
      BY <1>1, <1>3
    <3>2. lists[l][j] \in Events /\ lists[l][j] # e
      BY <1>12, <3>1
    <3> QED
      BY <1>7, <1>11, <3>2 DEF Unsent
  <2>3. \A k \in DOMAIN subscribers : k >= c + 1 => delivered'[subscribers[k]][e] = 0
    <3> SUFFICES ASSUME NEW k \in DOMAIN subscribers, k >= c + 1
                 PROVE  delivered'[subscribers[k]][e] = 0
      OBVIOUS
    <3>1. k \in Nat /\ c \in Nat /\ k # c /\ k >= c
      BY SubscriberFacts DEF BusInv
    <3>2. subscribers[k] \in Subscribers /\ subscribers[k] # s
      BY <1>6, <3>1, SubscriberFacts DEF BusInv, SentOnce, IsInjective
    <3> QED
      BY <1>7, <1>11, <3>1, <3>2
  <2>4. f.next >= 1 /\ f.sub >= 1
    BY <1>1, <1>3, <1>5, <2>1
  <2>5. Knows(f)'
    BY <1>2, <1>4, <1>8, <2>1, <2>2, <2>3, <2>4 DEF Knows, Sending, Unsent
  <2> QED
    BY <1>1, <1>16, <2>1, <2>5, MovedKnow DEF BusInv
<1>18. e \in log \cup uncommitted
  BY <1>4 DEF BusInv, EventsPlaced
<1> QED
  BY <1>9, <1>10, <1>14, <1>15, <1>17, <1>18

\* The end of the loop over the subscribers.
LEMMA PublishedKnow ==
  ASSUME OneThread, BusInv, NEW t \in Threads, Publish(t),
         Top(t).sub > Len(subscribers)
  PROVE  EventsPlaced' /\ SentOnce' /\ CallsKnow' /\ delivered' = delivered
<1>1. /\ stack[t] # <<>> /\ Top(t) \in Frame
      /\ Top(t).pc = "publish" /\ Sending(Top(t))
      /\ Top(t).list \in DOMAIN lists /\ Top(t).list # pending
      /\ Top(t).next \in Nat \ {0}
      /\ \A j \in DOMAIN lists[Top(t).list] :
           j > Top(t).next => Unsent(lists[Top(t).list][j])
  BY PublishFacts
<1>2. ~(Top(t).sub <= Len(subscribers))
  BY <1>1, SubscriberFacts DEF BusInv, Frame
<1>3. /\ lists' = lists /\ pending' = pending /\ subscribers' = subscribers
      /\ log' = log /\ uncommitted' = uncommitted /\ delivered' = delivered
  BY <1>2 DEF Publish
<1>4. EventsPlaced' /\ SentOnce'
  BY <1>3, PlacesKept DEF BusInv
<1>5. \A g \in Waiting(t) : Knows(g)'
  BY <1>1, <1>3, WaitingKept DEF BusInv
<1>6. PICK f \in Frame : /\ f.pc = "send" /\ f.list = Top(t).list
                         /\ f.next = Top(t).next + 1 /\ stack' = Moved(t, f)
  <2> DEFINE g == [Top(t) EXCEPT !.pc = "send", !.next = @ + 1]
  <2>1. g \in Frame /\ g.pc = "send" /\ g.list = Top(t).list /\ g.next = Top(t).next + 1
    <3>1. Top(t) \in Frame /\ Top(t).next + 1 \in Nat
      BY <1>1
    <3> QED
      BY <3>1 DEF Frame
  <2>2. stack' = Moved(t, g)
    BY <1>2 DEF Publish
  <2> HIDE DEF g
  <2> QED
    BY <2>1, <2>2
<1>7. /\ f.next >= 1 /\ f.next > Top(t).next
      /\ \A j \in Nat : j > f.next => j > Top(t).next
  BY <1>1, <1>6
<1>8. \A j \in DOMAIN lists[f.list] : j \in Nat
  BY <1>1, <1>6, ListFacts DEF BusInv
<1>9. Knows(f)'
  <2>1. \A j \in DOMAIN lists[f.list] : j > f.next => Unsent(lists[f.list][j])
    BY <1>1, <1>6, <1>7, <1>8
  <2>2. f.next \in DOMAIN lists[f.list] => Unsent(lists[f.list][f.next])
    BY <1>1, <1>6, <1>7
  <2> QED
    BY <1>1, <1>3, <1>6, <1>7, <2>1, <2>2 DEF Knows, Sending, Unsent
<1>10. \A g \in Waiting(t) : g.list # f.list
  BY <1>1, <1>6, WaitingFacts DEF BusInv
<1>11. CallsKnow'
  BY <1>1, <1>5, <1>6, <1>9, <1>10, MovedKnow DEF BusInv
<1> QED
  BY <1>3, <1>4, <1>11

\* Subscribers come and go, and none that missed an event moves behind the
\* loop that publishes it.
LEMMA SubscribersKnow ==
  ASSUME BusInv, lists' = lists, pending' = pending, delivered' = delivered,
         log' = log, uncommitted' = uncommitted, stack' = stack,
         IsInjective(subscribers)',
         \A m \in Nat, e \in Events :
           (\A k \in DOMAIN subscribers : k >= m => delivered[subscribers[k]][e] = 0)
             => \A k \in DOMAIN subscribers' : k >= m => delivered[subscribers'[k]][e] = 0
  PROVE  EventsPlaced' /\ SentOnce' /\ CallsKnow'
<1>1. EventsPlaced'
  BY DEF BusInv, EventsPlaced
<1>2. SentOnce'
  BY DEF BusInv, SentOnce, Unlisted, Unsent
<1>3. ASSUME NEW t \in Threads
      PROVE  OwnLists(t)' /\ \A f \in Calls(t)' : Knows(f)'
  <2>1. OwnLists(t)'
    BY DEF BusInv, CallsKnow, OwnLists
  <2>2. ASSUME NEW f \in Calls(t)'
        PROVE  Knows(f)'
    <3>1. f \in Calls(t) /\ Knows(f)
      BY DEF BusInv, CallsKnow, Calls
    <3>2. f \in Frame
      BY <3>1, ElementOfSeq DEF Calls, BusInv, EventsTypeOK
    <3>3. f.pc = "publish" =>
            \A k \in DOMAIN subscribers' : k >= f.sub =>
              delivered[subscribers'[k]][lists[f.list][f.next]] = 0
      <4> SUFFICES ASSUME f.pc = "publish"
                   PROVE  \A k \in DOMAIN subscribers' : k >= f.sub =>
                            delivered[subscribers'[k]][lists[f.list][f.next]] = 0
        OBVIOUS
      <4>1. f.list \in DOMAIN lists /\ f.next \in DOMAIN lists[f.list]
        BY <3>1 DEF Knows, Sending
      <4>2. lists[f.list][f.next] \in Events /\ f.sub \in Nat
        BY <3>2, <4>1, ListFacts DEF BusInv, Frame
      <4>3. \A k \in DOMAIN subscribers : k >= f.sub =>
              delivered[subscribers[k]][lists[f.list][f.next]] = 0
        BY <3>1 DEF Knows
      <4> QED
        BY <4>2, <4>3
    <3> QED
      BY <3>1, <3>3 DEF Knows, Sending, Unsent, Unlisted
  <2> QED
    BY <2>1, <2>2
<1>4. CallsKnow'
  BY <1>3 DEF CallsKnow
<1> QED
  BY <1>1, <1>2, <1>4

\* Who joins has missed nothing that it could be called with twice.
LEMMA SubscribeKnow ==
  ASSUME BusInv, NEW s \in Subscribers, Subscribe(s)
  PROVE  EventsPlaced' /\ SentOnce' /\ CallsKnow'
<1>1. /\ lists' = lists /\ pending' = pending /\ delivered' = delivered
      /\ log' = log /\ uncommitted' = uncommitted /\ stack' = stack
      /\ subscribers' = Append(subscribers, s)
      /\ \A e \in Events : delivered[s][e] = 0
  BY DEF Subscribe
<1>2. \A k \in DOMAIN subscribers : subscribers[k] # s
  BY DEF Subscribe, Contains
<1>3. subscribers \in Seq(Subscribers) /\ DOMAIN subscribers = 1..Len(subscribers)
  BY SubscriberFacts DEF BusInv, EventsTypeOK
<1>4. \A k \in DOMAIN subscribers' :
        \/ k \in DOMAIN subscribers /\ subscribers'[k] = subscribers[k]
        \/ k = Len(subscribers) + 1 /\ subscribers'[k] = s
  BY <1>1, <1>3
<1>5. IsInjective(subscribers)'
  BY <1>2, <1>4 DEF BusInv, SentOnce, IsInjective
<1>6. \A m \in Nat, e \in Events :
        (\A k \in DOMAIN subscribers : k >= m => delivered[subscribers[k]][e] = 0)
          => \A k \in DOMAIN subscribers' : k >= m => delivered[subscribers'[k]][e] = 0
  BY <1>1, <1>4
<1> QED
  BY <1>1, <1>5, <1>6, SubscribersKnow

\* Who moves up stays ahead of the loops or passes behind them.
LEMMA UnsubscribeKnow ==
  ASSUME BusInv, NEW s \in Subscribers, Unsubscribe(s)
  PROVE  EventsPlaced' /\ SentOnce' /\ CallsKnow'
<1>1. /\ lists' = lists /\ pending' = pending /\ delivered' = delivered
      /\ log' = log /\ uncommitted' = uncommitted /\ stack' = stack
  BY DEF Unsubscribe
<1>2. PICK i \in DOMAIN subscribers : subscribers' = RemoveAt(subscribers, i)
  BY DEF Unsubscribe
<1>3. /\ subscribers \in Seq(Subscribers) /\ DOMAIN subscribers = 1..Len(subscribers)
      /\ Len(subscribers) \in Nat /\ i \in Nat
  BY SubscriberFacts DEF BusInv, EventsTypeOK
<1>4. /\ subscribers' \in Seq(Subscribers) /\ Len(subscribers') = Len(subscribers) - 1
      /\ \A k \in 1..(Len(subscribers) - 1) :
           subscribers'[k] = IF k < i THEN subscribers[k] ELSE subscribers[k + 1]
  BY <1>2, <1>3, RemoveAtFacts
<1>5. DOMAIN subscribers' = 1..(Len(subscribers) - 1)
  BY <1>4
<1>6. \A k \in DOMAIN subscribers' :
        \/ k \in DOMAIN subscribers /\ k < i /\ subscribers'[k] = subscribers[k]
        \/ k + 1 \in DOMAIN subscribers /\ k >= i /\ subscribers'[k] = subscribers[k + 1]
  BY <1>3, <1>4, <1>5
<1>7. IsInjective(subscribers)'
  <2> SUFFICES ASSUME NEW k \in DOMAIN subscribers', NEW m \in DOMAIN subscribers',
                      subscribers'[k] = subscribers'[m]
               PROVE  k = m
    BY DEF IsInjective
  <2>1. \A a, b \in DOMAIN subscribers : subscribers[a] = subscribers[b] => a = b
    BY DEF BusInv, SentOnce, IsInjective
  <2>2. k \in Nat /\ m \in Nat
    BY <1>3, <1>5
  <2> QED
    BY <1>3, <1>6, <2>1, <2>2
<1>8. \A m \in Nat, e \in Events :
        (\A k \in DOMAIN subscribers : k >= m => delivered[subscribers[k]][e] = 0)
          => \A k \in DOMAIN subscribers' : k >= m => delivered[subscribers'[k]][e] = 0
  <2> SUFFICES ASSUME NEW m \in Nat, NEW e \in Events,
                      \A k \in DOMAIN subscribers : k >= m => delivered[subscribers[k]][e] = 0,
                      NEW k \in DOMAIN subscribers', k >= m
               PROVE  delivered[subscribers'[k]][e] = 0
    OBVIOUS
  <2>1. k \in Nat /\ k + 1 >= m
    BY <1>3, <1>5
  <2> QED
    BY <1>6, <2>1
<1> QED
  BY <1>1, <1>7, <1>8, SubscribersKnow

-----------------------------------------------------------------------------
(* The invariant *)

\* The invariant holds at the start.
LEMMA BusInit == EventsInit => BusInv
<1> SUFFICES ASSUME EventsInit PROVE BusInv
  OBVIOUS
<1>1. EventsTypeOK
  BY EventsTypeInit
<1>2. LockFits /\ CallsNest /\ CallsKnow
  BY EventsAssumption DEF EventsInit, LockFits, CallsNest, CallsKnow, OwnLists, Calls,
     Inside, EventsAssumption
<1>3. DOMAIN lists = {1} /\ DOMAIN lists[1] = {} /\ pending = 1
  BY DEF EventsInit
<1>4. EventsPlaced
  BY <1>3 DEF EventsPlaced
<1>5. SentOnce
  <2>1. IsInjective(subscribers)
    BY EventsAssumption DEF EventsInit, EventsAssumption
  <2>2. \A s \in Subscribers, e \in Events : delivered[s][e] = 0
    BY DEF EventsInit
  <2> QED
    BY <1>3, <2>1, <2>2 DEF SentOnce, Unsent
<1> QED
  BY <1>1, <1>2, <1>4, <1>5 DEF BusInv

\* Each step keeps the invariant.
LEMMA BusStep ==
  ASSUME OneThread, BusInv, [EventsNext]_eventVars
  PROVE  BusInv'
<1>1. EventsTypeOK'
  BY EventsTypeStep DEF BusInv
<1>2. LockFits' /\ CallsNest'
  BY LockStep DEF BusInv
<1>3. EventsPlaced' /\ SentOnce' /\ CallsKnow'
  <2>1. ASSUME NEW t \in Threads, Publish(t)
        PROVE  EventsPlaced' /\ SentOnce' /\ CallsKnow'
    <3>1. Top(t).sub <= Len(subscribers) \/ Top(t).sub > Len(subscribers)
      BY <2>1 DEF Publish
    <3> QED
      BY <2>1, <3>1, CallbackKnow, PublishedKnow
  <2>2. ASSUME NEW t \in Threads, Proceed(t)
        PROVE  EventsPlaced' /\ SentOnce' /\ CallsKnow'
    BY <2>1, <2>2, AppendEventKnow, QuietStepKnow, SwapKnow DEF Proceed
  <2>3. CASE UNCHANGED eventVars
    <3>1. /\ lists' = lists /\ pending' = pending /\ delivered' = delivered
          /\ subscribers' = subscribers /\ log' = log /\ uncommitted' = uncommitted
          /\ stack' = stack
      BY <2>3 DEF eventVars, busVars
    <3>2. IsInjective(subscribers)'
      BY <3>1 DEF BusInv, SentOnce, IsInjective
    <3> QED
      BY <3>1, <3>2, SubscribersKnow
  <2> QED
    BY <2>2, <2>3, BeginKnow, EmitMoreKnow, SubscribeKnow, UnsubscribeKnow DEF EventsNext
<1> QED
  BY <1>1, <1>2, <1>3 DEF BusInv

-----------------------------------------------------------------------------
(* The delivery that subscribers see *)

\* The rows that subscribers may see before their commit.
Early == IF lock # NoThread /\ Rights(lock) THEN uncommitted ELSE {}

\* A call stays with its operation until it returns, which the drain of a
\* rights issue does not.
LEMMA SameOperation ==
  ASSUME EventsTypeOK, NEW t \in Threads,
         (Proceed(t) /\ ~Commit(t)) \/ \E e \in Events : EmitMore(t, e)
  PROVE  \/ ~Rights(t) /\ Top(t).pc \in {"test", "send"}
         \/ stack'[t] # <<>> /\ Top(t)'.op = Top(t).op
<1>1. stack[t] # <<>>
  BY DEF Proceed, AppendEvent, Commit, DrainInside, TestPending, Take, Swap, Send,
         Publish, EmitMore, At
<1>2. Top(t) \in Frame /\ pending \in Nat
  BY <1>1, TopFacts DEF EventsTypeOK
<1>3. ASSUME NEW f \in Frame, f.op = Top(t).op, stack' = Moved(t, f)
      PROVE  stack'[t] # <<>> /\ Top(t)'.op = Top(t).op
  BY <1>1, <1>3, MovedTop
<1>4. \A point \in {"append", "open", "test", "take", "swap", "send", "publish", "commit"} :
        /\ [Top(t) EXCEPT !.pc = point] \in Frame
        /\ [Top(t) EXCEPT !.pc = point].op = Top(t).op
  BY <1>2 DEF Frame
<1>5. CASE AppendEvent(t) \/ DrainInside(t) \/ Swap(t)
  BY <1>3, <1>4, <1>5 DEF AppendEvent, DrainInside, Swap
<1>6. CASE Drained(t) /\ Rights(t)
  BY <1>3, <1>4, <1>6 DEF Drained
<1>7. CASE TestPending(t)
  BY <1>3, <1>4, <1>6, <1>7 DEF TestPending, At
<1>8. CASE Take(t)
  <2>1. /\ [Top(t) EXCEPT !.pc = "swap", !.list = pending, !.next = 1] \in Frame
        /\ [Top(t) EXCEPT !.pc = "swap", !.list = pending, !.next = 1].op = Top(t).op
    BY <1>2 DEF Frame
  <2> QED
    BY <1>3, <1>8, <2>1 DEF Take
<1>9. CASE Send(t)
  <2>1. /\ [Top(t) EXCEPT !.pc = "publish", !.sub = 1] \in Frame
        /\ [Top(t) EXCEPT !.pc = "publish", !.sub = 1].op = Top(t).op
    BY <1>2 DEF Frame
  <2> QED
    BY <1>3, <1>6, <1>9, <2>1 DEF Send, At
<1>10. CASE Publish(t)
  <2>1. Top(t).sub + 1 \in Nat /\ Top(t).next + 1 \in Nat
    BY <1>2 DEF Frame
  <2>2. /\ [Top(t) EXCEPT !.sub = @ + 1] \in Frame
        /\ [Top(t) EXCEPT !.sub = @ + 1].op = Top(t).op
        /\ [Top(t) EXCEPT !.pc = "send", !.next = @ + 1] \in Frame
        /\ [Top(t) EXCEPT !.pc = "send", !.next = @ + 1].op = Top(t).op
    BY <1>2, <2>1 DEF Frame
  <2> QED
    BY <1>3, <1>10, <2>2 DEF Publish
<1>11. ASSUME NEW e \in Events, EmitMore(t, e)
       PROVE  stack'[t] # <<>> /\ Top(t)'.op = Top(t).op
  <2>1. /\ [Top(t) EXCEPT !.pc = "append", !.event = e, !.list = pending] \in Frame
        /\ [Top(t) EXCEPT !.pc = "append", !.event = e, !.list = pending].op = Top(t).op
    BY <1>2 DEF Frame
  <2> QED
    BY <1>3, <1>11, <2>1 DEF EmitMore
<1> QED
  BY <1>5, <1>7, <1>8, <1>9, <1>10, <1>11 DEF Proceed

\* Between the two ends of a transaction, no other row is shown early.
LEMMA EarlyKept ==
  ASSUME OneThread, BusInv, NEW t \in Threads,
         (Proceed(t) /\ ~Commit(t)) \/ \E e \in Events : EmitMore(t, e)
  PROVE  Early' = Early /\ log' = log
<1>1. lock' = lock /\ log' = log
  BY DEF Proceed, AppendEvent, DrainInside, TestPending, Take, Swap, Send, Publish,
         EmitMore
<1>2. CASE lock = NoThread
  BY <1>1, <1>2 DEF Early
<1>3. CASE lock # NoThread
  <2>1. lock = t /\ Inside(t)
    BY <1>3, OnlyThread DEF BusInv, EventsTypeOK, LockFits
  <2>2. Rights(t) \/ Top(t).pc \notin {"test", "send"}
    BY <2>1 DEF Inside
  <2>3. Rights(t)' <=> Rights(t)
    BY <2>2, SameOperation DEF BusInv, Rights
  <2>4. Rights(t) => uncommitted' = uncommitted
    BY DEF Proceed, AppendEvent, DrainInside, TestPending, Take, Swap, Send, Publish,
           EmitMore
  <2> QED
    BY <1>1, <1>3, <2>1, <2>3, <2>4 DEF Early
<1> QED
  BY <1>1, <1>2, <1>3

\* The first emit of a rights issue announces its event.
LEMMA BeginDelivers ==
  ASSUME OneThread, BusInv, NEW t \in Threads, NEW op \in Operations, NEW e \in Events,
         Begin(t, op, e)
  PROVE  D!Announce(e) \/ UNCHANGED D!vars
<1>1. PICK f \in Frame : f.op = op /\ f.pc = "append"
                         /\ stack' = [stack EXCEPT ![t] = Append(@, f)]
  <2>1. [op |-> op, pc |-> "append", event |-> e, list |-> pending,
         next |-> 1, sub |-> 1] \in Frame
    BY DEF Frame, BusInv, EventsTypeOK
  <2> QED
    BY <2>1 DEF Begin
<1>2. Top(t)' = f
  BY <1>1, BeginNest DEF BusInv
<1>3. /\ lock = NoThread /\ lock' = t /\ t # NoThread
      /\ uncommitted' = {e} /\ e \notin log
      /\ log' = log /\ delivered' = delivered
  BY EventsAssumption DEF Begin, Fresh, busVars, EventsAssumption
<1>4. Early = {} /\ Early' = IF op = "rights" THEN {e} ELSE {}
  BY <1>1, <1>2, <1>3 DEF Early, Rights
<1> QED
  BY <1>3, <1>4 DEF D!Announce, D!vars, Early

\* A commit is the commit of its events.
LEMMA CommitDelivers ==
  ASSUME OneThread, BusInv, NEW t \in Threads, Commit(t)
  PROVE  \E S \in SUBSET Events : D!Commit(S)
<1>1. /\ lock' = NoThread /\ log' = log \cup uncommitted /\ delivered' = delivered
      /\ uncommitted \subseteq Events /\ uncommitted \cap log = {}
  BY DEF Commit, busVars, BusInv, EventsTypeOK, LockFits
<1>2. Early \in {{}, uncommitted} /\ Early' = {}
  BY <1>1 DEF Early
<1>3. D!Commit(uncommitted)
  BY <1>1, <1>2 DEF D!Commit, Early
<1> QED
  BY <1>1, <1>3

\* A call of publish delivers.
LEMMA PublishDelivers ==
  ASSUME OneThread, BusInv, NEW t \in Threads, Publish(t)
  PROVE  (\E s \in Subscribers, e \in Events : D!Deliver(s, e)) \/ UNCHANGED D!vars
<1>1. Early' = Early /\ log' = log
  <2>1. ~Commit(t)
    BY DEF Publish, Commit, At
  <2> QED
    BY <2>1, EarlyKept DEF Proceed
<1>2. CASE Top(t).sub <= Len(subscribers)
  <2>1. PICK s \in Subscribers, e \in Events :
          /\ e \in log \cup uncommitted /\ delivered[s][e] = 0
          /\ delivered' = [delivered EXCEPT ![s][e] = 1]
    BY <1>2, CallbackKnow
  <2>2. e \in log \cup Early
    <3> SUFFICES ASSUME e \in uncommitted PROVE e \in Early
      BY <2>1
    <3>1. lock = t /\ lock # NoThread
      BY OnlyThread DEF BusInv, LockFits, EventsTypeOK
    <3>2. Rights(t)
      BY <3>1 DEF BusInv, LockFits, Inside, Publish, At
    <3> QED
      BY <3>1, <3>2 DEF Early
  <2>3. D!Deliver(s, e)
    BY <1>1, <2>1, <2>2 DEF D!Deliver, Early
  <2> QED
    BY <2>3
<1>3. CASE Top(t).sub > Len(subscribers)
  <2>1. delivered' = delivered
    BY <1>3, PublishedKnow
  <2> QED
    BY <1>1, <2>1 DEF D!vars, Early
<1> QED
  BY <1>2, <1>3 DEF Publish

\* Each step is one of the delivery, or none.
LEMMA DeliveryStep ==
  ASSUME OneThread, BusInv, [EventsNext]_eventVars
  PROVE  [D!Next]_(D!vars)
<1>1. ASSUME NEW t \in Threads, NEW op \in Operations, NEW e \in Events, Begin(t, op, e)
      PROVE  [D!Next]_(D!vars)
  BY <1>1, BeginDelivers DEF D!Next
<1>2. ASSUME NEW t \in Threads, NEW e \in Events, EmitMore(t, e)
      PROVE  UNCHANGED D!vars
  <2>1. Early' = Early /\ log' = log
    BY <1>2, EarlyKept
  <2> QED
    BY <1>2, <2>1 DEF EmitMore, busVars, D!vars, Early
<1>3. ASSUME NEW t \in Threads, Proceed(t)
      PROVE  [D!Next]_(D!vars)
  <2>1. CASE Commit(t)
    BY <2>1, CommitDelivers DEF D!Next
  <2>2. CASE Publish(t)
    BY <2>2, PublishDelivers DEF D!Next
  <2>3. CASE ~Commit(t) /\ ~Publish(t)
    <3>1. Early' = Early /\ log' = log
      BY <1>3, <2>3, EarlyKept
    <3>2. delivered' = delivered
      BY <1>3, <2>3 DEF Proceed, AppendEvent, DrainInside, TestPending, Take, Swap, Send,
         busVars
    <3> QED
      BY <3>1, <3>2 DEF D!vars, Early
  <2> QED
    BY <2>1, <2>2, <2>3
<1>4. ASSUME NEW s \in Subscribers, Subscribe(s) \/ Unsubscribe(s)
      PROVE  UNCHANGED D!vars
  BY <1>4 DEF Subscribe, Unsubscribe, D!vars, Rights, Top
<1>5. CASE UNCHANGED eventVars
  BY <1>5 DEF eventVars, busVars, D!vars, Rights, Top
<1> QED
  BY <1>1, <1>2, <1>3, <1>4, <1>5 DEF EventsNext

\* A broker that one thread uses calls its subscribers with events of the log
\* and of an open rights issue only, and each subscriber at most once with each
\* (observability.py 16, 83-92 and _context.py 103-140), whatever the callbacks
\* do: they call the broker, which drains under the loop that called them, and
\* subscribers come and go under that loop.
THEOREM EventsImplementDelivery ==
  ASSUME OneThread
  PROVE  EventsSpec => ImplementsDelivery
<1>1. EventsInit => D!Init
  BY DEF EventsInit, D!Init
<1>2. BusInv /\ [EventsNext]_eventVars => [D!Next]_(D!vars) /\ BusInv'
  BY DeliveryStep, BusStep
<1> QED
  BY <1>1, <1>2, BusInit, PTL DEF EventsSpec, ImplementsDelivery, D!Spec
=============================================================================
