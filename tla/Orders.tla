------------------------------- MODULE Orders -------------------------------
(***************************************************************************)
(* Orders: what mobile clients push (routes/sync.ts) and what the office   *)
(* does with them (routes/admin.ts, and the realization made from an order *)
(* in routes/realization.ts), over the connections of the pool.            *)
(*                                                                         *)
(* The lines of an order are kept twice: as JSON in the order's row and as *)
(* rows of OrderItem, which the picking list and the collection schedule   *)
(* read.  Writers that replace the lines write the order first, whose row  *)
(* lock then keeps out the others until COMMIT.                            *)
(*                                                                         *)
(* A client runs one call at a time.  A call holds up to two connections:  *)
(* creating an order or a realization asks for a second one, for the       *)
(* document number, while it holds the first.                              *)
(***************************************************************************)
EXTENDS Integers, Sequences, FiniteSetsExt

CONSTANTS
  Clients, Orders,
  Lists,        \* lists of lines, other than the empty one
  PoolSize,     \* connections of the pool
  FullSyncs,    \* the sequences of changes a full sync may carry
  Single,       \* the orders that the other calls are about
  Empty, NULL

ASSUME PoolAssumption == PoolSize \in Nat \ {0} /\ Single \subseteq Orders

\* What a full sync may carry; items that are not sent are NULL.
Changes == [op : {"INSERT", "UPDATE", "DELETE"}, table : {"Order", NULL}, id : Orders,
            items : Lists \cup {Empty, NULL}]

ASSUME ContentAssumption ==
  /\ Empty # NULL /\ {Empty, NULL} \cap Lists = {}
  /\ FullSyncs \subseteq Seq(Changes)

VARIABLES
  order,      \* order[o]: the lines in its row, NULL while there is no row
  rows,       \* rows[o]: rows of OrderItem, each with the call that wrote it
  call,       \* call[c]: the call of client c
  jsonOnly,   \* orders whose JSON was last changed alone (history)
  removed     \* orders that were hard deleted since (history)

tables == <<order, rows>>
history == <<jsonOnly, removed>>
vars == <<tables, call, history>>

Idle == [pc |-> "idle", op |-> NULL, id |-> NULL, items |-> NULL, held |-> 0,
         gone |-> {}, todo |-> << >>, mine |-> << >>, aborted |-> FALSE, ok |-> {}]

\* The rows of OrderItem for a list.
RowsOf(c, items) == IF items = Empty THEN {} ELSE {<<c, items>>}

Init ==
  /\ order \in [Orders -> Lists \cup {Empty, NULL}]
  /\ rows = [o \in Orders |-> IF order[o] = NULL THEN {} ELSE RowsOf(NULL, order[o])]
  /\ call = [c \in Clients |-> Idle]
  /\ jsonOnly = {} /\ removed = {}

-----------------------------------------------------------------------------
(* The pool and the locks.                                                 *)

Available == MapThenSumSet(LAMBDA c : call[c].held, Clients) < PoolSize

\* Faulty variant: the order is written after its old lines were deleted.
Locks_Late(c) ==
  IF call[c].pc = "commit" THEN {call[c].id}
  ELSE IF call[c].pc = "change" THEN DOMAIN call[c].mine ELSE {}

\* The orders whose rows the transaction of c has written.
Locks(c) ==
  IF call[c].pc \in {"clear", "commit"} THEN {call[c].id}
  ELSE IF call[c].pc = "change" THEN DOMAIN call[c].mine ELSE {}

Unlocked(o, c) == \A d \in Clients \ {c} : o \notin Locks(d)

Start(c, op, o, items) ==
  /\ call[c].pc = "idle"
  /\ call' = [call EXCEPT ![c] = [Idle EXCEPT !.pc = "connect", !.op = op, !.id = o, !.items = items]]
  /\ UNCHANGED <<tables, history>>

To(c, pc) == call' = [call EXCEPT ![c].pc = pc]

\* The call is answered, its connection released.
Return(c) == call' = [call EXCEPT ![c] = Idle]

\* pool.connect(), or the connection pool.query takes for one statement.
Connect(c) ==
  /\ call[c].pc = "connect"
  /\ Available
  /\ call' = [call EXCEPT ![c].held = 1,
       ![c].pc = IF call[c].op = "create" THEN "number"
                 ELSE IF call[c].op = "realize" THEN "find"
                 ELSE IF call[c].op = "full" THEN "change" ELSE "write"]
  /\ UNCHANGED <<tables, history>>

\* POST /realizations/from-order/:id reads the order first.
FindOrder(c) ==
  /\ call[c].pc = "find"
  /\ order[call[c].id] # NULL
  /\ To(c, "number")
  /\ UNCHANGED <<tables, history>>

\* Faulty variant: the second connection is not given back.
generateDocNumber_Leaks(c) ==
  /\ call[c].pc = "number"
  /\ Available
  /\ call' = [call EXCEPT ![c].pc = "write", ![c].held = 2]
  /\ UNCHANGED <<tables, history>>

\* generateDocNumber asks the pool for a connection of its own, and gives it
\* back; the number itself is left out.
generateDocNumber(c) ==
  /\ call[c].pc = "number"
  /\ Available
  /\ To(c, "write")
  /\ UNCHANGED <<tables, history>>

-----------------------------------------------------------------------------
(* Calls that replace an order with its lines: INSERT of /sync/push, POST  *)
(* and PUT of /orders.  A list that is not sent is NULL.                   *)

\* The first statement: INSERT ... ON CONFLICT, INSERT, or UPDATE of the order.
WriteOrder(c) ==
  LET o == call[c].id
  IN  /\ call[c].pc = "write" /\ call[c].op \in {"insert", "create", "put"}
      /\ Unlocked(o, c)
      /\ call[c].op = "put" => order[o] # NULL
      /\ To(c, IF call[c].items = NULL THEN "commit" ELSE "clear")
      /\ UNCHANGED <<tables, history>>

\* There is no such order: ROLLBACK, 404.
NotFound(c) ==
  /\ \/ call[c].pc = "find"
     \/ /\ call[c].pc = "write" /\ call[c].op \in {"put", "hard"}
        /\ Unlocked(call[c].id, c)
  /\ order[call[c].id] = NULL
  /\ Return(c)
  /\ UNCHANGED <<tables, history>>

\* DELETE FROM "OrderItem": the rows the statement sees (none for a new order).
ClearRows(c) ==
  /\ call[c].pc = "clear"
  /\ call' = [call EXCEPT ![c].pc = "commit", ![c].gone = rows[call[c].id]]
  /\ UNCHANGED <<tables, history>>

\* The lines an INSERT (JSON.stringify(data.items || [])) or a PUT (COALESCE)
\* leaves in the order's row.
NewItems(c) ==
  IF call[c].items # NULL THEN call[c].items
  ELSE IF call[c].op = "put" THEN order[call[c].id] ELSE Empty

\* The rows are inserted, COMMIT.
CommitOrder(c) ==
  LET o == call[c].id
      items == call[c].items
  IN  /\ call[c].pc = "commit"
      /\ order' = [order EXCEPT ![o] = NewItems(c)]
      /\ rows' = [rows EXCEPT ![o] = IF items = NULL THEN @ ELSE (@ \ call[c].gone) \cup RowsOf(c, items)]
      /\ jsonOnly' = IF items # NULL THEN jsonOnly \ {o}
                     ELSE IF call[c].op = "insert" THEN jsonOnly \cup {o} ELSE jsonOnly
      /\ removed' = removed \ {o}
      /\ call' = [call EXCEPT ![c] = IF @.op = "insert"
           THEN [Idle EXCEPT !.pc = "log", !.op = "insert", !.id = o] ELSE Idle]

-----------------------------------------------------------------------------
(* Calls of one statement.                                                 *)

\* UPDATE of /sync/push: the JSON only, and nothing when there is no such order;
\* answered with success in any case.
UpdateOrder(c) ==
  LET o == call[c].id
  IN  /\ call[c].pc = "write" /\ call[c].op = "update"
      /\ Unlocked(o, c)
      /\ IF order[o] = NULL \/ call[c].items = NULL THEN UNCHANGED <<order, jsonOnly>>
         ELSE /\ order' = [order EXCEPT ![o] = call[c].items]
              /\ jsonOnly' = jsonOnly \cup {o}
      /\ call' = [call EXCEPT ![c] = [Idle EXCEPT !.pc = "log", !.op = "update", !.id = o]]
      /\ UNCHANGED <<rows, removed>>

\* DELETE /orders/:id sets isDeleted.  POST /realizations/from-order/:id sets the
\* status once it has the number, if the order is still there (the realization is
\* a document of module StockLedger).  Neither touches the lines.
MarkOrder(c) ==
  /\ call[c].pc = "write" /\ call[c].op \in {"soft", "realize"}
  /\ Unlocked(call[c].id, c)
  /\ Return(c)
  /\ UNCHANGED <<tables, history>>

\* DELETE /orders/:id/hard, or DELETE of /sync/push, which logs; the rows go
\* along (ON DELETE CASCADE).
HardDelete(c) ==
  LET o == call[c].id
  IN  /\ call[c].pc = "write" /\ call[c].op \in {"hard", "delete"}
      /\ Unlocked(o, c)
      /\ call[c].op = "hard" => order[o] # NULL
      /\ order' = [order EXCEPT ![o] = NULL]
      /\ rows' = [rows EXCEPT ![o] = {}]
      /\ removed' = removed \cup {o} /\ jsonOnly' = jsonOnly \ {o}
      /\ call' = [call EXCEPT ![c] = IF @.op = "delete"
           THEN [Idle EXCEPT !.pc = "log", !.op = "delete", !.id = o] ELSE Idle]

\* /sync/push inserts into SyncLog, on a connection of the pool, and only then
\* answers with success.
Log(c) ==
  /\ call[c].pc = "log"
  /\ Available
  /\ Return(c)
  /\ UNCHANGED <<tables, history>>

\* Faulty variant: a push whose transaction failed goes on as if it had not.
Fail_Swallowed(c) ==
  /\ call[c].pc \notin {"idle", "connect", "change"}
  /\ call' = [call EXCEPT ![c] = IF @.op = "insert" /\ @.pc # "log"
       THEN [Idle EXCEPT !.pc = "log", !.op = "insert", !.id = call[c].id] ELSE Idle]
  /\ UNCHANGED <<tables, history>>

\* A statement fails: ROLLBACK, and an answer that says so; a client may try
\* again.  (Its changes may be stored all the same: see Log.)
Fail(c) ==
  /\ call[c].pc \notin {"idle", "connect", "change"}
  /\ Return(c)
  /\ UNCHANGED <<tables, history>>

-----------------------------------------------------------------------------
(* POST /sync/full: all changes in one transaction.  Errors are caught one *)
(* by one, though the first makes PostgreSQL refuse what follows and turn  *)
(* COMMIT into ROLLBACK.                                                   *)

StartFull(c, changes) ==
  /\ call[c].pc = "idle"
  /\ call' = [call EXCEPT ![c] =
       [Idle EXCEPT !.pc = "connect", !.op = "full", !.todo = changes]]
  /\ UNCHANGED <<tables, history>>

\* The order as the transaction of c sees it.
View(c, o) == IF o \in DOMAIN call[c].mine THEN call[c].mine[o] ELSE order[o]

Put(c, o, row) ==
  [x \in DOMAIN call[c].mine \cup {o} |-> IF x = o THEN row ELSE call[c].mine[x]]

\* An INSERT that names the table Order executes nothing, and is answered with
\* success even when the transaction has failed before.
Silent(change) == change.op = "INSERT" /\ change.table = "Order"

\* A DELETE or UPDATE of an order that is not there does nothing, either.
NoEffect(c, change) ==
  \/ Silent(change)
  \/ change.op # "INSERT" /\ View(c, change.id) = NULL

Written(c, change) ==
  IF change.op = "DELETE" THEN NULL
  ELSE IF change.items # NULL THEN change.items
  ELSE IF change.op = "UPDATE" THEN View(c, change.id) ELSE Empty

FullChange(c) ==
  LET change == Head(call[c].todo)
      o == change.id
  IN  /\ call[c].pc = "change" /\ call[c].todo # << >>
      /\ Silent(change) \/ (~call[c].aborted /\ Unlocked(o, c))
      /\ change.op = "INSERT" => (Silent(change) \/ View(c, o) = NULL)
      /\ call' = [call EXCEPT ![c].todo = Tail(@),
           ![c].mine = IF NoEffect(c, change) THEN @ ELSE Put(c, o, Written(c, change)),
           ![c].ok = IF change.op = "INSERT" THEN @ \cup {o} ELSE @]
      /\ UNCHANGED <<tables, history>>

\* Another call's transaction c waits for.
Waits(c, d) ==
  /\ call[c].pc = "change" /\ call[c].todo # << >> /\ ~call[c].aborted
  /\ ~Silent(Head(call[c].todo)) /\ Head(call[c].todo).id \in Locks(d)

Deadlocked(c) ==
  \E S \in SUBSET Clients : c \in S /\ \A x \in S : \E y \in S \ {x} : Waits(x, y)

\* The change fails, and with it the transaction: the id is taken, the call is
\* chosen to end a deadlock, or the transaction has failed before.
MustFail(c) ==
  LET change == Head(call[c].todo)
  IN  \/ call[c].aborted
      \/ Deadlocked(c)
      \/ change.op = "INSERT" /\ Unlocked(change.id, c) /\ View(c, change.id) # NULL

\* A statement may also fail for other reasons.
FullError(c) ==
  /\ call[c].pc = "change" /\ call[c].todo # << >>
  /\ ~Silent(Head(call[c].todo))
  /\ call' = [call EXCEPT ![c].todo = Tail(@), ![c].aborted = TRUE]
  /\ UNCHANGED <<tables, history>>

\* Faulty variant: nothing ends a transaction one of whose changes failed.
FullCommit_OnlyClean(c) ==
  LET mine == call[c].mine
      W == DOMAIN mine
      D == {o \in W : mine[o] = NULL}
  IN  /\ call[c].pc = "change" /\ call[c].todo = << >> /\ ~call[c].aborted
      /\ order' = [o \in Orders |-> IF o \in W THEN mine[o] ELSE order[o]]
      /\ rows' = [o \in Orders |-> IF o \in D THEN {} ELSE rows[o]]
      /\ jsonOnly' = (jsonOnly \cup W) \ D
      /\ removed' = (removed \ W) \cup D
      /\ call' = [call EXCEPT ![c] = [Idle EXCEPT !.pc = "read", !.held = 1, !.ok = call[c].ok]]

\* COMMIT, or ROLLBACK in its place; no rows of OrderItem are written.
FullCommit(c) ==
  LET mine == call[c].mine
      W == IF call[c].aborted THEN {} ELSE DOMAIN mine
      D == {o \in W : mine[o] = NULL}
  IN  /\ call[c].pc = "change" /\ call[c].todo = << >>
      /\ order' = [o \in Orders |-> IF o \in W THEN mine[o] ELSE order[o]]
      /\ rows' = [o \in Orders |-> IF o \in D THEN {} ELSE rows[o]]
      /\ jsonOnly' = (jsonOnly \cup W) \ D
      /\ removed' = (removed \ W) \cup D
      /\ call' = [call EXCEPT ![c] = [Idle EXCEPT !.pc = "read", !.held = 1, !.ok = call[c].ok]]

\* The updated orders are read on another connection, before the first is given
\* back; then the call is answered.
FullRead(c) ==
  /\ call[c].pc = "read"
  /\ Available
  /\ Return(c)
  /\ UNCHANGED <<tables, history>>

-----------------------------------------------------------------------------
\* The id of an order that is being created is not known to anyone else.
Known(o) == \A c \in Clients : call[c].op = "create" => call[c].id # o

Named(o) == \E c \in Clients :
  call[c].id = o \/ \E i \in DOMAIN call[c].todo : call[c].todo[i].id = o

Request(c) ==
  \/ \E o \in Single :
       /\ Known(o)
       /\ \/ \E op \in {"insert", "update", "put"}, items \in Lists \cup {Empty, NULL} :
               Start(c, op, o, items)
          \/ \E op \in {"soft", "hard", "delete", "realize"} : Start(c, op, o, NULL)
          \/ \E items \in Lists \cup {Empty} :
               order[o] = NULL /\ ~Named(o) /\ Start(c, "create", o, items)
  \/ \E changes \in FullSyncs :
       (\A i \in DOMAIN changes : Known(changes[i].id)) /\ StartFull(c, changes)

Step(c) ==
  \/ Connect(c) \/ FindOrder(c) \/ generateDocNumber(c) \/ WriteOrder(c) \/ NotFound(c)
  \/ ClearRows(c) \/ CommitOrder(c) \/ UpdateOrder(c) \/ MarkOrder(c)
  \/ HardDelete(c) \/ Log(c)
  \/ FullChange(c) \/ FullCommit(c) \/ FullRead(c)
  \/ FullError(c) /\ MustFail(c)

Next == \E c \in Clients : Request(c) \/ Step(c) \/ Fail(c) \/ FullError(c)

\* A call goes on as long as it can.
Fairness == \A c \in Clients : SF_vars(Step(c))

Spec == Init /\ [][Next]_vars /\ Fairness

-----------------------------------------------------------------------------
(* Properties.                                                             *)

TypeOK ==
  /\ order \in [Orders -> Lists \cup {Empty, NULL}]
  /\ \A o \in Orders : rows[o] \subseteq (Clients \cup {NULL}) \X Lists
  /\ \A c \in Clients : call[c].held \in 0 .. 1

\* The rows the picking list adds up are the lines of the order, once: pushes
\* that are retried, edits in the office and pushes that overlap never leave the
\* lines of two writers.  Orders whose JSON alone was changed last (an UPDATE, a
\* full sync, an INSERT without lines) are left out.
OneSetOfRows ==
  \A o \in Orders : (order[o] # NULL /\ o \notin jsonOnly) =>
    /\ {r[2] : r \in rows[o]} = {order[o]} \ {Empty}
    /\ \A r, s \in rows[o] : r = s

\* When /sync/push is about to answer an INSERT with success, the order is stored,
\* unless another call has hard deleted it since.
PushedIsStored ==
  \A c \in Clients : (call[c].pc = "log" /\ call[c].op = "insert") =>
    order[call[c].id] # NULL \/ call[c].id \in removed

\* The same of /sync/full, the "atomic operation".
FullSyncedIsStored ==
  \A c \in Clients : call[c].pc = "read" =>
    \A o \in call[c].ok : order[o] # NULL \/ o \in removed

\* Each connection of the pool is held by a call that waits for a second one.
PoolExhausted ==
  Cardinality({c \in Clients : call[c].held = 1 /\ call[c].pc \in {"number", "read"}})
    = PoolSize

\* Every call returns, unless the pool is exhausted in this one way: nobody waits
\* for ever for a row, for a transaction that failed, or for a connection that
\* another call is going to release.
EveryCallReturns ==
  \A c \in Clients : call[c].pc # "idle" ~> (call[c].pc = "idle" \/ PoolExhausted)

\* The pool never runs out like that.
PoolSuffices == ~PoolExhausted
=============================================================================
