---------------------------- MODULE OrdersProofs ----------------------------
(***************************************************************************)
(* Proofs about orders, for any number of clients, orders, lists of lines  *)
(* and connections and any full syncs: the rows of an order are the lines  *)
(* in its JSON, once, and what a push is about to report as stored is.     *)
(***************************************************************************)
EXTENDS Orders, SequenceTheorems, TLAPS

ItemLists == Lists \cup {Empty, NULL}
Rows == (Clients \cup {NULL}) \X Lists

Calls ==
  [pc : {"idle", "connect", "number", "find", "write", "clear", "commit", "log",
         "change", "read"},
   op : {"insert", "update", "put", "create", "soft", "hard", "delete", "realize",
         "full", NULL},
   id : Orders \cup {NULL}, items : ItemLists, held : 0 .. 1,
   gone : SUBSET Rows, todo : Seq(Changes),
   mine : UNION {[D -> ItemLists] : D \in SUBSET Orders},
   aborted : BOOLEAN, ok : SUBSET Orders]

Types ==
  /\ order \in [Orders -> ItemLists]
  /\ rows \in [Orders -> SUBSET Rows]
  /\ call \in [Clients -> Calls]

\* What the steps of a call rely on: the order it is about and the lines it has.
CallOK(k) ==
  /\ k.pc \in {"number", "find", "write", "clear", "commit", "log"} => k.id \in Orders
  /\ k.pc = "connect" => (k.op = "full" \/ k.id \in Orders) /\ DOMAIN k.mine = {}
  /\ k.pc = "find" => k.op = "realize"
  /\ k.pc = "number" => k.op \in {"create", "realize"}
  /\ k.pc \in {"clear", "commit"} => k.op \in {"insert", "create", "put"}
  /\ (k.pc \in {"connect", "number", "write", "clear", "commit"} /\ k.op = "create")
       => k.items # NULL

\* Two transactions never hold the lock of one order.
LocksExclude ==
  \A c, d \in Clients, o \in Orders : (o \in Locks(c) /\ o \in Locks(d)) => c = d

\* An order that a PUT has locked is there, and the rows that it, or an INSERT,
\* has deleted are all the rows the order has.
LockedStays ==
  \A c \in Clients :
    /\ (call[c].pc \in {"clear", "commit"} /\ call[c].op = "put")
         => order[call[c].id] # NULL
    /\ (call[c].pc = "commit" /\ call[c].items # NULL)
         => call[c].gone = rows[call[c].id]

\* ON DELETE CASCADE: no rows without an order.
NoStrayRows == \A o \in Orders : order[o] = NULL => rows[o] = {}

\* The inductive invariant.
Inv ==
  /\ Types
  /\ \A c \in Clients : CallOK(call[c])
  /\ LocksExclude
  /\ LockedStays
  /\ NoStrayRows
  /\ OneSetOfRows
  /\ PushedIsStored

-----------------------------------------------------------------------------
(* The two shapes of a step.                                               *)

\* Most steps move a call on and write nothing: the lemma says what the call may
\* become.
LEMMA CallMoves ==
  ASSUME Inv, NEW c \in Clients, NEW k \in Calls, CallOK(k),
         call' = [call EXCEPT ![c] = k], UNCHANGED <<tables, history>>,
         \A o \in Locks(c)' : o \in Locks(c) \/ Unlocked(o, c),
         (k.pc \in {"clear", "commit"} /\ k.op = "put") => order[k.id] # NULL,
         (k.pc = "commit" /\ k.items # NULL) => k.gone = rows[k.id],
         (k.pc = "log" /\ k.op = "insert") => order[k.id] # NULL \/ k.id \in removed
  PROVE  Inv'
<1>1. call \in [Clients -> Calls]  BY DEF Inv, Types
<1>2. call'[c] = k /\ \A d \in Clients \ {c} : call'[d] = call[d]
  BY <1>1
<1>3. UNCHANGED <<order, rows, jsonOnly, removed>>
  BY DEF tables, history
<1>4. Types'  BY <1>1, <1>3 DEF Inv, Types
<1>5. \A d \in Clients : CallOK(call'[d])
  BY <1>2 DEF Inv
<1>6. LocksExclude'
  <2>1. \A d \in Clients \ {c} : Locks(d)' = Locks(d)
    BY <1>2 DEF Locks
  <2> QED  BY <2>1 DEF Inv, LocksExclude, Unlocked
<1>7. LockedStays'
  BY <1>2, <1>3 DEF Inv, LockedStays
<1>8. NoStrayRows' /\ OneSetOfRows'
  BY <1>3 DEF Inv, NoStrayRows, OneSetOfRows
<1>9. PushedIsStored'
  BY <1>2, <1>3 DEF Inv, PushedIsStored
<1> QED  BY <1>4, <1>5, <1>6, <1>7, <1>8, <1>9 DEF Inv, CallOK

\* A step that writes orders of W, which are locked by c or by nobody, leaves the
\* calls of others what they rely on, if the orders it removes are remembered.
LEMMA CallWrites ==
  ASSUME Inv, NEW c \in Clients, NEW W \in SUBSET Orders,
         \A o \in W : Unlocked(o, c),
         \A o \in Orders \ W : order'[o] = order[o] /\ rows'[o] = rows[o],
         \A o \in W : order'[o] # NULL \/ o \in removed',
         \A o \in Orders \ W : o \in removed => o \in removed',
         NEW k \in Calls, CallOK(k), call' = [call EXCEPT ![c] = k],
         k.pc \in {"idle", "log", "read"},
         (k.pc = "log" /\ k.op = "insert") => order'[k.id] # NULL \/ k.id \in removed'
  PROVE  /\ \A d \in Clients : CallOK(call[d])'
         /\ LocksExclude' /\ LockedStays' /\ PushedIsStored'
         /\ call' \in [Clients -> Calls]
<1>1. call \in [Clients -> Calls]  BY DEF Inv, Types
<1>2. call'[c] = k /\ \A d \in Clients \ {c} : call'[d] = call[d]
  BY <1>1
<1>3. \A d \in Clients : CallOK(call[d])'
  BY <1>2 DEF Inv, CallOK
<1>4. Locks(c)' = {} /\ \A d \in Clients \ {c} : Locks(d)' = Locks(d)
  BY <1>2 DEF Locks
<1>5. LocksExclude'
  BY <1>4 DEF Inv, LocksExclude
<1>6. \A d \in Clients \ {c} : call[d].pc \in {"clear", "commit"} =>
        call[d].id \in Orders \ W
  <2> TAKE d \in Clients \ {c}
  <2> HAVE call[d].pc \in {"clear", "commit"}
  <2>1. call[d].id \in Orders  BY DEF Inv, CallOK
  <2>2. call[d].id \in Locks(d)  BY DEF Locks
  <2> QED  BY <2>1, <2>2 DEF Unlocked
<1>7. LockedStays'
  BY <1>2, <1>6 DEF Inv, LockedStays
<1>8. PushedIsStored'
  <2> SUFFICES ASSUME NEW d \in Clients, call'[d].pc = "log", call'[d].op = "insert"
               PROVE  order'[call'[d].id] # NULL \/ call'[d].id \in removed'
    BY DEF PushedIsStored
  <2>1. CASE d = c  BY <1>2, <2>1
  <2>2. CASE d # c
    <3>1. call[d].id \in Orders /\ call'[d] = call[d]
      BY <1>2, <2>2 DEF Inv, CallOK
    <3> QED  BY <2>2, <3>1 DEF Inv, PushedIsStored
  <2> QED  BY <2>1, <2>2
<1> QED  BY <1>1, <1>3, <1>5, <1>7, <1>8

-----------------------------------------------------------------------------
(* The steps that only move a call.                                        *)

\* An idle call has everything of its type.
LEMMA IdleIsCall == Idle \in Calls /\ CallOK(Idle) /\ DOMAIN Idle.mine = {}
<1>1. << >> \in [{} -> ItemLists] /\ << >> \in Seq(Changes)
  OBVIOUS
<1>2. << >> \in UNION {[D -> ItemLists] : D \in SUBSET Orders}
  <2>1. {} \in SUBSET Orders  OBVIOUS
  <2> QED  BY <1>1, <2>1, Zenon
<1>3. /\ Idle.pc = "idle" /\ Idle.op = NULL /\ Idle.id = NULL /\ Idle.items = NULL
      /\ Idle.held = 0 /\ Idle.gone = {} /\ Idle.todo = << >> /\ Idle.mine = << >>
      /\ Idle.aborted = FALSE /\ Idle.ok = {}
  BY DEF Idle
<1>4. Idle \in Calls
  BY <1>1, <1>2 DEF Idle, Calls, ItemLists
<1> QED  BY <1>3, <1>4 DEF CallOK

\* A call that returns, or fails, holds nothing.
LEMMA ReturnKeeps ==
  ASSUME Inv, NEW c \in Clients, Return(c), UNCHANGED <<tables, history>>
  PROVE  Inv'
<1>1. call[c]' = Idle /\ Idle.pc = "idle"
  BY DEF Return, Inv, Types, Idle
<1>2. Locks(c)' = {}
  BY <1>1 DEF Locks
<1> QED  BY <1>1, <1>2, IdleIsCall, CallMoves DEF Return

\* A call that starts names an order, or is a full sync.
LEMMA StartKeeps ==
  ASSUME Inv, NEW c \in Clients, NEW k \in Calls, CallOK(k), k.pc = "connect",
         call' = [call EXCEPT ![c] = k], UNCHANGED <<tables, history>>
  PROVE  Inv'
<1>1. call[c]' = k  BY DEF Inv, Types
<1>2. Locks(c)' = {}  BY <1>1 DEF Locks
<1> QED  BY <1>2, CallMoves

\* A new call on one order has no connection yet and has written nothing.
LEMMA RequestKeeps ==
  ASSUME Inv, NEW c \in Clients, Request(c)
  PROVE  Inv'
<1>1. ASSUME NEW op \in {"insert", "update", "put", "create", "soft", "hard", "delete", "realize"},
             NEW o \in Single, NEW items \in ItemLists,
             op = "create" => items # NULL, Start(c, op, o, items)
      PROVE  Inv'
  <2> DEFINE k == [Idle EXCEPT !.pc = "connect", !.op = op, !.id = o, !.items = items]
  <2>1. o \in Orders  BY PoolAssumption
  <2>2. k \in Calls /\ CallOK(k) /\ k.pc = "connect"
    BY <1>1, <2>1, IdleIsCall DEF Calls, CallOK
  <2> HIDE DEF k
  <2>3. call' = [call EXCEPT ![c] = k] /\ UNCHANGED <<tables, history>>
    BY <1>1 DEF Start, k
  <2> QED  BY <2>2, <2>3, StartKeeps
<1>2. ASSUME NEW changes \in FullSyncs, StartFull(c, changes)
      PROVE  Inv'
  <2> DEFINE k == [Idle EXCEPT !.pc = "connect", !.op = "full", !.todo = changes]
  <2>1. k \in Calls /\ CallOK(k) /\ k.pc = "connect"
    BY <1>2, IdleIsCall, ContentAssumption DEF Calls, CallOK
  <2> HIDE DEF k
  <2>2. call' = [call EXCEPT ![c] = k] /\ UNCHANGED <<tables, history>>
    BY <1>2 DEF StartFull, k
  <2> QED  BY <2>1, <2>2, StartKeeps
<1>3. \A items \in Lists \cup {Empty} : items \in ItemLists /\ items # NULL
  BY ContentAssumption DEF ItemLists
<1>4. NULL \in ItemLists  BY DEF ItemLists
<1> QED  BY <1>1, <1>2, <1>3, <1>4 DEF Request, ItemLists

\* A step that only sets the pc of a call.
LEMMA ToKeeps ==
  ASSUME Inv, NEW c \in Clients,
         NEW pc \in {"number", "write", "clear", "commit"}, To(c, pc),
         UNCHANGED <<tables, history>>,
         CallOK([call[c] EXCEPT !.pc = pc]),
         pc \in {"clear", "commit"} => Unlocked(call[c].id, c),
         (pc \in {"clear", "commit"} /\ call[c].op = "put") => order[call[c].id] # NULL,
         pc = "commit" => call[c].items = NULL
  PROVE  Inv'
<1> DEFINE k == [call[c] EXCEPT !.pc = pc]
<1>1. call[c] \in Calls /\ call \in [Clients -> Calls]  BY DEF Inv, Types
<1>2. /\ k \in Calls /\ k.pc = pc /\ k.op = call[c].op /\ k.id = call[c].id
      /\ k.items = call[c].items
  BY <1>1 DEF Calls
<1>3. call' = [call EXCEPT ![c] = k]  BY DEF To
<1>4. CallOK(k)  OBVIOUS
<1> HIDE DEF k
<1>5. call'[c] = k  BY <1>1, <1>3
<1>6. \A o \in Locks(c)' : Unlocked(o, c)
  BY <1>2, <1>5 DEF Locks
<1> QED  BY <1>2, <1>3, <1>4, <1>6, CallMoves

\* FindOrder, generateDocNumber and WriteOrder: a call comes nearer to
\* its first statement, and a PUT or an INSERT takes the lock of its order.
LEMMA ApproachKeeps ==
  ASSUME Inv, NEW c \in Clients,
         FindOrder(c) \/ generateDocNumber(c) \/ WriteOrder(c)
  PROVE  Inv'
<1>1. call[c] \in Calls /\ CallOK(call[c])  BY DEF Inv, Types
<1>2. CASE FindOrder(c)
  <2>1. CallOK([call[c] EXCEPT !.pc = "number"])
    BY <1>1, <1>2 DEF FindOrder, Calls, CallOK
  <2> QED  BY <1>2, <2>1, ToKeeps DEF FindOrder
<1>3. CASE generateDocNumber(c)
  <2>1. CallOK([call[c] EXCEPT !.pc = "write"])
    BY <1>1, <1>3 DEF generateDocNumber, Calls, CallOK
  <2> QED  BY <1>3, <2>1, ToKeeps DEF generateDocNumber
<1>4. CASE WriteOrder(c)
  <2> DEFINE pc == IF call[c].items = NULL THEN "commit" ELSE "clear"
  <2>1. CallOK([call[c] EXCEPT !.pc = pc])
    BY <1>1, <1>4 DEF WriteOrder, Calls, CallOK
  <2>2. To(c, pc) /\ UNCHANGED <<tables, history>> /\ Unlocked(call[c].id, c)
    BY <1>4 DEF WriteOrder
  <2>3. call[c].op = "put" => order[call[c].id] # NULL
    BY <1>4 DEF WriteOrder
  <2>4. /\ pc \in {"number", "write", "clear", "commit"}
        /\ pc = "commit" => call[c].items = NULL
    OBVIOUS
  <2> HIDE DEF pc
  <2> QED  BY <2>1, <2>2, <2>3, <2>4, ToKeeps
<1> QED  BY <1>2, <1>3, <1>4

\* A call gets its connection and its first step.
LEMMA ConnectKeeps ==
  ASSUME Inv, NEW c \in Clients, Connect(c)
  PROVE  Inv'
<1> DEFINE pc == IF call[c].op = "create" THEN "number"
                 ELSE IF call[c].op = "realize" THEN "find"
                 ELSE IF call[c].op = "full" THEN "change" ELSE "write"
           k == [call[c] EXCEPT !.held = 1, !.pc = pc]
<1>1. call[c] \in Calls /\ CallOK(call[c]) /\ call \in [Clients -> Calls]
  BY DEF Inv, Types
<1>2. call' = [call EXCEPT ![c] = k] /\ UNCHANGED <<tables, history>>
  BY DEF Connect
<1>3. k \in Calls /\ k.pc = pc /\ CallOK(k) /\ k.mine = call[c].mine
  BY <1>1 DEF Connect, Calls, CallOK
<1>4. k.pc \in {"number", "find", "write", "change"} /\ DOMAIN k.mine = {}
  BY <1>1, <1>3 DEF Connect, CallOK
<1> HIDE DEF k, pc
<1>5. call'[c] = k  BY <1>1, <1>2
<1>6. Locks(c)' = {}
  BY <1>4, <1>5 DEF Locks
<1> QED  BY <1>2, <1>3, <1>4, <1>6, CallMoves

\* The rows a statement deletes are those the order has.
LEMMA ClearKeeps ==
  ASSUME Inv, NEW c \in Clients, ClearRows(c)
  PROVE  Inv'
<1> DEFINE k == [call[c] EXCEPT !.pc = "commit", !.gone = rows[call[c].id]]
<1>1. /\ call[c] \in Calls /\ CallOK(call[c]) /\ call \in [Clients -> Calls]
      /\ rows[call[c].id] \in SUBSET Rows
  BY DEF Inv, Types, ClearRows, CallOK
<1>2. call' = [call EXCEPT ![c] = k] /\ UNCHANGED <<tables, history>>
  BY DEF ClearRows
<1>3. /\ k \in Calls /\ CallOK(k) /\ k.pc = "commit" /\ k.gone = rows[call[c].id]
      /\ k.id = call[c].id /\ k.op = call[c].op
  BY <1>1 DEF ClearRows, Calls, CallOK
<1> HIDE DEF k
<1>4. call'[c] = k  BY <1>1, <1>2
<1>5. Locks(c)' = Locks(c)
  BY <1>3, <1>4 DEF ClearRows, Locks
<1>6. k.op = "put" => order[k.id] # NULL
  BY <1>3 DEF Inv, LockedStays, ClearRows
<1> QED  BY <1>2, <1>3, <1>5, <1>6, CallMoves

-----------------------------------------------------------------------------
(* Calls that write one order.                                             *)

\* CommitOrder replaces the rows the DELETE saw, which are all there are: the row
\* of the order has been locked since.
LEMMA CommitKeeps ==
  ASSUME Inv, NEW c \in Clients, CommitOrder(c)
  PROVE  Inv'
<1> DEFINE o == call[c].id
           items == call[c].items
           logs == [Idle EXCEPT !.pc = "log", !.op = "insert", !.id = o]
           k == IF call[c].op = "insert" THEN logs ELSE Idle
<1>1. /\ call[c] \in Calls /\ CallOK(call[c]) /\ call[c].pc = "commit" /\ o \in Orders
      /\ call[c].op \in {"insert", "create", "put"}
      /\ call \in [Clients -> Calls] /\ order \in [Orders -> ItemLists]
      /\ rows \in [Orders -> SUBSET Rows] /\ items \in ItemLists
  BY DEF Inv, Types, CommitOrder, CallOK, Calls
<1>2. /\ k \in Calls /\ CallOK(k) /\ k.pc \in {"idle", "log"}
      /\ k.pc = "log" => k.id = o
  <2>1. /\ logs \in Calls /\ CallOK(logs) /\ logs.pc = "log" /\ logs.id = o
    BY <1>1, IdleIsCall DEF Calls, CallOK
  <2> QED  BY <2>1, IdleIsCall DEF Idle
<1>3. call' = [call EXCEPT ![c] = k]
  BY DEF CommitOrder
<1> HIDE DEF k, logs
<1>4. Unlocked(o, c)
  BY <1>1 DEF Inv, LocksExclude, Unlocked, Locks
<1>5. NewItems(c) \in ItemLists /\ NewItems(c) # NULL
  BY <1>1, ContentAssumption DEF NewItems, Inv, LockedStays, ItemLists
<1>6. /\ order'[o] = NewItems(c)
      /\ \A x \in Orders \ {o} : order'[x] = order[x] /\ rows'[x] = rows[x]
      /\ removed' = removed \ {o}
  BY <1>1 DEF CommitOrder
<1>7. /\ \A d \in Clients : CallOK(call[d])'
      /\ LocksExclude' /\ LockedStays' /\ PushedIsStored'
      /\ call' \in [Clients -> Calls]
  <2>1. /\ {o} \in SUBSET Orders /\ \A x \in {o} : Unlocked(x, c)
        /\ \A x \in Orders \ {o} : order'[x] = order[x] /\ rows'[x] = rows[x]
        /\ \A x \in {o} : order'[x] # NULL \/ x \in removed'
        /\ \A x \in Orders \ {o} : x \in removed => x \in removed'
    BY <1>1, <1>4, <1>5, <1>6
  <2>2. k.pc \in {"idle", "log", "read"}
        /\ ((k.pc = "log" /\ k.op = "insert") => order'[k.id] # NULL \/ k.id \in removed')
    BY <1>2, <1>5, <1>6
  <2> HIDE DEF o
  <2> QED  BY <1>2, <1>3, <2>1, <2>2, CallWrites
<1>8. CASE items = NULL
  <2>1. rows'[o] = rows[o]
    BY <1>1, <1>8 DEF CommitOrder
  <2>2. call[c].op # "create"
    BY <1>1, <1>8 DEF CallOK
  <2>3. CASE call[c].op = "insert"
    <3>1. o \in jsonOnly' /\ \A x \in Orders \ {o} : x \in jsonOnly' <=> x \in jsonOnly
      BY <1>8, <2>3 DEF CommitOrder
    <3>2. Types'
      BY <1>1, <1>5, <1>7, <1>8 DEF CommitOrder, Types
    <3> QED  BY <1>5, <1>6, <1>7, <2>1, <3>1, <3>2 DEF Inv, NoStrayRows, OneSetOfRows
  <2>4. CASE call[c].op = "put"
    <3>1. jsonOnly' = jsonOnly
      BY <1>8, <2>4 DEF CommitOrder
    <3>2. order[o] = order'[o]
      BY <1>6, <1>8, <2>4 DEF NewItems
    <3>3. Types'
      BY <1>1, <1>5, <1>7, <1>8 DEF CommitOrder, Types
    <3> QED  BY <1>6, <1>7, <2>1, <3>1, <3>2, <3>3 DEF Inv, NoStrayRows, OneSetOfRows
  <2> QED  BY <1>1, <2>2, <2>3, <2>4
<1>9. CASE items # NULL
  <2>1. rows'[o] = RowsOf(c, items) /\ NewItems(c) = items
    BY <1>1, <1>9 DEF CommitOrder, NewItems, Inv, LockedStays
  <2>2. /\ RowsOf(c, items) \in SUBSET Rows
        /\ {r[2] : r \in RowsOf(c, items)} = {items} \ {Empty}
        /\ \A r, s \in RowsOf(c, items) : r = s
    <3>1. CASE items = Empty  BY <3>1 DEF RowsOf
    <3>2. CASE items # Empty
      <4>1. RowsOf(c, items) = {<<c, items>>}  BY <3>2 DEF RowsOf
      <4>2. items \in Lists  BY <1>1, <1>9, <3>2 DEF ItemLists
      <4> QED  BY <3>2, <4>1, <4>2 DEF Rows
    <3> QED  BY <3>1, <3>2
  <2>3. rows' = [rows EXCEPT ![o] = RowsOf(c, items)]
    BY <1>1, <1>9, <2>1 DEF CommitOrder
  <2>4. Types'
    BY <1>1, <1>5, <1>7, <2>2, <2>3 DEF CommitOrder, Types
  <2>5. NoStrayRows'
    BY <1>5, <1>6 DEF Inv, NoStrayRows
  <2>6. OneSetOfRows'
    <3>1. jsonOnly' = jsonOnly \ {o}  BY <1>9 DEF CommitOrder
    <3> SUFFICES ASSUME NEW x \in Orders, order'[x] # NULL, x \notin jsonOnly'
                 PROVE  /\ {r[2] : r \in rows'[x]} = {order'[x]} \ {Empty}
                        /\ \A r, s \in rows'[x] : r = s
      BY DEF OneSetOfRows
    <3>2. CASE x = o  BY <1>6, <2>1, <2>2, <3>2
    <3>3. CASE x # o  BY <1>6, <3>1, <3>3 DEF Inv, OneSetOfRows
    <3> QED  BY <3>2, <3>3
  <2> QED  BY <1>7, <2>4, <2>5, <2>6 DEF Inv
<1> QED  BY <1>8, <1>9

\* A call that answers through the log.
LEMMA LogCall ==
  ASSUME NEW op \in {"insert", "update", "delete"}, NEW o \in Orders
  PROVE  LET k == [Idle EXCEPT !.pc = "log", !.op = op, !.id = o]
         IN  k \in Calls /\ CallOK(k) /\ k.pc = "log" /\ k.op = op /\ k.id = o
BY IdleIsCall DEF Calls, CallOK

\* A full sync that has committed.
LEMMA ReadCall ==
  ASSUME NEW ok \in SUBSET Orders
  PROVE  LET k == [Idle EXCEPT !.pc = "read", !.held = 1, !.ok = ok]
         IN  k \in Calls /\ CallOK(k) /\ k.pc = "read"
<1> DEFINE i == [Idle EXCEPT !.pc = "read"]
           j == [i EXCEPT !.held = 1]
           k == [j EXCEPT !.ok = ok]
<1>1. i \in Calls /\ i.pc = "read"
  BY IdleIsCall DEF Calls
<1> HIDE DEF i
<1>2. j \in Calls /\ j.pc = i.pc
  BY <1>1 DEF Calls
<1> HIDE DEF j
<1>3. k \in Calls /\ k.pc = j.pc
  BY <1>2 DEF Calls
<1> HIDE DEF k
<1>4. CallOK(k) /\ k.pc = "read"
  BY <1>1, <1>2, <1>3 DEF CallOK
<1> QED  BY <1>3, <1>4 DEF i, j, k

\* UPDATE of /sync/push changes the JSON and remembers that in jsonOnly.
LEMMA UpdateKeeps ==
  ASSUME Inv, NEW c \in Clients, UpdateOrder(c)
  PROVE  Inv'
<1> DEFINE o == call[c].id
           k == [Idle EXCEPT !.pc = "log", !.op = "update", !.id = o]
<1>1. /\ call[c] \in Calls /\ CallOK(call[c]) /\ o \in Orders
      /\ order \in [Orders -> ItemLists] /\ call[c].items \in ItemLists
      /\ Unlocked(o, c) /\ UNCHANGED <<rows, removed>>
  BY DEF Inv, Types, UpdateOrder, CallOK, Calls
<1>2. k \in Calls /\ CallOK(k) /\ k.pc = "log" /\ k.op = "update"
  BY <1>1, LogCall
<1>3. call' = [call EXCEPT ![c] = k]
  BY DEF UpdateOrder
<1> HIDE DEF k
<1>4. CASE order[o] = NULL \/ call[c].items = NULL
  <2>1. UNCHANGED <<order, rows, jsonOnly, removed>>
    BY <1>1, <1>4 DEF UpdateOrder
  <2>2. /\ \A d \in Clients : CallOK(call[d])'
        /\ LocksExclude' /\ LockedStays' /\ PushedIsStored'
        /\ call' \in [Clients -> Calls]
    <3>1. {} \in SUBSET Orders /\ "insert" # "update"  OBVIOUS
    <3> QED  BY <1>2, <1>3, <2>1, <3>1, CallWrites
  <2> QED  BY <2>1, <2>2 DEF Inv, Types, NoStrayRows, OneSetOfRows
<1>5. CASE order[o] # NULL /\ call[c].items # NULL
  <2>1. /\ order' = [order EXCEPT ![o] = call[c].items]
        /\ jsonOnly' = jsonOnly \cup {o}
    BY <1>5 DEF UpdateOrder
  <2>2. order'[o] # NULL /\ \A x \in Orders \ {o} : order'[x] = order[x]
    BY <1>1, <1>5, <2>1
  <2>3. /\ \A d \in Clients : CallOK(call[d])'
        /\ LocksExclude' /\ LockedStays' /\ PushedIsStored'
        /\ call' \in [Clients -> Calls]
    <3>1. /\ {o} \in SUBSET Orders /\ \A x \in {o} : Unlocked(x, c)
          /\ \A x \in Orders \ {o} : order'[x] = order[x] /\ rows'[x] = rows[x]
          /\ \A x \in {o} : order'[x] # NULL \/ x \in removed'
          /\ \A x \in Orders \ {o} : x \in removed => x \in removed'
      BY <1>1, <2>2
    <3>2. k.pc \in {"idle", "log", "read"} /\ k.op # "insert"
      BY <1>2
    <3> HIDE DEF o
    <3> QED  BY <1>2, <1>3, <3>1, <3>2, CallWrites
  <2>4. Types'
    BY <1>1, <2>1, <2>3 DEF Inv, Types
  <2>5. NoStrayRows' /\ OneSetOfRows'
    BY <1>1, <2>1, <2>2 DEF Inv, NoStrayRows, OneSetOfRows
  <2> QED  BY <2>3, <2>4, <2>5 DEF Inv
<1> QED  BY <1>4, <1>5

\* A hard delete takes the rows along and remembers the order in removed.
LEMMA HardDeleteKeeps ==
  ASSUME Inv, NEW c \in Clients, HardDelete(c)
  PROVE  Inv'
<1> DEFINE o == call[c].id
           logs == [Idle EXCEPT !.pc = "log", !.op = "delete", !.id = o]
           k == IF call[c].op = "delete" THEN logs ELSE Idle
<1>1. /\ call[c] \in Calls /\ CallOK(call[c]) /\ o \in Orders
      /\ call \in [Clients -> Calls] /\ order \in [Orders -> ItemLists]
      /\ rows \in [Orders -> SUBSET Rows] /\ Unlocked(o, c)
  BY DEF Inv, Types, HardDelete, CallOK, Calls
<1>2. k \in Calls /\ CallOK(k) /\ (k.pc = "idle" \/ (k.pc = "log" /\ k.op # "insert"))
  <2>1. logs \in Calls /\ CallOK(logs) /\ logs.pc = "log" /\ logs.op = "delete"
    BY <1>1, LogCall
  <2> HIDE DEF logs
  <2> QED  BY <2>1, IdleIsCall DEF Idle
<1>3. call' = [call EXCEPT ![c] = k]
  BY DEF HardDelete
<1> HIDE DEF k, logs
<1>4. /\ order'[o] = NULL /\ rows'[o] = {} /\ removed' = removed \cup {o}
      /\ \A x \in Orders \ {o} :
           /\ order'[x] = order[x] /\ rows'[x] = rows[x]
           /\ x \in jsonOnly' <=> x \in jsonOnly
  BY <1>1 DEF HardDelete
<1>5. /\ \A d \in Clients : CallOK(call[d])'
      /\ LocksExclude' /\ LockedStays' /\ PushedIsStored'
      /\ call' \in [Clients -> Calls]
  <2>1. /\ {o} \in SUBSET Orders /\ \A x \in {o} : Unlocked(x, c)
        /\ \A x \in Orders \ {o} : order'[x] = order[x] /\ rows'[x] = rows[x]
        /\ \A x \in {o} : order'[x] # NULL \/ x \in removed'
        /\ \A x \in Orders \ {o} : x \in removed => x \in removed'
    BY <1>1, <1>4
  <2>2. k.pc \in {"idle", "log", "read"} /\ ~(k.pc = "log" /\ k.op = "insert")
    BY <1>2
  <2> HIDE DEF o
  <2> QED  BY <1>2, <1>3, <2>1, <2>2, CallWrites
<1>6. Types'
  BY <1>1, <1>5 DEF HardDelete, Types, ItemLists
<1>7. NoStrayRows' /\ OneSetOfRows'
  BY <1>4 DEF Inv, NoStrayRows, OneSetOfRows
<1> QED  BY <1>5, <1>6, <1>7 DEF Inv

-----------------------------------------------------------------------------
(* The full sync.                                                          *)

\* The writes of a full sync are lists of orders; it holds the locks of the
\* orders it has written, and a change takes a lock that is free.
LEMMA FullChangeKeeps ==
  ASSUME Inv, NEW c \in Clients, FullChange(c)
  PROVE  Inv'
<1> DEFINE change == Head(call[c].todo)
           o == change.id
           mine == IF NoEffect(c, change) THEN call[c].mine ELSE Put(c, o, Written(c, change))
           ok == IF change.op = "INSERT" THEN call[c].ok \cup {o} ELSE call[c].ok
           k == [call[c] EXCEPT !.todo = Tail(call[c].todo), !.mine = mine, !.ok = ok]
<1>1. /\ call[c] \in Calls /\ call[c].pc = "change"
      /\ call \in [Clients -> Calls] /\ order \in [Orders -> ItemLists]
      /\ call[c].todo \in Seq(Changes) /\ call[c].todo # << >> /\ call[c].ok \in SUBSET Orders
      /\ Silent(change) \/ Unlocked(o, c)
  BY DEF Inv, Types, FullChange, Calls
<1>2. change \in Changes /\ Tail(call[c].todo) \in Seq(Changes)
  BY <1>1, HeadTailProperties
<1>3. o \in Orders /\ change.items \in ItemLists
  BY <1>2 DEF Changes, ItemLists
<1>4. PICK D \in SUBSET Orders : call[c].mine \in [D -> ItemLists]
  BY <1>1 DEF Calls
<1>5. Written(c, change) \in ItemLists
  BY <1>1, <1>3, <1>4 DEF Written, View, ItemLists
<1>6. Put(c, o, Written(c, change)) \in [D \cup {o} -> ItemLists]
  BY <1>4, <1>5 DEF Put
<1>7. \E E \in SUBSET Orders : E \subseteq D \cup {o} /\ mine \in [E -> ItemLists]
  BY <1>3, <1>4, <1>6
<1>8. mine \in UNION {[E -> ItemLists] : E \in SUBSET Orders} /\ DOMAIN mine \subseteq D \cup {o}
  BY <1>7
<1>9. ok \in SUBSET Orders
  BY <1>1, <1>3
<1>10. call' = [call EXCEPT ![c] = k] /\ UNCHANGED <<tables, history>>
  BY DEF FullChange
<1>16. Silent(change) => mine = call[c].mine
  BY DEF NoEffect
<1> HIDE DEF mine, ok
<1>11. k \in Calls /\ k.pc = "change" /\ k.mine = mine
  BY <1>1, <1>2, <1>8, <1>9 DEF Calls
<1>12. CallOK(k)
  BY <1>11 DEF CallOK
<1> HIDE DEF k
<1>13. call'[c] = k  BY <1>1, <1>10
<1>14. Locks(c) = D /\ Locks(c)' \subseteq D \cup {o}
  BY <1>1, <1>4, <1>8, <1>11, <1>13 DEF Locks
<1>15. \A x \in Locks(c)' : x \in Locks(c) \/ Unlocked(x, c)
  <2>1. CASE Silent(change)
    BY <1>1, <1>11, <1>13, <1>16, <2>1 DEF Locks
  <2>2. CASE ~Silent(change)
    BY <1>1, <1>14, <2>2
  <2> QED  BY <2>1, <2>2
<1> QED  BY <1>10, <1>11, <1>12, <1>15, CallMoves

\* A change that fails writes nothing.
LEMMA FullErrorKeeps ==
  ASSUME Inv, NEW c \in Clients, FullError(c)
  PROVE  Inv'
<1> DEFINE k == [call[c] EXCEPT !.todo = Tail(call[c].todo), !.aborted = TRUE]
<1>1. /\ call[c] \in Calls /\ call[c].pc = "change" /\ call \in [Clients -> Calls]
      /\ call[c].todo \in Seq(Changes) /\ call[c].todo # << >>
  BY DEF Inv, Types, FullError, Calls
<1>2. Tail(call[c].todo) \in Seq(Changes)
  BY <1>1, HeadTailProperties
<1>3. call' = [call EXCEPT ![c] = k] /\ UNCHANGED <<tables, history>>
  BY DEF FullError
<1>4. k \in Calls /\ k.pc = "change" /\ k.mine = call[c].mine
  BY <1>1, <1>2 DEF Calls
<1>5. CallOK(k)
  BY <1>4 DEF CallOK
<1> HIDE DEF k
<1>6. call'[c] = k  BY <1>1, <1>3
<1>7. Locks(c)' = Locks(c)
  BY <1>1, <1>4, <1>6 DEF Locks
<1> QED  BY <1>3, <1>4, <1>5, <1>7, CallMoves

\* COMMIT writes the orders whose locks it holds: those it removes lose their
\* rows, and of the others only the JSON changes.
LEMMA FullCommitKeeps ==
  ASSUME Inv, NEW c \in Clients, FullCommit(c)
  PROVE  Inv'
<1> DEFINE mine == call[c].mine
           W == IF call[c].aborted THEN {} ELSE DOMAIN mine
           D == {o \in W : mine[o] = NULL}
           k == [Idle EXCEPT !.pc = "read", !.held = 1, !.ok = call[c].ok]
<1>1. /\ call[c] \in Calls /\ call[c].pc = "change" /\ call[c].ok \in SUBSET Orders
      /\ call \in [Clients -> Calls] /\ order \in [Orders -> ItemLists]
      /\ rows \in [Orders -> SUBSET Rows]
  BY DEF Inv, Types, FullCommit, Calls
<1>2. PICK E \in SUBSET Orders : mine \in [E -> ItemLists]
  BY <1>1 DEF Calls
<1>3. W \in SUBSET Orders /\ W \subseteq E
  BY <1>2
<1>4. k \in Calls /\ k.pc = "read" /\ CallOK(k)
  BY <1>1, ReadCall
<1>5. /\ call' = [call EXCEPT ![c] = k]
      /\ order' = [o \in Orders |-> IF o \in W THEN mine[o] ELSE order[o]]
      /\ rows' = [o \in Orders |-> IF o \in D THEN {} ELSE rows[o]]
      /\ jsonOnly' = (jsonOnly \cup W) \ D
      /\ removed' = (removed \ W) \cup D
  BY DEF FullCommit
<1>6. \A o \in W : Unlocked(o, c)
  <2>1. W \subseteq Locks(c)  BY <1>1 DEF Locks
  <2> QED  BY <1>3, <2>1 DEF Inv, LocksExclude, Unlocked
<1> HIDE DEF k, W
<1>7. /\ \A o \in Orders \ W : order'[o] = order[o] /\ rows'[o] = rows[o]
      /\ \A o \in W : order'[o] = NULL => (rows'[o] = {} /\ o \in removed')
      /\ \A o \in W : order'[o] # NULL => o \in jsonOnly'
      /\ \A o \in Orders \ W : (o \in removed' <=> o \in removed)
                              /\ (o \in jsonOnly' <=> o \in jsonOnly)
  BY <1>3, <1>5
<1>8. /\ \A d \in Clients : CallOK(call[d])'
      /\ LocksExclude' /\ LockedStays' /\ PushedIsStored'
      /\ call' \in [Clients -> Calls]
  BY <1>3, <1>4, <1>5, <1>6, <1>7, CallWrites
<1>9. Types'
  BY <1>1, <1>2, <1>3, <1>5, <1>8 DEF Types
<1>10. NoStrayRows' /\ OneSetOfRows'
  BY <1>3, <1>7 DEF Inv, NoStrayRows, OneSetOfRows
<1> QED  BY <1>8, <1>9, <1>10 DEF Inv

-----------------------------------------------------------------------------
(* The theorems.                                                           *)

\* Orders that are there at the start have the rows of their lines.
LEMMA InitInv == Init => Inv
<1> SUFFICES ASSUME Init PROVE Inv
  OBVIOUS
<1>1. call = [c \in Clients |-> Idle] /\ order \in [Orders -> ItemLists]
  BY DEF Init, ItemLists
<1>2. Idle.pc = "idle"  BY DEF Idle
<1>3. \A o \in Orders : order[o] # NULL =>
        /\ rows[o] \in SUBSET Rows
        /\ {r[2] : r \in rows[o]} = {order[o]} \ {Empty}
        /\ \A r, s \in rows[o] : r = s
  <2> TAKE o \in Orders
  <2> HAVE order[o] # NULL
  <2>1. CASE order[o] = Empty
    <3>1. rows[o] = {}  BY <2>1, ContentAssumption DEF Init, RowsOf
    <3> QED  BY <2>1, <3>1
  <2>2. CASE order[o] # Empty
    <3>1. rows[o] = {<<NULL, order[o]>>}  BY <2>2 DEF Init, RowsOf
    <3>2. order[o] \in Lists  BY <1>1, <2>2 DEF ItemLists
    <3> QED  BY <2>2, <3>1, <3>2 DEF Rows
  <2> QED  BY <2>1, <2>2
<1>4. \A o \in Orders : order[o] = NULL => rows[o] = {}
  BY DEF Init
<1>5. Types
  <2>1. \A o \in Orders : rows[o] \in SUBSET Rows  BY <1>3, <1>4
  <2>2. rows \in [Orders -> SUBSET Rows]  BY <2>1 DEF Init
  <2> QED  BY <1>1, <2>2, IdleIsCall DEF Types
<1>6. \A c \in Clients : CallOK(call[c]) /\ call[c].pc = "idle"
  BY <1>1, <1>2, IdleIsCall
<1>7. \A c \in Clients : Locks(c) = {}
  BY <1>6 DEF Locks
<1> QED  BY <1>3, <1>4, <1>5, <1>6, <1>7
         DEF Inv, LocksExclude, LockedStays, NoStrayRows, OneSetOfRows, PushedIsStored

\* Every step keeps the invariant.
LEMMA NextInv == Inv /\ [Next]_vars => Inv'
<1> SUFFICES ASSUME Inv, [Next]_vars PROVE Inv'
  OBVIOUS
<1>1. ASSUME NEW c \in Clients, Step(c) PROVE Inv'
  <2>1. CASE Connect(c)  BY <2>1, ConnectKeeps
  <2>2. CASE FindOrder(c) \/ generateDocNumber(c) \/ WriteOrder(c)
    BY <2>2, ApproachKeeps
  <2>3. CASE NotFound(c) \/ MarkOrder(c) \/ Log(c) \/ FullRead(c)
    BY <2>3, ReturnKeeps DEF NotFound, MarkOrder, Log, FullRead
  <2>4. CASE ClearRows(c)  BY <2>4, ClearKeeps
  <2>5. CASE CommitOrder(c)  BY <2>5, CommitKeeps
  <2>6. CASE UpdateOrder(c)  BY <2>6, UpdateKeeps
  <2>7. CASE HardDelete(c)  BY <2>7, HardDeleteKeeps
  <2>8. CASE FullChange(c)  BY <2>8, FullChangeKeeps
  <2>9. CASE FullCommit(c)  BY <2>9, FullCommitKeeps
  <2>10. CASE FullError(c)  BY <2>10, FullErrorKeeps
  <2> QED  BY <1>1, <2>1, <2>2, <2>3, <2>4, <2>5, <2>6, <2>7, <2>8, <2>9, <2>10 DEF Step
<1>2. ASSUME NEW c \in Clients, Request(c) \/ Fail(c) \/ FullError(c) PROVE Inv'
  BY <1>2, RequestKeeps, ReturnKeeps, FullErrorKeeps DEF Fail
<1>3. CASE UNCHANGED vars
  <2>1. UNCHANGED <<order, rows, call, jsonOnly, removed>>
    BY <1>3 DEF vars, tables, history
  <2>2. \A c \in Clients : Locks(c)' = Locks(c)
    BY <2>1 DEF Locks
  <2>3. Types' /\ LocksExclude' /\ LockedStays'
    BY <2>1, <2>2 DEF Inv, Types, LocksExclude, LockedStays
  <2>4. NoStrayRows' /\ OneSetOfRows' /\ PushedIsStored'
    BY <2>1, <2>2 DEF Inv, NoStrayRows, OneSetOfRows, PushedIsStored
  <2>5. \A c \in Clients : CallOK(call[c])'
    BY <2>1 DEF Inv, CallOK
  <2> QED  BY <2>3, <2>4, <2>5 DEF Inv
<1> QED  BY <1>1, <1>2, <1>3 DEF Next

\* The inductive invariant holds.
LEMMA SpecInv == Spec => []Inv
BY InitInv, NextInv, PTL DEF Spec

\* The tables and the calls keep their types.
THEOREM TypeCorrect == Spec => []TypeOK
<1>1. Inv => TypeOK
  BY DEF Inv, Types, TypeOK, Calls, ItemLists, Rows
<1> QED  BY <1>1, SpecInv, PTL

\* The rows of OrderItem, which the picking list adds up, are the lines of the
\* order's JSON, once, however the calls of any number of clients interleave;
\* orders whose JSON alone was changed last are left out.
THEOREM RowsAreTheLines == Spec => []OneSetOfRows
<1>1. Inv => OneSetOfRows
  BY DEF Inv
<1> QED  BY <1>1, SpecInv, PTL

\* A push that is about to be answered with success is stored, unless another
\* call has hard deleted the order since.
THEOREM PushIsStored == Spec => []PushedIsStored
<1>1. Inv => PushedIsStored
  BY DEF Inv
<1> QED  BY <1>1, SpecInv, PTL

=============================================================================
