------------------------------- MODULE Repost -------------------------------
(***************************************************************************)
(* Bulk reposting (DocumentRepostingService.run) and the lock that is to   *)
(* keep other calls out while it works (table DocumentLock, lockMiddleware)*)
(*                                                                         *)
(* The lock is a row that is read and set in two autocommitted statements. *)
(* The documents are then unposted and posted again in one transaction,    *)
(* which nobody sees before COMMIT: run[p].mine and run[p].dropped are     *)
(* what it has written so far.  The lock is released in a finally block,   *)
(* whatever happened before, by an UPDATE that can fail itself.            *)
(*                                                                         *)
(* Other calls come in meanwhile: those on realizations pass lockMiddleware*)
(* first and do their work later, those on supplier returns are not asked. *)
(* Each locks its document's row before it looks at the status, so it is   *)
(* one action once it has the rows.  (The calls on receipts and buyer      *)
(* returns do not; module ConcurrentPosting has their races.)              *)
(*                                                                         *)
(* One product, one warehouse, and documents of one unit: an incoming      *)
(* document that is posted is a batch of one unit, and an outgoing one     *)
(* points at the batch it took.                                            *)
(***************************************************************************)
EXTENDS Integers

CONSTANTS
  Reposters, Clients,
  GoodsReceipts, BuyerReturns, PriceDocuments, Realizations, SupplierReturns,
  Dates,
  Options,      \* what a reposting may be asked for: action, types, from, to
  NULL

Inbound == GoodsReceipts \cup BuyerReturns
Outbound == Realizations \cup SupplierReturns
Reposted == Inbound \cup PriceDocuments \cup Realizations
Documents == Reposted \cup SupplierReturns

Types == {"REALIZATION", "BUYER_RETURN", "GOODS_RECEIPT", "PRICE_DOCUMENT"}

\* A document is of one kind, and NULL is none.
ASSUME DocumentsAssumption ==
  /\ NULL \notin Documents
  /\ GoodsReceipts \cap BuyerReturns = {} /\ Realizations \cap SupplierReturns = {}
  /\ Inbound \cap Outbound = {} /\ PriceDocuments \cap (Inbound \cup Outbound) = {}

ASSUME OptionsAssumption ==
  /\ Dates \subseteq Int
  /\ \A o \in Options : /\ o.action \in {"REPOST", "POST", "UNPOST"}
                        /\ o.types \subseteq Types
                        /\ {o.from, o.to} \subseteq Dates \cup {NULL}

VARIABLES
  date,       \* the dates of the documents that are reposted
  posted,     \* the documents that are POSTED (APPLIED for a price document)
  source,     \* source[d]: whose batch outgoing document d took its unit from
  isLocked,   \* the row of table DocumentLock
  run,        \* run[p]: the reposting p is in
  request,    \* request[c]: a call that has passed lockMiddleware
  stopped,    \* the server has been stopped and started again
  lockLeft    \* the run that has set the lock ended without opening it

tables == <<posted, source>>
vars == <<date, tables, isLocked, run, request, stopped, lockLeft>>

NoRun == [pc |-> "idle", options |-> NULL, undo |-> {}, redo |-> {}, doc |-> NULL,
          mine |-> << >>, dropped |-> {}]

\* Units in stock: batches of POSTED documents that nobody points at.
Init ==
  /\ date \in [Reposted -> Dates]
  /\ posted \in SUBSET Documents
  /\ source \in [Outbound -> Inbound \cup {NULL}]
  /\ \A d \in Outbound :
       IF d \in posted THEN source[d] \in posted \cap Inbound ELSE source[d] = NULL
  /\ \A d, e \in Outbound \cap posted : source[d] = source[e] => d = e
  /\ isLocked = FALSE
  /\ run = [p \in Reposters |-> NoRun]
  /\ request = [c \in Clients |-> NULL]
  /\ stopped = FALSE /\ lockLeft = FALSE

-----------------------------------------------------------------------------
(* What the transaction of p sees: the tables, and what it has written.    *)

Mine(p) == DOMAIN run[p].mine

IsPosted(p, d) == IF d \in Mine(p) THEN run[p].mine[d].posted ELSE d \in posted

\* ON DELETE CASCADE: a batch that goes takes the rows along that point at it.
SourceOf(p, d) ==
  IF d \in Mine(p) THEN run[p].mine[d].source
  ELSE IF source[d] \in run[p].dropped THEN NULL
  ELSE source[d]

InStock(p) ==
  {s \in Inbound : IsPosted(p, s) /\ \A d \in Outbound : SourceOf(p, d) # s}

\* The rows p has written are locked until it commits or rolls back: its
\* documents, the batches it removed and those it gave a unit back to.
Locked(p) ==
  Mine(p) \cup (Realizations \cap {run[p].doc}) \cup run[p].dropped
    \cup {source[d] : d \in Mine(p) \cap Outbound}
    \cup {run[p].mine[d].source : d \in Mine(p) \cap Outbound}

Unlocked(row) == \A p \in Reposters : row \notin Locked(p)

Write(p, d, row) ==
  [e \in Mine(p) \cup {d} |-> IF e = d THEN row ELSE run[p].mine[e]]

-----------------------------------------------------------------------------
(* DocumentRepostingService.run.                                           *)

Move(p, pc) == run' = [run EXCEPT ![p].pc = pc]

\* POST /service/repost-documents starts it in the background.
StartRepost(p, options) ==
  /\ run[p].pc = "idle"
  /\ run' = [run EXCEPT ![p] = [NoRun EXCEPT !.pc = "check", !.options = options]]
  /\ lockLeft' = FALSE
  /\ UNCHANGED <<date, tables, isLocked, request, stopped>>

\* SELECT "isLocked": a run that finds the lock set throws, into the finally.
CheckLock(p) ==
  /\ run[p].pc = "check"
  /\ Move(p, IF isLocked THEN "unlock" ELSE "lock")
  /\ UNCHANGED <<date, tables, isLocked, request, stopped, lockLeft>>

SetLock(p) ==
  /\ run[p].pc = "lock"
  /\ isLocked' = TRUE
  /\ Move(p, "select")
  /\ UNCHANGED <<date, tables, request, stopped, lockLeft>>

TypeOf(d) ==
  CASE d \in Realizations -> "REALIZATION"
    [] d \in BuyerReturns -> "BUYER_RETURN"
    [] d \in GoodsReceipts -> "GOODS_RECEIPT"
    [] d \in PriceDocuments -> "PRICE_DOCUMENT"

\* The documents the filters select; supplier returns are never among them.
Selected(options) ==
  {d \in Reposted :
     /\ (d \in posted) = (options.action # "POST")
     /\ options.types = {} \/ TypeOf(d) \in options.types
     /\ options.from = NULL \/ date[d] >= options.from
     /\ options.to = NULL \/ date[d] <= options.to}

\* Documents are unposted type by type, the youngest of a type first ...
UndoRank(d) ==
  CASE d \in Realizations -> 1 [] d \in BuyerReturns -> 2
    [] d \in GoodsReceipts -> 3 [] d \in PriceDocuments -> 4

UndoBefore(d, e) ==
  \/ UndoRank(d) < UndoRank(e)
  \/ UndoRank(d) = UndoRank(e) /\ date[d] > date[e]

\* ... and posted by date, receipts before prices, returns and realizations.
typeWeight(d) ==
  CASE d \in GoodsReceipts -> 1 [] d \in PriceDocuments -> 2
    [] d \in BuyerReturns -> 3 [] d \in Realizations -> 4

RedoBefore(d, e) ==
  \/ date[d] < date[e]
  \/ date[d] = date[e] /\ typeWeight(d) < typeWeight(e)

\* The documents that may come next; those the order does not tell apart are
\* ordered by createdAt, which may be any order.
NextUndone(p) == {d \in run[p].undo : \A e \in run[p].undo : ~UndoBefore(e, d)}
NextRedone(p) == {d \in run[p].redo : \A e \in run[p].redo : ~RedoBefore(e, d)}

\* BEGIN and the queries that fetch the documents.
SelectDocuments(p) ==
  LET options == run[p].options
      D == Selected(options)
  IN  /\ run[p].pc = "select"
      /\ run' = [run EXCEPT ![p].pc = "run",
           ![p].undo = IF options.action = "POST" THEN {} ELSE D,
           ![p].redo = IF options.action = "UNPOST" THEN {} ELSE D]
      /\ UNCHANGED <<date, tables, isLocked, request, stopped, lockLeft>>

\* unpost of a receipt checks that no unit of it is sold, in a statement of
\* its own; that of a buyer return does not.  unpost of a realization locks its
\* row first (SELECT ... FOR UPDATE).
MayUnpost(p, d) ==
  /\ d \in PriceDocuments \/ IsPosted(p, d)
  /\ d \in GoodsReceipts => \A e \in Outbound : SourceOf(p, e) # d

CheckUnpost(p) ==
  /\ run[p].pc = "run"
  /\ \E d \in NextUndone(p) :
       /\ MayUnpost(p, d)
       /\ run' = [run EXCEPT ![p].pc = "undo", ![p].doc = d]
  /\ UNCHANGED <<date, tables, isLocked, request, stopped, lockLeft>>

\* Faulty variant: every document is taken for one with a batch.
Unpost_DropsAny(p) ==
  LET d == run[p].doc
  IN  /\ run[p].pc = "undo"
      /\ run' = [run EXCEPT ![p].pc = "run", ![p].doc = NULL, ![p].undo = @ \ {d},
           ![p].mine = Write(p, d, [posted |-> FALSE, source |-> NULL]), ![p].dropped = @ \cup {d}]
      /\ UNCHANGED <<date, tables, isLocked, request, stopped, lockLeft>>

Unpost(p) ==
  LET d == run[p].doc
  IN  /\ run[p].pc = "undo"
      /\ run' = [run EXCEPT ![p].pc = "run", ![p].doc = NULL, ![p].undo = @ \ {d},
           ![p].mine = Write(p, d, [posted |-> FALSE, source |-> NULL]),
           ![p].dropped = IF d \in Inbound THEN @ \cup {d} ELSE @]
      /\ UNCHANGED <<date, tables, isLocked, request, stopped, lockLeft>>

\* post of a realization takes the oldest unit there is.
Taken(p, d) ==
  IF d \in Realizations
  THEN {s \in InStock(p) : \A t \in InStock(p) : date[s] <= date[t]}
  ELSE {NULL}

MayPost(p, d) ==
  /\ d \in PriceDocuments \/ ~IsPosted(p, d)
  /\ Taken(p, d) # {}

Post(p) ==
  /\ run[p].pc = "run"
  /\ run[p].undo = {}
  /\ \E d \in NextRedone(p) :
       /\ MayPost(p, d)
       /\ \E s \in Taken(p, d) :
            run' = [run EXCEPT ![p].redo = @ \ {d},
                 ![p].mine = Write(p, d, [posted |-> TRUE, source |-> s])]
  /\ UNCHANGED <<date, tables, isLocked, request, stopped, lockLeft>>

\* Document d is next, and it cannot be unposted or posted.
Stuck(p, d) ==
  IF run[p].undo # {}
  THEN d \in NextUndone(p) /\ ~MayUnpost(p, d)
  ELSE d \in NextRedone(p) /\ ~MayPost(p, d)

\* Faulty variant: a document that cannot be processed is skipped.
Throw_Skips(p) ==
  /\ run[p].pc = "run"
  /\ \E d \in Reposted :
       /\ Stuck(p, d)
       /\ run' = IF run[p].undo # {} THEN [run EXCEPT ![p].undo = @ \ {d}]
                 ELSE [run EXCEPT ![p].redo = @ \ {d}]
  /\ UNCHANGED <<date, tables, isLocked, request, stopped, lockLeft>>

\* The first document that cannot be processed ends the run: ROLLBACK.
Throw(p) ==
  /\ run[p].pc = "run"
  /\ \E d \in Reposted : Stuck(p, d)
  /\ run' = [run EXCEPT ![p] = [NoRun EXCEPT !.pc = "unlock"]]
  /\ UNCHANGED <<date, tables, isLocked, request, stopped, lockLeft>>

Commit(p) ==
  /\ run[p].pc = "run"
  /\ run[p].undo = {} /\ run[p].redo = {}
  /\ posted' = {d \in Documents : IsPosted(p, d)}
  /\ source' = [d \in Outbound |-> SourceOf(p, d)]
  /\ run' = [run EXCEPT ![p] = [NoRun EXCEPT !.pc = "unlock"]]
  /\ UNCHANGED <<date, isLocked, request, stopped, lockLeft>>

\* Faulty variant: the lock is released at the end of the try block.
Unlock_NotAfterError(p) ==
  /\ run[p].pc = "unlock"
  /\ isLocked' \in BOOLEAN
  /\ run' = [run EXCEPT ![p] = NoRun]
  /\ UNCHANGED <<date, tables, request, stopped, lockLeft>>

\* The finally block unlocks, also when the run was refused.
Unlock(p) ==
  /\ run[p].pc = "unlock"
  /\ isLocked' = FALSE
  /\ run' = [run EXCEPT ![p] = NoRun]
  /\ UNCHANGED <<date, tables, request, stopped, lockLeft>>

\* Its UPDATE can fail as well, on a connection that broke: the error is only
\* logged, and the lock stays set though the server runs on.
UnlockFails(p) ==
  /\ run[p].pc = "unlock"
  /\ run' = [run EXCEPT ![p] = NoRun]
  /\ lockLeft' = isLocked
  /\ UNCHANGED <<date, tables, isLocked, request, stopped>>

\* A query fails: ROLLBACK and the finally block.
Fail(p) ==
  /\ run[p].pc \in {"check", "lock", "select", "run", "undo"}
  /\ run' = [run EXCEPT ![p] = [NoRun EXCEPT !.pc = "unlock"]]
  /\ UNCHANGED <<date, tables, isLocked, request, stopped, lockLeft>>

\* The server stops (once): PostgreSQL rolls back, no finally block runs, and
\* nothing resets the lock when the server starts again.
Stop ==
  /\ ~stopped
  /\ stopped' = TRUE
  /\ lockLeft' = isLocked
  /\ run' = [p \in Reposters |-> NoRun]
  /\ request' = [c \in Clients |-> NULL]
  /\ UNCHANGED <<date, tables, isLocked>>

-----------------------------------------------------------------------------
(* Other calls.                                                            *)

\* lockMiddleware lets a call on a realization pass while nothing is locked.
\* (It also does when its query fails; then the call's own queries do, too.)
Admit(c, op, r) ==
  /\ request[c] = NULL
  /\ ~isLocked
  /\ request' = [request EXCEPT ![c] = [op |-> op, doc |-> r]]
  /\ UNCHANGED <<date, tables, isLocked, run, stopped, lockLeft>>

\* Faulty variant: the batch is not read again once its row is locked.
TakeUnit_Unchecked(d) ==
  /\ d \notin posted
  /\ Unlocked(d)
  /\ \E s \in Inbound \cap posted :
       Unlocked(s) /\ source' = [source EXCEPT ![d] = s]
  /\ posted' = posted \cup {d}

\* What post and unpost of an outgoing document do once they have the rows.
\* Which batch a call takes is left open: one that waited for a reposting has
\* selected its batches before.
TakeUnit(d) ==
  /\ d \notin posted
  /\ Unlocked(d)
  /\ \E s \in Inbound \cap posted :
       /\ Unlocked(s)
       /\ \A e \in Outbound : source[e] # s
       /\ source' = [source EXCEPT ![d] = s]
  /\ posted' = posted \cup {d}

GiveBack(d) ==
  /\ d \in posted
  /\ Unlocked(d)
  /\ source[d] # NULL => Unlocked(source[d])
  /\ source' = [source EXCEPT ![d] = NULL]
  /\ posted' = posted \ {d}

Serve(c) ==
  /\ request[c] # NULL
  /\ \/ request[c].op = "post" /\ TakeUnit(request[c].doc)
     \/ request[c].op = "unpost" /\ GiveBack(request[c].doc)
  /\ request' = [request EXCEPT ![c] = NULL]
  /\ UNCHANGED <<date, isLocked, run, stopped, lockLeft>>

\* The call throws.
Refuse(c) ==
  /\ request[c] # NULL
  /\ request' = [request EXCEPT ![c] = NULL]
  /\ UNCHANGED <<date, tables, isLocked, run, stopped, lockLeft>>

\* /api/supplier-returns is not among the protected paths.
ServeReturn(d) ==
  /\ TakeUnit(d) \/ GiveBack(d)
  /\ UNCHANGED <<date, isLocked, run, request, stopped, lockLeft>>

-----------------------------------------------------------------------------
Step(p) ==
  \/ CheckLock(p) \/ SetLock(p) \/ SelectDocuments(p) \/ CheckUnpost(p) \/ Unpost(p)
  \/ Post(p) \/ Throw(p) \/ Commit(p) \/ Unlock(p)

Next ==
  \/ \E p \in Reposters :
       Step(p) \/ Fail(p) \/ UnlockFails(p) \/ \E o \in Options : StartRepost(p, o)
  \/ \E c \in Clients :
       \/ \E r \in Realizations, op \in {"post", "unpost"} : Admit(c, op, r)
       \/ Serve(c)
       \/ Refuse(c)
  \/ \E d \in SupplierReturns : ServeReturn(d)
  \/ Stop

\* A reposting that was started goes on while the server runs.
Fairness == \A p \in Reposters : WF_vars(Step(p))

Spec == Init /\ [][Next]_vars /\ Fairness

-----------------------------------------------------------------------------
(* Properties.                                                             *)

TypeOK ==
  /\ posted \subseteq Documents
  /\ source \in [Outbound -> Inbound \cup {NULL}]
  /\ {isLocked, stopped, lockLeft} \subseteq BOOLEAN
  /\ \A p \in Reposters :
       /\ run[p].pc \in {"idle", "check", "lock", "select", "run", "undo", "unlock"}
       /\ Mine(p) \subseteq Reposted /\ run[p].dropped \subseteq Inbound

\* A unit is sold once: no two outgoing documents point at one batch, though
\* reposting, the calls it does not lock out and those that were admitted
\* before it all move units at once.
SoldOnce ==
  \A d, e \in Outbound : (source[d] # NULL /\ source[d] = source[e]) => d = e

\* While a reposting works on the documents, the system is locked.
LockCoversRun == \A p \in Reposters : run[p].pc \in {"select", "run", "undo"} => isLocked

\* Reposting everything: no filter is given.
Full(options) ==
  options.action = "REPOST" /\ options.types = {} /\ {options.from, options.to} = {NULL}

\* What a full reposting commits: the documents that were POSTED are, no others,
\* and every realization it has posted again has its unit.
Restores(p) ==
  (run[p].pc = "run" /\ run'[p].pc = "unlock" /\ tables' # tables
     /\ Full(run[p].options)) =>
    /\ posted' = posted
    /\ \A r \in Realizations \cap Mine(p) : source'[r] # NULL

\* A full reposting restores every document it unposted or changes nothing,
\* whatever the dates are and whoever sells or returns goods meanwhile.  (A
\* realization that is posted meanwhile may lose its unit: LateCallKeepsItsUnit.)
RepostRestores == [][\A p \in Reposters : Restores(p)]_vars

\* "System locked for maintenance": a realization that another call has posted,
\* and that the reposting has not touched, still has its unit afterwards.
LateCallKeepsItsUnit ==
  [][\A p \in Reposters, r \in Realizations :
       (run[p].pc = "run" /\ r \in posted \ Mine(p) /\ source[r] # NULL
          /\ tables' # tables /\ run'[p].pc = "unlock") => source'[r] # NULL]_vars

\* The lock is given back in the end, after success, error or refusal, unless the
\* server stops or the UPDATE that opens it fails: then nothing opens it before
\* the next reposting, which is refused and whose finally block does.
LockReleased == isLocked ~> (~isLocked \/ lockLeft)
=============================================================================
