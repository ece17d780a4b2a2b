---------------------------- MODULE RepostProofs ----------------------------
(***************************************************************************)
(* Proofs about bulk reposting, for any documents, dates, options and      *)
(* number of other calls: a unit is sold once, and a full reposting        *)
(* restores every document it unposts.                                     *)
(*                                                                         *)
(* All but the types are about one reposting at a time.  RepostTwice.cfg   *)
(* shows that the lock does not ensure that.                               *)
(***************************************************************************)
EXTENDS Repost, TLAPS

OneReposting == \A p, q \in Reposters : p = q

Writes == [posted : BOOLEAN, source : Inbound \cup {NULL}]

Runs ==
  [pc : {"idle", "check", "lock", "select", "run", "undo", "unlock"},
   options : Options \cup {NULL},
   undo : SUBSET Reposted, redo : SUBSET Reposted, doc : Reposted \cup {NULL},
   mine : UNION {[D -> Writes] : D \in SUBSET Reposted}, dropped : SUBSET Inbound]

Requests == [op : {"post", "unpost"}, doc : Realizations]

TypesOK ==
  /\ posted \in SUBSET Documents
  /\ source \in [Outbound -> Inbound \cup {NULL}]
  /\ isLocked \in BOOLEAN /\ stopped \in BOOLEAN /\ lockLeft \in BOOLEAN
  /\ run \in [Reposters -> Runs]
  /\ request \in [Clients -> Requests \cup {NULL}]

\* What p would commit now sells no unit twice.
ViewSoldOnce(p) ==
  \A d, e \in Outbound :
    (SourceOf(p, d) # NULL /\ SourceOf(p, d) = SourceOf(p, e)) => d = e

\* A run that has not begun, or has ended, has written nothing.
Untouched(p) ==
  run[p].pc \notin {"run", "undo"} =>
    Mine(p) = {} /\ run[p].dropped = {} /\ run[p].undo = {}

\* A document is unposted once, if it is POSTED.
Undoing(p) ==
  /\ run[p].undo \cap Mine(p) = {}
  /\ run[p].undo \cap PriceDocuments \subseteq posted
  /\ run[p].pc = "undo" => run[p].doc \in run[p].undo \cap posted

\* A realization that was posted again has its unit.
Redone(p) ==
  \A r \in Realizations \cap Mine(p) : run[p].mine[r].posted => run[p].mine[r].source # NULL

\* A full reposting owes the documents it has unposted, which are POSTED for
\* everyone else, and no others.
Owes(p) ==
  (run[p].pc \in {"run", "undo"} /\ Full(run[p].options)) =>
    /\ Mine(p) \subseteq posted
    /\ run[p].undo \subseteq run[p].redo /\ run[p].redo \subseteq run[p].undo \cup Mine(p)
    /\ \A d \in Mine(p) : run[p].mine[d].posted <=> d \notin run[p].redo

RunOK(p) ==
  /\ ViewSoldOnce(p)
  /\ Untouched(p)
  /\ Undoing(p)
  /\ Redone(p)
  /\ Owes(p)

\* The inductive invariant.
Inv ==
  /\ TypesOK
  /\ SoldOnce
  /\ \A p \in Reposters : RunOK(p)

-----------------------------------------------------------------------------
(* Steps of one run.                                                       *)

\* A step of one run that writes no table leaves the other runs what they have.
LEMMA RunSteps ==
  ASSUME Inv, NEW p \in Reposters, NEW k \in Runs, run' = [run EXCEPT ![p] = k],
         UNCHANGED <<tables, request, stopped>>, isLocked' \in BOOLEAN, lockLeft' \in BOOLEAN,
         RunOK(p)'
  PROVE  Inv'
<1>1. run \in [Reposters -> Runs] /\ UNCHANGED <<posted, source, request, stopped>>
  BY DEF Inv, TypesOK, tables
<1>2. \A q \in Reposters \ {p} : run'[q] = run[q]
  BY <1>1
<1>3. \A q \in Reposters \ {p} : RunOK(q)'
  <2> TAKE q \in Reposters \ {p}
  <2>1. /\ Mine(q)' = Mine(q) /\ run'[q] = run[q]
        /\ \A d : SourceOf(q, d)' = SourceOf(q, d)
    BY <1>1, <1>2 DEF Mine, SourceOf
  <2>2. RunOK(q)  BY DEF Inv
  <2> QED  BY <1>1, <2>1, <2>2 DEF RunOK, ViewSoldOnce, Untouched, Undoing, Redone, Owes
<1>4. TypesOK'
  BY <1>1 DEF Inv, TypesOK
<1>5. SoldOnce'
  BY <1>1 DEF Inv, SoldOnce
<1> QED  BY <1>3, <1>4, <1>5 DEF Inv

\* The records of a run that has written nothing.
LEMMA NoRunIsRun ==
  /\ NoRun \in Runs /\ NoRun.pc = "idle" /\ DOMAIN NoRun.mine = {} /\ NoRun.undo = {}
  /\ NoRun.dropped = {}
<1>1. << >> \in [{} -> Writes] /\ {} \in SUBSET Reposted
  OBVIOUS
<1>2. << >> \in UNION {[D -> Writes] : D \in SUBSET Reposted}
  BY <1>1, Zenon
<1>3. NoRun \in Runs
  BY <1>2 DEF NoRun, Runs
<1> QED  BY <1>3 DEF NoRun

\* A run that starts, throws or ends has written nothing.
LEMMA RunResets ==
  ASSUME Inv, NEW p \in Reposters, NEW k \in Runs, run' = [run EXCEPT ![p] = k],
         DOMAIN k.mine = {}, k.dropped = {}, k.undo = {},
         k.pc \in {"idle", "check", "lock", "select", "unlock"},
         UNCHANGED <<tables, request, stopped>>, isLocked' \in BOOLEAN, lockLeft' \in BOOLEAN
  PROVE  Inv'
<1>1. run'[p] = k
  BY DEF Inv, TypesOK
<1>2. Mine(p)' = {} /\ \A d \in Outbound : SourceOf(p, d)' = source'[d]
  BY <1>1 DEF Mine, SourceOf
<1>3. ViewSoldOnce(p)'
  BY <1>2 DEF Inv, SoldOnce, ViewSoldOnce, tables
<1>4. Untouched(p)' /\ Undoing(p)' /\ Redone(p)' /\ Owes(p)'
  BY <1>1, <1>2 DEF Untouched, Undoing, Redone, Owes
<1> QED  BY <1>3, <1>4, RunSteps DEF RunOK

\* A new run, and one that has thrown, has only its pc and what it was asked for.
LEMMA FreshRun ==
  ASSUME NEW pc \in {"check", "unlock"}, NEW options \in Options \cup {NULL}
  PROVE  LET k == [NoRun EXCEPT !.pc = pc, !.options = options]
         IN  /\ k \in Runs /\ k.pc = pc /\ DOMAIN k.mine = {} /\ k.undo = {}
             /\ k.dropped = {}
BY NoRunIsRun DEF Runs

\* A reposting that is asked for has read and written nothing.
LEMMA StartKeeps ==
  ASSUME Inv, NEW p \in Reposters, NEW options \in Options, StartRepost(p, options)
  PROVE  Inv'
<1> DEFINE k == [NoRun EXCEPT !.pc = "check", !.options = options]
<1>1. k \in Runs /\ k.pc = "check" /\ DOMAIN k.mine = {} /\ k.undo = {} /\ k.dropped = {}
  BY FreshRun
<1>2. run' = [run EXCEPT ![p] = k] /\ UNCHANGED <<tables, isLocked, request, stopped>> /\ lockLeft' = FALSE
  BY DEF StartRepost
<1> HIDE DEF k
<1> QED  BY <1>1, <1>2, RunResets DEF Inv, TypesOK

\* Throw and Fail end in the finally block.
LEMMA ErrorKeeps ==
  ASSUME Inv, NEW p \in Reposters, Throw(p) \/ Fail(p)
  PROVE  Inv'
<1> DEFINE k == [NoRun EXCEPT !.pc = "unlock"]
<1>1. k \in Runs /\ k.pc = "unlock" /\ DOMAIN k.mine = {} /\ k.undo = {} /\ k.dropped = {}
  BY NoRunIsRun DEF Runs
<1>2. run' = [run EXCEPT ![p] = k] /\ UNCHANGED <<tables, isLocked, request, stopped, lockLeft>>
  BY DEF Throw, Fail
<1> HIDE DEF k
<1> QED  BY <1>1, <1>2, RunResets DEF Inv, TypesOK

\* The two statements on DocumentLock.
LEMMA LockKeeps ==
  ASSUME Inv, NEW p \in Reposters, CheckLock(p) \/ SetLock(p)
  PROVE  Inv'
<1> DEFINE pc == run'[p].pc
           k == [run[p] EXCEPT !.pc = pc]
<1>1. /\ run \in [Reposters -> Runs] /\ run[p] \in Runs /\ run[p].pc \in {"check", "lock"}
      /\ UNCHANGED <<tables, request, stopped, lockLeft>>
  BY DEF Inv, TypesOK, CheckLock, SetLock
<1>2. /\ pc \in {"lock", "select", "unlock"} /\ run' = [run EXCEPT ![p] = k]
      /\ pc = "select" => isLocked'
      /\ isLocked => isLocked'
      /\ isLocked' \in BOOLEAN
  <2>1. CASE CheckLock(p)  BY <1>1, <2>1 DEF CheckLock, Move, Runs, Inv, TypesOK
  <2>2. CASE SetLock(p)  BY <1>1, <2>2 DEF SetLock, Move, Runs
  <2> QED  BY <2>1, <2>2
<1> HIDE DEF pc
<1>3. /\ k \in Runs /\ k.pc = pc /\ k.mine = run[p].mine /\ k.undo = run[p].undo
      /\ k.dropped = run[p].dropped
  BY <1>1, <1>2 DEF Runs
<1>4. DOMAIN k.mine = {} /\ k.undo = {} /\ k.dropped = {}
  BY <1>1, <1>3 DEF Inv, RunOK, Untouched, Mine
<1> HIDE DEF k
<1> QED  BY <1>1, <1>2, <1>3, <1>4, RunResets DEF Inv, TypesOK

\* The finally block, whether its UPDATE fails or not.
LEMMA UnlockKeeps ==
  ASSUME Inv, NEW p \in Reposters, Unlock(p) \/ UnlockFails(p)
  PROVE  Inv'
<1>1. /\ run' = [run EXCEPT ![p] = NoRun] /\ UNCHANGED <<tables, request, stopped>>
      /\ isLocked' \in BOOLEAN /\ lockLeft' \in BOOLEAN
  BY DEF Unlock, UnlockFails, Inv, TypesOK
<1> QED  BY <1>1, NoRunIsRun, RunResets

\* The server stops.
LEMMA StopKeeps ==
  ASSUME Inv, Stop
  PROVE  Inv'
<1>1. run' = [p \in Reposters |-> NoRun] /\ UNCHANGED <<posted, source, isLocked>>
  BY DEF Stop, tables
<1>2. \A p \in Reposters :
        /\ run'[p] = NoRun
        /\ Mine(p)' = {} /\ \A d \in Outbound : SourceOf(p, d)' = source'[d]
  BY <1>1, NoRunIsRun DEF Mine, SourceOf
<1>3. \A p \in Reposters : RunOK(p)'
  BY <1>1, <1>2, NoRunIsRun
     DEF Inv, SoldOnce, RunOK, ViewSoldOnce, Untouched, Undoing, Redone, Owes
<1>4. TypesOK'
  BY <1>1, NoRunIsRun DEF Inv, TypesOK, Stop
<1>5. SoldOnce'
  BY <1>1, <1>2, NoRunIsRun DEF Inv, SoldOnce
<1> QED  BY <1>3, <1>4, <1>5 DEF Inv

\* BEGIN: price documents are unposted only when they are POSTED, and a full
\* reposting owes what it is going to unpost.
LEMMA SelectKeeps ==
  ASSUME Inv, NEW p \in Reposters, SelectDocuments(p)
  PROVE  Inv'
<1> DEFINE options == run[p].options
           undo == IF options.action = "POST" THEN {} ELSE Selected(options)
           redo == IF options.action = "UNPOST" THEN {} ELSE Selected(options)
           k == [run[p] EXCEPT !.pc = "run", !.undo = undo, !.redo = redo]
<1>1. /\ run[p] \in Runs /\ run[p].pc = "select" /\ run \in [Reposters -> Runs]
      /\ RunOK(p) /\ UNCHANGED <<tables, isLocked, request, stopped, lockLeft>>
  BY DEF SelectDocuments, Inv, TypesOK
<1>2. run' = [run EXCEPT ![p] = k]
  BY DEF SelectDocuments
<1>3. /\ undo \in SUBSET Reposted /\ redo \in SUBSET Reposted
      /\ undo \cap PriceDocuments \subseteq posted
      /\ Full(options) => undo = redo
  BY DEF Selected, Full, Reposted
<1> HIDE DEF undo, redo
<1>4. /\ k \in Runs /\ k.pc = "run" /\ k.undo = undo /\ k.redo = redo
      /\ k.mine = run[p].mine /\ k.dropped = run[p].dropped /\ k.options = options
  BY <1>1, <1>3 DEF Runs
<1> HIDE DEF k
<1>5. run'[p] = k /\ UNCHANGED <<posted, source>>
  BY <1>1, <1>2 DEF tables
<1>6. Mine(p)' = {} /\ \A d \in Outbound : SourceOf(p, d)' = SourceOf(p, d)
  BY <1>1, <1>4, <1>5 DEF RunOK, Untouched, Mine, SourceOf
<1>7. RunOK(p)'
  <2>1. ViewSoldOnce(p)' /\ Untouched(p)' /\ Redone(p)'
    BY <1>1, <1>4, <1>5, <1>6 DEF RunOK, ViewSoldOnce, Untouched, Redone
  <2>2. Undoing(p)'
    BY <1>3, <1>4, <1>5, <1>6 DEF Undoing
  <2>3. Owes(p)'
    BY <1>3, <1>4, <1>5, <1>6 DEF Owes
  <2> QED  BY <2>1, <2>2, <2>3 DEF RunOK
<1> QED  BY <1>1, <1>2, <1>4, <1>7, RunSteps DEF Inv, TypesOK

\* A document that will be unposted is POSTED; a realization stays so, since its
\* row is locked from here on.
LEMMA CheckUnpostKeeps ==
  ASSUME Inv, NEW p \in Reposters, CheckUnpost(p)
  PROVE  Inv'
<1>1. /\ run[p] \in Runs /\ run[p].pc = "run" /\ run \in [Reposters -> Runs]
      /\ RunOK(p) /\ UNCHANGED <<tables, isLocked, request, stopped, lockLeft>>
  BY DEF CheckUnpost, Inv, TypesOK
<1>2. PICK d \in NextUndone(p) :
        MayUnpost(p, d) /\ run' = [run EXCEPT ![p].pc = "undo", ![p].doc = d]
  BY DEF CheckUnpost
<1> DEFINE k == [run[p] EXCEPT !.pc = "undo", !.doc = d]
<1>3. d \in run[p].undo /\ d \in Reposted
  BY <1>1, <1>2 DEF NextUndone, Runs
<1>4. d \in posted
  <2>1. d \notin Mine(p) /\ (d \in PriceDocuments => d \in posted)
    BY <1>1, <1>3 DEF RunOK, Undoing
  <2> QED  BY <1>2, <2>1 DEF MayUnpost, IsPosted
<1>5. run' = [run EXCEPT ![p] = k]
  BY <1>2
<1>6. /\ k \in Runs /\ k.pc = "undo" /\ k.doc = d /\ k.undo = run[p].undo /\ k.redo = run[p].redo
      /\ k.mine = run[p].mine /\ k.dropped = run[p].dropped /\ k.options = run[p].options
  BY <1>1, <1>3 DEF Runs
<1> HIDE DEF k
<1>7. run'[p] = k /\ UNCHANGED <<posted, source>>
  BY <1>1, <1>5 DEF tables
<1>8. Mine(p)' = Mine(p) /\ \A e \in Outbound : SourceOf(p, e)' = SourceOf(p, e)
  BY <1>6, <1>7 DEF Mine, SourceOf
<1>9. RunOK(p)'
  BY <1>1, <1>3, <1>4, <1>6, <1>7, <1>8
     DEF RunOK, ViewSoldOnce, Untouched, Redone, Undoing, Owes
<1> QED  BY <1>1, <1>5, <1>6, <1>9, RunSteps DEF Inv, TypesOK

\* What a run has written of a document.
LEMMA WriteIsWritten ==
  ASSUME NEW p \in Reposters, run[p] \in Runs, NEW d \in Reposted, NEW row \in Writes
  PROVE  Write(p, d, row) \in UNION {[D -> Writes] : D \in SUBSET Reposted}
<1>1. PICK D \in SUBSET Reposted : run[p].mine \in [D -> Writes]
  BY DEF Runs
<1>2. Mine(p) = D
  BY <1>1 DEF Mine
<1>3. Write(p, d, row) \in [D \cup {d} -> Writes]
  BY <1>1, <1>2 DEF Write
<1>4. D \cup {d} \in SUBSET Reposted
  OBVIOUS
<1> QED  BY <1>3, <1>4

\* What a step that writes document d leaves of the view of p: the sources of the
\* others do not change, or are gone.
LEMMA WriteView ==
  ASSUME NEW p \in Reposters, NEW d, Mine(p)' = Mine(p) \cup {d},
         \A e \in Mine(p) \ {d} : run'[p].mine[e] = run[p].mine[e],
         run[p].dropped \subseteq run'[p].dropped, UNCHANGED source
  PROVE  /\ SourceOf(p, d)' = run'[p].mine[d].source
         /\ \A e \in Outbound \ {d} :
              /\ SourceOf(p, e)' \in {SourceOf(p, e), NULL}
              /\ run'[p].dropped = run[p].dropped => SourceOf(p, e)' = SourceOf(p, e)
BY DEF SourceOf

\* Unposting d gives its unit back, and sells none.
LEMMA UnpostKeeps ==
  ASSUME Inv, NEW p \in Reposters, Unpost(p)
  PROVE  Inv'
<1>0. PICK d : d = run[p].doc
  OBVIOUS
<1> DEFINE row == [posted |-> FALSE, source |-> NULL]
           w == Write(p, d, row)
           dropped == IF d \in Inbound THEN run[p].dropped \cup {d} ELSE run[p].dropped
           k == [run[p] EXCEPT !.pc = "run", !.doc = NULL, !.undo = run[p].undo \ {d},
                               !.mine = w, !.dropped = dropped]
<1>1. /\ run[p] \in Runs /\ run[p].pc = "undo" /\ run \in [Reposters -> Runs]
      /\ RunOK(p) /\ UNCHANGED <<tables, isLocked, request, stopped, lockLeft>>
  BY DEF Unpost, Inv, TypesOK
<1>2. d \in run[p].undo /\ d \in posted /\ d \in Reposted /\ d \notin Mine(p)
  BY <1>0, <1>1 DEF RunOK, Undoing, Runs
<1>3. /\ w \in UNION {[D -> Writes] : D \in SUBSET Reposted}
      /\ DOMAIN w = Mine(p) \cup {d}
      /\ ~w[d].posted /\ w[d].source = NULL
      /\ \A e \in Mine(p) \ {d} : w[e] = run[p].mine[e]
  <2>1. row \in Writes /\ d \in Reposted /\ run[p] \in Runs
    BY <1>1, <1>2 DEF Writes
  <2>2. ~row.posted /\ row.source = NULL
    OBVIOUS
  <2> HIDE DEF row
  <2>3. w \in UNION {[D -> Writes] : D \in SUBSET Reposted}
    BY <2>1, WriteIsWritten
  <2>4. /\ DOMAIN w = Mine(p) \cup {d} /\ w[d] = row
        /\ \A e \in Mine(p) \ {d} : w[e] = run[p].mine[e]
    BY DEF Write
  <2> QED  BY <2>2, <2>3, <2>4
<1>4. run' = [run EXCEPT ![p] = k]
  BY <1>0 DEF Unpost
<1>5. dropped \in SUBSET Inbound /\ run[p].dropped \subseteq dropped
  BY <1>1 DEF Runs
<1> HIDE DEF w, dropped
<1>6. /\ k \in Runs /\ k.pc = "run" /\ k.undo = run[p].undo \ {d} /\ k.redo = run[p].redo
      /\ k.mine = w /\ k.dropped = dropped /\ k.options = run[p].options
  BY <1>1, <1>3, <1>5 DEF Runs
<1> HIDE DEF k
<1>7. run'[p] = k /\ UNCHANGED <<posted, source>>
  BY <1>1, <1>4 DEF tables
<1>8. Mine(p)' = Mine(p) \cup {d}
  BY <1>3, <1>6, <1>7 DEF Mine
<1>9. /\ SourceOf(p, d)' = NULL
      /\ \A e \in Outbound \ {d} : SourceOf(p, e)' \in {SourceOf(p, e), NULL}
  BY <1>3, <1>5, <1>6, <1>7, <1>8, WriteView
<1>10. ViewSoldOnce(p)'
  BY <1>1, <1>9 DEF RunOK, ViewSoldOnce
<1>11. Untouched(p)' /\ Undoing(p)'
  BY <1>1, <1>6, <1>7, <1>8 DEF RunOK, Untouched, Undoing
<1>12. Redone(p)'
  BY <1>1, <1>3, <1>6, <1>7, <1>8 DEF RunOK, Redone
<1>13. Owes(p)'
  BY <1>1, <1>2, <1>3, <1>6, <1>7, <1>8 DEF RunOK, Owes
<1> QED  BY <1>1, <1>4, <1>6, <1>10, <1>11, <1>12, <1>13, RunSteps
         DEF Inv, TypesOK, RunOK

\* Posting d takes a unit that no other document has in the view of p.
LEMMA PostKeeps ==
  ASSUME Inv, NEW p \in Reposters, Post(p)
  PROVE  Inv'
<1>1. /\ run[p] \in Runs /\ run[p].pc = "run" /\ run \in [Reposters -> Runs]
      /\ run[p].undo = {}
      /\ RunOK(p) /\ UNCHANGED <<tables, isLocked, request, stopped, lockLeft>>
  BY DEF Post, Inv, TypesOK
<1>0. PICK d \in NextRedone(p) : \E s \in Taken(p, d) :
        run' = [run EXCEPT ![p].redo = @ \ {d}, ![p].mine = Write(p, d, [posted |-> TRUE, source |-> s])]
  BY DEF Post
<1>2. PICK s \in Taken(p, d) :
        run' = [run EXCEPT ![p].redo = @ \ {d}, ![p].mine = Write(p, d, [posted |-> TRUE, source |-> s])]
  BY <1>0
<1> DEFINE row == [posted |-> TRUE, source |-> s]
           w == Write(p, d, row)
           k == [run[p] EXCEPT !.redo = run[p].redo \ {d}, !.mine = w]
<1>3. d \in run[p].redo /\ d \in Reposted
  BY <1>1 DEF NextRedone, Runs
<1>4. /\ s \in Inbound \cup {NULL}
      /\ s # NULL => s \in InStock(p)
      /\ d \in Realizations => s # NULL
  BY <1>2, DocumentsAssumption DEF Taken, InStock, Documents, Reposted
<1>5. /\ w \in UNION {[D -> Writes] : D \in SUBSET Reposted}
      /\ DOMAIN w = Mine(p) \cup {d}
      /\ w[d].posted /\ w[d].source = s
      /\ \A e \in Mine(p) \ {d} : w[e] = run[p].mine[e]
  <2>1. row \in Writes
    BY <1>1, <1>3, <1>4 DEF Writes
  <2>2. row.posted /\ row.source = s
    OBVIOUS
  <2> HIDE DEF row
  <2>3. w \in UNION {[D -> Writes] : D \in SUBSET Reposted}
    BY <1>1, <1>3, <2>1, WriteIsWritten
  <2>4. /\ DOMAIN w = Mine(p) \cup {d} /\ w[d] = row
        /\ \A e \in Mine(p) \ {d} : w[e] = run[p].mine[e]
    BY DEF Write
  <2> QED  BY <2>2, <2>3, <2>4
<1>6. run' = [run EXCEPT ![p] = k]
  BY <1>2
<1> HIDE DEF w
<1>7. /\ k \in Runs /\ k.pc = "run" /\ k.undo = {} /\ k.redo = run[p].redo \ {d}
      /\ k.mine = w /\ k.dropped = run[p].dropped /\ k.options = run[p].options
  BY <1>1, <1>5 DEF Runs
<1> HIDE DEF k
<1>8. run'[p] = k /\ UNCHANGED <<posted, source>>
  BY <1>1, <1>6 DEF tables
<1>9. Mine(p)' = Mine(p) \cup {d}
  BY <1>5, <1>7, <1>8 DEF Mine
<1>10. /\ SourceOf(p, d)' = s
       /\ \A e \in Outbound \ {d} : SourceOf(p, e)' = SourceOf(p, e)
  BY <1>5, <1>7, <1>8, <1>9, WriteView
<1>11. ViewSoldOnce(p)'
  BY <1>1, <1>4, <1>10 DEF RunOK, ViewSoldOnce, InStock
<1>12. Untouched(p)' /\ Undoing(p)'
  BY <1>1, <1>7, <1>8, <1>9 DEF RunOK, Untouched, Undoing
<1>13. Redone(p)'
  BY <1>1, <1>4, <1>5, <1>7, <1>8, <1>9 DEF RunOK, Redone
<1>14. Owes(p)'
  BY <1>1, <1>3, <1>5, <1>7, <1>8, <1>9 DEF RunOK, Owes
<1> QED  BY <1>1, <1>6, <1>7, <1>11, <1>12, <1>13, <1>14, RunSteps
         DEF Inv, TypesOK, RunOK

\* COMMIT makes the view of the run the tables.
LEMMA CommitKeeps ==
  ASSUME OneReposting, Inv, NEW p \in Reposters, Commit(p)
  PROVE  Inv'
<1> DEFINE k == [NoRun EXCEPT !.pc = "unlock"]
<1>1. k \in Runs /\ k.pc = "unlock" /\ DOMAIN k.mine = {} /\ k.undo = {} /\ k.dropped = {}
  BY NoRunIsRun DEF Runs
<1>2. /\ run' = [run EXCEPT ![p] = k] /\ UNCHANGED <<isLocked, request, stopped, lockLeft>>
      /\ source' = [d \in Outbound |-> SourceOf(p, d)]
      /\ posted' \in SUBSET Documents
  BY DEF Commit
<1> HIDE DEF k
<1>3. \A q \in Reposters : run'[q] = k
  BY <1>2 DEF OneReposting, Inv, TypesOK
<1>4. \A d \in Outbound : SourceOf(p, d) \in Inbound \cup {NULL}
  <2>1. run[p] \in Runs /\ source \in [Outbound -> Inbound \cup {NULL}]
    BY DEF Inv, TypesOK
  <2>2. PICK D \in SUBSET Reposted : run[p].mine \in [D -> Writes]
    BY <2>1 DEF Runs
  <2> QED  BY <2>1, <2>2 DEF SourceOf, Mine, Writes
<1>5. TypesOK'
  BY <1>1, <1>2, <1>4 DEF Inv, TypesOK
<1>6. SoldOnce'
  BY <1>2 DEF Inv, RunOK, ViewSoldOnce, SoldOnce
<1>8. \A q \in Reposters :
        Mine(q)' = {} /\ \A d \in Outbound : SourceOf(q, d)' = source'[d]
  BY <1>1, <1>3 DEF Mine, SourceOf
<1>9. \A q \in Reposters : RunOK(q)'
  BY <1>1, <1>3, <1>6, <1>8
     DEF SoldOnce, RunOK, ViewSoldOnce, Untouched, Undoing, Redone, Owes
<1> QED  BY <1>5, <1>6, <1>9 DEF Inv

-----------------------------------------------------------------------------
(* Steps of the others.                                                    *)

\* What another call may do to the tables: it moves a document whose row no run
\* has, and takes a unit that no run has and no document points at.
Moves(d, s) ==
  /\ Unlocked(d) /\ source' = [source EXCEPT ![d] = s]
  /\ s = NULL \/ (s \in Inbound /\ Unlocked(s) /\ \A e \in Outbound : source[e] # s)
  /\ posted' \in {posted \cup {d}, posted \ {d}}

\* Such a call takes no unit from the view of a run, and changes no document it
\* has written or is about to unpost.
LEMMA MovesKeep ==
  ASSUME Inv, NEW d \in Outbound, NEW s, Moves(d, s),
         UNCHANGED <<isLocked, run, stopped, lockLeft>>, request' \in [Clients -> Requests \cup {NULL}]
  PROVE  Inv'
<1>1. /\ source \in [Outbound -> Inbound \cup {NULL}] /\ posted \in SUBSET Documents
      /\ source' = [source EXCEPT ![d] = s] /\ s \in Inbound \cup {NULL}
      /\ d \in Documents
  BY DEF Moves, Inv, TypesOK, Documents, Reposted, Outbound
<1>2. posted' \subseteq posted \cup {d} /\ posted \subseteq posted' \cup {d}
  BY DEF Moves
<1>3. TypesOK'
  BY <1>1, <1>2 DEF Inv, TypesOK
<1>4. SoldOnce'
  BY <1>1 DEF Moves, Inv, SoldOnce
<1>6. ASSUME NEW p \in Reposters PROVE RunOK(p)'
  <2>1. /\ RunOK(p) /\ run'[p] = run[p] /\ Mine(p)' = Mine(p)
        /\ run[p] \in Runs
    BY DEF Inv, TypesOK, Mine
  <2>2. d \notin Locked(p) /\ (s # NULL => s \notin Locked(p))
    BY DEF Moves, Unlocked
  <2>3. d \notin Mine(p) /\ (s # NULL => s \notin run[p].dropped)
    BY <2>2 DEF Locked
  <2>4. \A e \in Outbound \ {d} : SourceOf(p, e)' = SourceOf(p, e)
    BY <1>1, <2>1 DEF SourceOf, Mine
  <2>5. SourceOf(p, d)' = s
    BY <1>1, <2>1, <2>3 DEF SourceOf
  <2>6. ASSUME s # NULL, NEW e \in Outbound \ {d} PROVE SourceOf(p, e) # s
    <3>1. CASE e \in Mine(p)
      <4>1. run[p].mine[e].source \in Locked(p)
        BY <3>1 DEF Locked
      <4> QED  BY <2>2, <2>6, <3>1, <4>1 DEF SourceOf
    <3>2. CASE e \notin Mine(p)
      BY <2>6, <3>2 DEF SourceOf, Moves
    <3> QED  BY <3>1, <3>2
  <2>7. ViewSoldOnce(p)'
    BY <2>1, <2>4, <2>5, <2>6 DEF RunOK, ViewSoldOnce
  <2>8. Untouched(p)' /\ Redone(p)'
    BY <2>1 DEF RunOK, Untouched, Redone
  <2>9. d \notin PriceDocuments /\ d \notin Inbound
    BY DocumentsAssumption
  <2>10. run[p].pc = "undo" => run[p].doc # d
    <3> SUFFICES ASSUME run[p].pc = "undo", run[p].doc = d PROVE FALSE
      OBVIOUS
    <3>1. d \in Reposted
      BY <2>1 DEF RunOK, Undoing, Runs
    <3>2. d \in Realizations
      BY <2>9, <3>1 DEF Reposted
    <3> QED  BY <2>2, <3>2 DEF Locked
  <2>11. Undoing(p)'
    BY <1>2, <2>1, <2>9, <2>10 DEF RunOK, Undoing
  <2>12. Owes(p)'
    BY <1>2, <2>1, <2>3 DEF RunOK, Owes
  <2> QED  BY <2>7, <2>8, <2>11, <2>12 DEF RunOK
<1> QED  BY <1>3, <1>4, <1>6 DEF Inv

\* Posting and unposting an outgoing document point it at another unit, or at none.
LEMMA TakeOrGiveBack ==
  ASSUME NEW d \in Outbound, TakeUnit(d) \/ GiveBack(d)
  PROVE  \E s \in Inbound \cup {NULL} : Moves(d, s)
<1>1. CASE TakeUnit(d)
  <2>1. PICK s \in Inbound \cap posted :
          Unlocked(s) /\ (\A e \in Outbound : source[e] # s) /\ source' = [source EXCEPT ![d] = s]
    BY <1>1 DEF TakeUnit
  <2>2. Moves(d, s)
    BY <1>1, <2>1 DEF TakeUnit, Moves
  <2> QED  BY <2>2
<1>2. CASE GiveBack(d)
  BY <1>2 DEF GiveBack, Moves
<1> QED  BY <1>1, <1>2

\* A call on an outgoing document changes the unit of that document only.
LEMMA ServeKeeps ==
  ASSUME Inv, NEW d \in Outbound, TakeUnit(d) \/ GiveBack(d),
         UNCHANGED <<isLocked, run, stopped, lockLeft>>, request' \in [Clients -> Requests \cup {NULL}]
  PROVE  Inv'
<1>1. PICK s \in Inbound \cup {NULL} : Moves(d, s)
  BY TakeOrGiveBack
<1> QED  BY <1>1, MovesKeep

\* What does not touch the tables, the lock or a run keeps the invariant.
LEMMA RequestKeeps ==
  ASSUME Inv, UNCHANGED <<tables, isLocked, run, stopped, lockLeft>>,
         request' \in [Clients -> Requests \cup {NULL}]
  PROVE  Inv'
<1>1. UNCHANGED <<posted, source>>  BY DEF tables
<1>2. \A p \in Reposters : Mine(p)' = Mine(p) /\ \A d \in Outbound : SourceOf(p, d)' = SourceOf(p, d)
  BY <1>1 DEF Mine, SourceOf
<1>3. \A p \in Reposters : RunOK(p)'
  BY <1>1, <1>2 DEF Inv, RunOK, ViewSoldOnce, Untouched, Undoing, Redone, Owes
<1>4. TypesOK' /\ SoldOnce'
  BY <1>1 DEF Inv, TypesOK, SoldOnce
<1> QED  BY <1>3, <1>4 DEF Inv

-----------------------------------------------------------------------------
(* The theorems.                                                           *)

\* Every unit is sold once at the start, and nobody reposts.
LEMMA InitInv == Init => Inv
<1> SUFFICES ASSUME Init PROVE Inv
  OBVIOUS
<1>1. \A p \in Reposters : run[p] = NoRun
  BY DEF Init
<1>2. TypesOK
  BY NoRunIsRun DEF Init, TypesOK
<1>3. SoldOnce
  BY DEF Init, SoldOnce
<1>5. \A p \in Reposters : Mine(p) = {} /\ \A d \in Outbound : SourceOf(p, d) = source[d]
  BY <1>1, NoRunIsRun DEF Mine, SourceOf
<1>6. ASSUME NEW p \in Reposters PROVE RunOK(p)
  <2>1. run[p].pc = "idle" /\ run[p].undo = {} /\ run[p].dropped = {} /\ Mine(p) = {}
    BY <1>1, <1>5, NoRunIsRun
  <2>2. ViewSoldOnce(p)
    BY <1>3, <1>5 DEF SoldOnce, ViewSoldOnce
  <2> QED  BY <2>1, <2>2 DEF RunOK, Untouched, Undoing, Redone, Owes
<1> QED  BY <1>2, <1>3, <1>6 DEF Inv

\* Every step keeps the invariant while no more than one reposting runs.
LEMMA NextInv ==
  ASSUME OneReposting, Inv, [Next]_vars
  PROVE  Inv'
<1>1. ASSUME NEW p \in Reposters, Step(p) PROVE Inv'
  <2>1. CASE CheckLock(p) \/ SetLock(p)  BY <2>1, LockKeeps
  <2>2. CASE SelectDocuments(p)  BY <2>2, SelectKeeps
  <2>3. CASE CheckUnpost(p)  BY <2>3, CheckUnpostKeeps
  <2>4. CASE Unpost(p)  BY <2>4, UnpostKeeps
  <2>5. CASE Post(p)  BY <2>5, PostKeeps
  <2>6. CASE Throw(p)  BY <2>6, ErrorKeeps
  <2>7. CASE Commit(p)  BY <2>7, CommitKeeps
  <2>8. CASE Unlock(p)  BY <2>8, UnlockKeeps
  <2> QED  BY <1>1, <2>1, <2>2, <2>3, <2>4, <2>5, <2>6, <2>7, <2>8 DEF Step
<1>2. ASSUME NEW p \in Reposters,
             Fail(p) \/ UnlockFails(p) \/ \E o \in Options : StartRepost(p, o)
      PROVE  Inv'
  BY <1>2, ErrorKeeps, UnlockKeeps, StartKeeps
<1>3. ASSUME NEW c \in Clients, NEW r \in Realizations, NEW op \in {"post", "unpost"},
             Admit(c, op, r)
      PROVE  Inv'
  BY <1>3, RequestKeeps DEF Admit, Inv, TypesOK, Requests
<1>4. ASSUME NEW c \in Clients, Serve(c) PROVE Inv'
  <2>1. request[c] \in Requests /\ request' \in [Clients -> Requests \cup {NULL}]
    BY <1>4 DEF Serve, Inv, TypesOK
  <2>2. request[c].doc \in Outbound
    BY <2>1 DEF Requests, Outbound
  <2>3. /\ TakeUnit(request[c].doc) \/ GiveBack(request[c].doc)
        /\ UNCHANGED <<isLocked, run, stopped, lockLeft>>
    BY <1>4 DEF Serve
  <2> QED  BY <2>1, <2>2, <2>3, ServeKeeps
<1>5. ASSUME NEW c \in Clients, Refuse(c) PROVE Inv'
  BY <1>5, RequestKeeps DEF Refuse, Inv, TypesOK
<1>6. ASSUME NEW d \in SupplierReturns, ServeReturn(d) PROVE Inv'
  BY <1>6, ServeKeeps DEF ServeReturn, Outbound, Inv, TypesOK
<1>7. CASE Stop  BY <1>7, StopKeeps
<1>8. CASE UNCHANGED vars
  BY <1>8, RequestKeeps DEF vars, Inv, TypesOK
<1> QED  BY <1>1, <1>2, <1>3, <1>4, <1>5, <1>6, <1>7, <1>8 DEF Next

\* The inductive invariant holds.
LEMMA SpecInv ==
  ASSUME OneReposting
  PROVE  Spec => []Inv
<1>1. Inv /\ [Next]_vars => Inv'
  BY NextInv
<1> QED  BY <1>1, InitInv, PTL DEF Spec

\* A unit is sold once, though a reposting, the calls it does not lock out and
\* those that were admitted before it move units at once.
THEOREM UnitSoldOnce ==
  ASSUME OneReposting
  PROVE  Spec => []SoldOnce
<1>1. Inv => SoldOnce
  BY DEF Inv
<1> QED  BY <1>1, SpecInv, PTL

\* The only step that ends the work of a run and changes a table is COMMIT.
LEMMA OnlyCommit ==
  ASSUME Inv, Next, NEW p \in Reposters, run[p].pc = "run", run'[p].pc = "unlock",
         tables' # tables, OneReposting
  PROVE  Commit(p)
<1>1. ASSUME NEW q \in Reposters, Step(q) PROVE Commit(p)
  <2>1. q = p  BY DEF OneReposting
  <2> QED  BY <1>1, <2>1 DEF Step, CheckLock, SetLock, SelectDocuments, CheckUnpost, Unpost,
                             Post, Throw, Unlock
<1>2. ASSUME NEW q \in Reposters,
             Fail(q) \/ UnlockFails(q) \/ \E o \in Options : StartRepost(q, o)
      PROVE  FALSE
  BY <1>2 DEF Fail, UnlockFails, StartRepost
<1>3. run' # run
  OBVIOUS
<1>4. ASSUME NEW c \in Clients,
             Serve(c) \/ Refuse(c) \/ \E r \in Realizations, op \in {"post", "unpost"} : Admit(c, op, r)
      PROVE  FALSE
  BY <1>3, <1>4 DEF Serve, Refuse, Admit
<1>5. ASSUME NEW d \in SupplierReturns, ServeReturn(d) PROVE FALSE
  BY <1>3, <1>5 DEF ServeReturn
<1>6. ~Stop
  BY NoRunIsRun DEF Stop
<1> QED  BY <1>1, <1>2, <1>4, <1>5, <1>6 DEF Next

\* A full reposting restores every document it has unposted, with a unit for
\* every realization, or changes nothing: it owes nothing when it commits.
THEOREM RepostingRestores ==
  ASSUME OneReposting
  PROVE  Spec => RepostRestores
<1>1. ASSUME Inv, [Next]_vars, NEW p \in Reposters
      PROVE  Restores(p)
  <2> SUFFICES ASSUME run[p].pc = "run", run'[p].pc = "unlock", tables' # tables,
                      Full(run[p].options)
               PROVE  /\ posted' = posted
                      /\ \A r \in Realizations \cap Mine(p) : source'[r] # NULL
    BY DEF Restores
  <2>1. Next
    BY <1>1 DEF vars
  <2>2. Commit(p)
    BY <1>1, <2>1, OnlyCommit
  <2>3. RunOK(p) /\ posted \in SUBSET Documents
    BY <1>1 DEF Inv, TypesOK
  <2>4. \A d \in Mine(p) : d \in posted /\ run[p].mine[d].posted
    BY <2>2, <2>3 DEF Commit, RunOK, Owes
  <2>5. \A d \in Documents : IsPosted(p, d) <=> d \in posted
    BY <2>4 DEF IsPosted
  <2>6. posted' = posted
    BY <2>2, <2>3, <2>5 DEF Commit
  <2>7. \A r \in Realizations \cap Mine(p) : source'[r] # NULL
    <3> TAKE r \in Realizations \cap Mine(p)
    <3>1. r \in Outbound  BY DEF Outbound
    <3>2. source'[r] = run[p].mine[r].source
      BY <2>2, <3>1 DEF Commit, SourceOf
    <3> QED  BY <2>3, <2>4, <3>2 DEF RunOK, Redone
  <2> QED  BY <2>6, <2>7
<1>2. Inv /\ [Next]_vars => [\A p \in Reposters : Restores(p)]_vars
  BY <1>1
<1> QED  BY <1>2, SpecInv, PTL DEF Spec, RepostRestores

-----------------------------------------------------------------------------
(* Types, however many repostings there are.                               *)

\* Typed is what unposting needs to know of a run: which document it has checked.
Typed(k) == k \in Runs /\ (k.pc = "undo" => k.doc \in Reposted)

TypeInv == TypesOK /\ \A p \in Reposters : Typed(run[p])

\* A step that moves one run on and leaves the calls alone.
LEMMA TypedMoves ==
  ASSUME TypeInv, NEW p \in Reposters, NEW k, Typed(k), run' = [run EXCEPT ![p] = k],
         UNCHANGED <<request, stopped>>, isLocked' \in BOOLEAN, lockLeft' \in BOOLEAN,
         posted' \in SUBSET Documents, source' \in [Outbound -> Inbound \cup {NULL}]
  PROVE  TypeInv'
<1>1. run \in [Reposters -> Runs] /\ UNCHANGED <<request, stopped>>
  BY DEF TypeInv, TypesOK
<1>2. run' \in [Reposters -> Runs]
  BY <1>1 DEF Typed
<1>3. \A q \in Reposters : Typed(run'[q])
  BY <1>1 DEF TypeInv
<1>4. TypesOK'
  BY <1>1, <1>2 DEF TypeInv, TypesOK
<1> QED  BY <1>3, <1>4 DEF TypeInv, Typed

\* The statements that write no table.
LEMMA StepTyped ==
  ASSUME TypeInv, NEW p \in Reposters, NEW k, Typed(k), run' = [run EXCEPT ![p] = k],
         UNCHANGED <<tables, isLocked, request, stopped>>, lockLeft' \in BOOLEAN
  PROVE  TypeInv'
<1>1. /\ UNCHANGED <<request, stopped>> /\ isLocked' \in BOOLEAN
      /\ posted' \in SUBSET Documents /\ source' \in [Outbound -> Inbound \cup {NULL}]
  BY DEF TypeInv, TypesOK, tables
<1> QED  BY <1>1, TypedMoves

\* The queries before the documents are worked on.
LEMMA LockTyped ==
  ASSUME TypeInv, NEW p \in Reposters,
         CheckLock(p) \/ SetLock(p) \/ Unlock(p) \/ UnlockFails(p) \/ SelectDocuments(p)
  PROVE  TypeInv'
<1>1. /\ run[p] \in Runs /\ UNCHANGED <<tables, request, stopped>>
      /\ isLocked \in BOOLEAN /\ lockLeft \in BOOLEAN
  BY DEF TypeInv, TypesOK, CheckLock, SetLock, Unlock, UnlockFails, SelectDocuments
<1>2. posted' \in SUBSET Documents /\ source' \in [Outbound -> Inbound \cup {NULL}]
  BY <1>1 DEF TypeInv, TypesOK, tables
<1>3. isLocked' \in BOOLEAN /\ lockLeft' \in BOOLEAN
  BY <1>1 DEF CheckLock, SetLock, Unlock, UnlockFails, SelectDocuments
<1>4. CASE CheckLock(p) \/ SetLock(p)
  <2>1. PICK pc \in {"lock", "unlock", "select"} : run' = [run EXCEPT ![p].pc = pc]
    BY <1>4 DEF CheckLock, SetLock, Move
  <2>2. run' = [run EXCEPT ![p] = [run[p] EXCEPT !.pc = pc]]
    BY <2>1
  <2>3. Typed([run[p] EXCEPT !.pc = pc])
    BY <1>1 DEF Typed, Runs
  <2> QED  BY <1>1, <1>2, <1>3, <2>2, <2>3, TypedMoves
<1>5. CASE Unlock(p) \/ UnlockFails(p)
  <2>1. run' = [run EXCEPT ![p] = NoRun] /\ Typed(NoRun)
    BY <1>5, NoRunIsRun DEF Unlock, UnlockFails, Typed
  <2> QED  BY <1>1, <1>2, <1>3, <2>1, TypedMoves
<1>6. CASE SelectDocuments(p)
  <2> DEFINE D == Selected(run[p].options)
  <2>1. D \subseteq Reposted
    BY DEF Selected
  <2> HIDE DEF D
  <2>2. PICK undo \in SUBSET Reposted, redo \in SUBSET Reposted :
          run' = [run EXCEPT ![p].pc = "run", ![p].undo = undo, ![p].redo = redo]
    <3> DEFINE undo == IF run[p].options.action = "POST" THEN {} ELSE D
               redo == IF run[p].options.action = "UNPOST" THEN {} ELSE D
    <3>1. undo \in SUBSET Reposted /\ redo \in SUBSET Reposted
      BY <2>1
    <3>2. run' = [run EXCEPT ![p].pc = "run", ![p].undo = undo, ![p].redo = redo]
      BY <1>6 DEF SelectDocuments, D
    <3> QED  BY <3>1, <3>2
  <2> DEFINE k == [run[p] EXCEPT !.pc = "run", !.undo = undo, !.redo = redo]
  <2>3. run' = [run EXCEPT ![p] = k] /\ Typed(k)
    BY <1>1, <2>2 DEF Typed, Runs
  <2> HIDE DEF k
  <2> QED  BY <1>1, <1>2, <1>3, <2>3, TypedMoves
<1> QED  BY <1>4, <1>5, <1>6

\* Checking, unposting and posting a document.
LEMMA WorkTyped ==
  ASSUME TypeInv, NEW p \in Reposters, CheckUnpost(p) \/ Unpost(p) \/ Post(p)
  PROVE  TypeInv'
<1>1. /\ Typed(run[p]) /\ run[p] \in Runs
      /\ UNCHANGED <<tables, isLocked, request, stopped>> /\ lockLeft' \in BOOLEAN
  BY DEF TypeInv, TypesOK, CheckUnpost, Unpost, Post
<1>2. CASE CheckUnpost(p)
  <2>1. PICK d \in NextUndone(p) : run' = [run EXCEPT ![p].pc = "undo", ![p].doc = d]
    BY <1>2 DEF CheckUnpost
  <2> DEFINE k == [run[p] EXCEPT !.pc = "undo", !.doc = d]
  <2>2. d \in Reposted
    BY <1>1 DEF NextUndone, Runs
  <2>3. run' = [run EXCEPT ![p] = k] /\ Typed(k)
    BY <1>1, <2>1, <2>2 DEF Typed, Runs
  <2> HIDE DEF k
  <2> QED  BY <1>1, <2>3, StepTyped
<1>3. CASE Unpost(p)
  <2> DEFINE d == run[p].doc
             w == Write(p, d, [posted |-> FALSE, source |-> NULL])
             dropped == IF d \in Inbound THEN run[p].dropped \cup {d} ELSE run[p].dropped
             undo == run[p].undo \ {d}
             k == [run[p] EXCEPT !.pc = "run", !.doc = NULL, !.undo = undo,
                                 !.mine = w, !.dropped = dropped]
  <2>1. d \in Reposted
    BY <1>1, <1>3 DEF Typed, Unpost
  <2>2. w \in UNION {[D -> Writes] : D \in SUBSET Reposted}
    <3>1. [posted |-> FALSE, source |-> NULL] \in Writes
      BY DEF Writes
    <3> QED  BY <1>1, <2>1, <3>1, WriteIsWritten
  <2>3. dropped \in SUBSET Inbound /\ undo \in SUBSET Reposted
    BY <1>1 DEF Runs
  <2>4. run' = [run EXCEPT ![p] = k]
    BY <1>3 DEF Unpost
  <2> HIDE DEF w, dropped, undo
  <2>5. Typed(k)
    BY <1>1, <2>2, <2>3 DEF Typed, Runs
  <2> HIDE DEF k
  <2> QED  BY <1>1, <2>4, <2>5, StepTyped
<1>4. CASE Post(p)
  <2>1. PICK d \in NextRedone(p) : \E s \in Taken(p, d) :
          run' = [run EXCEPT ![p].redo = @ \ {d},
                    ![p].mine = Write(p, d, [posted |-> TRUE, source |-> s])]
    BY <1>4 DEF Post
  <2>2. PICK s \in Taken(p, d) :
          run' = [run EXCEPT ![p].redo = @ \ {d},
                    ![p].mine = Write(p, d, [posted |-> TRUE, source |-> s])]
    BY <2>1
  <2> DEFINE w == Write(p, d, [posted |-> TRUE, source |-> s])
             redo == run[p].redo \ {d}
             k == [run[p] EXCEPT !.redo = redo, !.mine = w]
  <2>3. d \in Reposted /\ s \in Inbound \cup {NULL}
    BY <1>1 DEF NextRedone, Runs, Taken, InStock
  <2>4. w \in UNION {[D -> Writes] : D \in SUBSET Reposted}
    <3>1. [posted |-> TRUE, source |-> s] \in Writes
      BY <2>3 DEF Writes
    <3> QED  BY <1>1, <2>3, <3>1, WriteIsWritten
  <2>5. redo \in SUBSET Reposted
    BY <1>1 DEF Runs
  <2>6. run' = [run EXCEPT ![p] = k]
    BY <2>2
  <2>7. run[p].pc # "undo"
    BY <1>4 DEF Post
  <2> HIDE DEF w, redo
  <2>8. Typed(k)
    BY <1>1, <2>4, <2>5, <2>7 DEF Typed, Runs
  <2> HIDE DEF k
  <2> QED  BY <1>1, <2>6, <2>8, StepTyped
<1> QED  BY <1>2, <1>3, <1>4

\* COMMIT makes what the run has written the tables.
LEMMA CommitTyped ==
  ASSUME TypeInv, NEW p \in Reposters, Commit(p)
  PROVE  TypeInv'
<1> DEFINE k == [NoRun EXCEPT !.pc = "unlock"]
<1>1. run' = [run EXCEPT ![p] = k] /\ Typed(k)
  BY NoRunIsRun DEF Commit, Typed, Runs
<1>2. run[p] \in Runs /\ source \in [Outbound -> Inbound \cup {NULL}]
  BY DEF TypeInv, TypesOK
<1>3. PICK D \in SUBSET Reposted : run[p].mine \in [D -> Writes]
  BY <1>2 DEF Runs
<1>4. \A d \in Outbound : SourceOf(p, d) \in Inbound \cup {NULL}
  BY <1>2, <1>3 DEF SourceOf, Mine, Writes
<1>5. source' \in [Outbound -> Inbound \cup {NULL}]
  BY <1>4 DEF Commit
<1>6. /\ posted' \in SUBSET Documents /\ UNCHANGED <<request, stopped>>
      /\ isLocked' \in BOOLEAN /\ lockLeft' \in BOOLEAN
  BY DEF Commit, TypeInv, TypesOK
<1> HIDE DEF k
<1> QED  BY <1>1, <1>5, <1>6, TypedMoves

\* The other calls do not touch the runs.
LEMMA CallsTyped ==
  ASSUME TypeInv, UNCHANGED run, isLocked' \in BOOLEAN, stopped' \in BOOLEAN, lockLeft' \in BOOLEAN,
         request' \in [Clients -> Requests \cup {NULL}],
         UNCHANGED tables \/ \E d \in Outbound : TakeUnit(d) \/ GiveBack(d)
  PROVE  TypeInv'
<1>1. posted' \in SUBSET Documents /\ source' \in [Outbound -> Inbound \cup {NULL}]
  <2>1. CASE UNCHANGED tables
    BY <2>1 DEF tables, TypeInv, TypesOK
  <2>2. CASE \E d \in Outbound : TakeUnit(d) \/ GiveBack(d)
    <3>1. PICK d \in Outbound : TakeUnit(d) \/ GiveBack(d)
      BY <2>2
    <3>2. PICK s \in Inbound \cup {NULL} : Moves(d, s)
      BY <3>1, TakeOrGiveBack
    <3> QED  BY <3>2 DEF Moves, TypeInv, TypesOK, Documents, Reposted, Outbound
  <2> QED  BY <2>1, <2>2
<1>2. TypesOK'
  BY <1>1 DEF TypeInv, TypesOK
<1> QED  BY <1>2 DEF TypeInv, Typed

\* Every step keeps the types.
LEMMA NextTyped == TypeInv /\ [Next]_vars => TypeInv'
<1> SUFFICES ASSUME TypeInv, [Next]_vars PROVE TypeInv'
  OBVIOUS
<1>0. /\ isLocked \in BOOLEAN /\ stopped \in BOOLEAN /\ lockLeft \in BOOLEAN
      /\ request \in [Clients -> Requests \cup {NULL}]
  BY DEF TypeInv, TypesOK
<1>1. ASSUME NEW p \in Reposters, Step(p) \/ Fail(p) \/ UnlockFails(p) PROVE TypeInv'
  <2>1. CASE CheckLock(p) \/ SetLock(p) \/ Unlock(p) \/ UnlockFails(p) \/ SelectDocuments(p)
    BY <2>1, LockTyped
  <2>2. CASE CheckUnpost(p) \/ Unpost(p) \/ Post(p)
    BY <2>2, WorkTyped
  <2>3. CASE Commit(p)
    BY <2>3, CommitTyped
  <2>4. CASE Throw(p) \/ Fail(p)
    <3> DEFINE k == [NoRun EXCEPT !.pc = "unlock"]
    <3>1. Typed(k)
      BY NoRunIsRun DEF Typed, Runs
    <3>2. run' = [run EXCEPT ![p] = k] /\ UNCHANGED <<tables, isLocked, request, stopped>>
          /\ lockLeft' \in BOOLEAN
      BY <1>0, <2>4 DEF Throw, Fail
    <3> HIDE DEF k
    <3> QED  BY <3>1, <3>2, StepTyped
  <2> QED  BY <1>1, <2>1, <2>2, <2>3, <2>4 DEF Step
<1>2. ASSUME NEW p \in Reposters, NEW options \in Options, StartRepost(p, options)
      PROVE  TypeInv'
  <2> DEFINE k == [NoRun EXCEPT !.pc = "check", !.options = options]
  <2>1. Typed(k)
    BY FreshRun DEF Typed
  <2>2. run' = [run EXCEPT ![p] = k] /\ UNCHANGED <<tables, isLocked, request, stopped>>
        /\ lockLeft' \in BOOLEAN
    BY <1>2 DEF StartRepost
  <2> HIDE DEF k
  <2> QED  BY <2>1, <2>2, StepTyped
<1>3. ASSUME NEW c \in Clients, NEW r \in Realizations, NEW op \in {"post", "unpost"},
             Admit(c, op, r)
      PROVE  TypeInv'
  BY <1>0, <1>3, CallsTyped DEF Admit, Requests
<1>4. ASSUME NEW c \in Clients, Serve(c) PROVE TypeInv'
  <2>1. /\ request[c] \in Requests /\ request' \in [Clients -> Requests \cup {NULL}]
        /\ UNCHANGED <<isLocked, run, stopped, lockLeft>>
    BY <1>0, <1>4 DEF Serve
  <2>2. \E d \in Outbound : TakeUnit(d) \/ GiveBack(d)
    BY <1>4, <2>1 DEF Serve, Requests, Outbound
  <2> QED  BY <1>0, <2>1, <2>2, CallsTyped
<1>5. ASSUME NEW c \in Clients, Refuse(c) PROVE TypeInv'
  BY <1>0, <1>5, CallsTyped DEF Refuse
<1>6. ASSUME NEW d \in SupplierReturns, ServeReturn(d) PROVE TypeInv'
  BY <1>0, <1>6, CallsTyped DEF ServeReturn, Outbound
<1>7. CASE Stop
  <2>1. \A p \in Reposters : run'[p] = NoRun /\ Typed(run'[p])
    BY <1>7, NoRunIsRun DEF Stop, Typed
  <2>2. TypesOK'
    BY <1>7, NoRunIsRun DEF Stop, tables, TypeInv, TypesOK
  <2> QED  BY <2>1, <2>2 DEF TypeInv
<1>8. CASE UNCHANGED vars
  BY <1>0, <1>8, CallsTyped DEF vars
<1> QED  BY <1>1, <1>2, <1>3, <1>4, <1>5, <1>6, <1>7, <1>8 DEF Next

\* The types hold in every state.
LEMMA SpecTyped == Spec => []TypeInv
<1>1. Init => TypeInv
  <2> SUFFICES ASSUME Init PROVE TypeInv
    OBVIOUS
  <2>1. Inv
    BY InitInv
  <2>2. \A p \in Reposters : Typed(run[p])
    BY NoRunIsRun DEF Init, Typed
  <2> QED  BY <2>1, <2>2 DEF Inv, TypeInv
<1> QED  BY <1>1, NextTyped, PTL DEF Spec

\* The tables, the lock and what a run has written keep their types, however many
\* repostings run at once.
THEOREM TypeCorrect == Spec => []TypeOK
<1>1. TypeInv => TypeOK
  <2> SUFFICES ASSUME TypeInv PROVE TypeOK
    OBVIOUS
  <2>1. ASSUME NEW p \in Reposters
        PROVE  /\ run[p].pc \in {"idle", "check", "lock", "select", "run", "undo", "unlock"}
               /\ Mine(p) \subseteq Reposted /\ run[p].dropped \subseteq Inbound
    <3>1. run[p] \in Runs
      BY DEF TypeInv, TypesOK
    <3>2. PICK D \in SUBSET Reposted : run[p].mine \in [D -> Writes]
      BY <3>1 DEF Runs
    <3> QED  BY <3>1, <3>2 DEF Runs, Mine
  <2> QED  BY <2>1 DEF TypeInv, TypesOK, TypeOK
<1> QED  BY <1>1, SpecTyped, PTL
=============================================================================
