----------------------------- MODULE LmdbProofs ------------------------------
(***************************************************************************)
(* Proofs about LmdbHandles, for every set of addresses and of database    *)
(* numbers and every ladder of table sizes.  LiveObjectsNamed holds        *)
(* whatever the script does; TablesExact of a script that has kept to the  *)
(* rules follows by induction from the type invariant, since the rules are *)
(* conditions on single steps.                                             *)
(***************************************************************************)
EXTENDS LmdbHandles, WellFoundedInduction, TLAPS

-----------------------------------------------------------------------------
(* The tables.                                                             *)

\* The next size of the ladder is one of the larger ones.
LEMMA NextSize ==
  ASSUME NEW size \in Nat, Larger(size) # {}
  PROVE  GetTableSize(size) \in Sizes /\ size < GetTableSize(size)
<1>1. Larger(size) \in SUBSET Nat
  BY TableLoadAssumption DEF Larger
<1>2. IsWellFoundedOn(OpToRel(<, Nat), Nat)
  BY NatLessThanWellFounded
<1>3. PICK x \in Larger(size) :
        \A y \in Larger(size) : ~(<<y, x>> \in OpToRel(<, Nat))
  BY <1>1, <1>2, WFMin
<1>4. \A y \in Larger(size) : x <= y
  <2>1. \A y \in Larger(size) : ~(y < x)
    BY <1>1, <1>3 DEF OpToRel
  <2>. QED
    BY <1>1, <2>1
<1>5. GetTableSize(size) \in Larger(size)
  BY <1>4 DEF GetTableSize
<1>. QED
  BY <1>5 DEF Larger

LEMMA FirstSize == GetTableSize(0) \in Sizes
<1>1. Larger(0) # {}
  BY TableLoadAssumption DEF Larger
<1>. QED
  BY <1>1, NextSize

LEMMA FirstLoad == LoadOK(NewLoad)
<1>1. NewLoad.size \in Nat /\ NewLoad.size = GetTableSize(0)
  BY FirstSize, TableLoadAssumption DEF NewLoad
<1>2. NewLoad.entries = 0 /\ DOMAIN NewLoad.lost = {}
  BY DEF NewLoad
<1>. QED
  BY <1>1, <1>2, FirstSize DEF LoadOK

\* An insertion loses its own handle or none, and forgets no earlier loss.
LEMMA InsertedLoad ==
  ASSUME NEW old, LoadOK(old), NEW h
  PROVE  /\ LoadOK(Inserted(old, h))
         /\ Lost(old) \subseteq Lost(Inserted(old, h))
         /\ Grows(old) => h \in Lost(Inserted(old, h))
<1>1. /\ old.entries \in Int
      /\ old.size \in Sizes /\ GetTableSize(0) <= old.size
      /\ DOMAIN old.lost \subseteq Outgrown(old.size)
  BY DEF LoadOK
<1>2. CASE ~Grows(old)
  BY <1>1, <1>2 DEF Inserted, LoadOK, Lost
<1>3. CASE Grows(old)
  <2>1. /\ GetTableSize(old.size) \in Sizes
        /\ old.size < GetTableSize(old.size)
    BY <1>1, <1>3, NextSize, TableLoadAssumption DEF Grows
  <2>2. old.size \notin DOMAIN old.lost
    <3>1. old.size \in Nat
      BY <1>1, TableLoadAssumption
    <3>2. old.size \notin Outgrown(old.size)
      BY <3>1 DEF Outgrown
    <3>. QED
      BY <1>1, <3>2
  <2>. DEFINE new == Inserted(old, h)
  <2>3. /\ new.entries = old.entries + 1
        /\ new.size = GetTableSize(old.size)
        /\ DOMAIN new.lost = DOMAIN old.lost \cup {old.size}
        /\ new.lost[old.size] = h
        /\ \A s \in DOMAIN old.lost : new.lost[s] = old.lost[s]
    BY <1>3, <2>2 DEF Inserted
  <2>. HIDE DEF new
  <2>4. LoadOK(new)
    <3>0. /\ GetTableSize(0) \in Nat /\ old.size \in Nat /\ new.size \in Nat
          /\ Sizes \subseteq Nat
      BY <1>1, <2>1, <2>3, FirstSize, TableLoadAssumption
    <3>1. Outgrown(old.size) \cup {old.size} \subseteq Outgrown(new.size)
      <4>1. ASSUME NEW s \in Sizes, GetTableSize(0) <= s, s <= old.size
            PROVE  s < new.size
        <5>1. s \in Nat /\ old.size < new.size
          BY <2>1, <2>3, <3>0
        <5>. QED
          BY <3>0, <4>1, <5>1
      <4>2. \A s \in Outgrown(old.size) \cup {old.size} :
              s \in Sizes /\ GetTableSize(0) <= s /\ s <= old.size
        BY <1>1, <3>0 DEF Outgrown
      <4>. QED
        BY <4>1, <4>2 DEF Outgrown
    <3>2. GetTableSize(0) <= new.size
      <4>1. old.size < new.size
        BY <2>1, <2>3
      <4>. QED
        BY <1>1, <3>0, <4>1
    <3>. QED
      BY <1>1, <2>1, <2>3, <3>1, <3>2 DEF LoadOK
  <2>5. Lost(old) \subseteq Lost(new) /\ h \in Lost(new)
    BY <2>3 DEF Lost
  <2>. QED
    BY <2>4, <2>5 DEF new
<1>. QED
  BY <1>2, <1>3

LEMMA ReleasedLoad ==
  ASSUME NEW old, LoadOK(old)
  PROVE  LoadOK(Released(old)) /\ Lost(Released(old)) = Lost(old)
BY DEF LoadOK, Released, Lost

\* get_handle puts the handle in the table of its kind, or loses it, and does
\* nothing to the others.
LEMMA HandleStep ==
  ASSUME TypeOK, NEW kind \in Kinds, NEW table, NEW h, GetHandle(kind, table, h)
  PROVE  /\ DOMAIN load' = Kinds
         /\ \A j \in Kinds : LoadOK(load'[j]) /\ Lost(load[j]) \subseteq Lost(load'[j])
         /\ h \in Entered(kind, table, h) \cup Lost(load'[kind])
         /\ table \subseteq Entered(kind, table, h)
         /\ Entered(kind, table, h) \subseteq table \cup {h}
<1>1. DOMAIN load = Kinds /\ \A j \in Kinds : LoadOK(load[j])
  BY DEF TypeOK
<1>2. CASE h \in table
  BY <1>1, <1>2 DEF GetHandle, Entered
<1>3. CASE h \notin table
  <2>1. load' = [load EXCEPT ![kind] = Inserted(@, h)]
    BY <1>3 DEF GetHandle
  <2>2. /\ DOMAIN load' = Kinds /\ load'[kind] = Inserted(load[kind], h)
        /\ \A j \in Kinds \ {kind} : load'[j] = load[j]
    BY <1>1, <2>1
  <2>3. /\ LoadOK(Inserted(load[kind], h))
        /\ Lost(load[kind]) \subseteq Lost(Inserted(load[kind], h))
        /\ Grows(load[kind]) => h \in Lost(Inserted(load[kind], h))
    BY <1>1, InsertedLoad
  <2>. QED
    BY <1>1, <2>2, <2>3 DEF Entered
<1>. QED
  BY <1>2, <1>3

LEMMA ReleaseStep ==
  ASSUME TypeOK, NEW kind \in Kinds, ReleaseHandle(kind)
  PROVE  /\ DOMAIN load' = Kinds
         /\ \A j \in Kinds : LoadOK(load'[j]) /\ Lost(load'[j]) = Lost(load[j])
<1>1. DOMAIN load = Kinds /\ \A j \in Kinds : LoadOK(load[j])
  BY DEF TypeOK
<1>2. /\ DOMAIN load' = Kinds /\ load'[kind] = Released(load[kind])
      /\ \A j \in Kinds \ {kind} : load'[j] = load[j]
  BY <1>1 DEF ReleaseHandle
<1>. QED
  BY <1>1, <1>2, ReleasedLoad

-----------------------------------------------------------------------------
(* The objects.                                                            *)

Cursor == [txn : Txns \cup {NULL}, env : Envs, dbi : Numbers]

\* What a step may do to the objects.  Each conjunct of TypeOK about the objects
\* is one about the elements of a function, which is how the steps use it.
LEMMA TypeFacts ==
  ASSUME TypeOK
  PROVE  /\ DOMAIN env \subseteq Envs /\ DOMAIN txn \subseteq Txns
         /\ DOMAIN cursor \subseteq Cursors
         /\ \A e \in DOMAIN env : env[e] \subseteq Numbers
         /\ \A t \in DOMAIN txn : txn[t] \in Txn /\ txn[t].env \in DOMAIN env
         /\ \A k \in DOMAIN cursor : cursor[k] \in Cursor
BY DEF TypeOK, Cursor

\* The end of a transaction takes its nest with it, and no environment; cursors
\* disappear or lose their transaction.
LEMMA EndFacts ==
  ASSUME TypeOK, NEW t \in DOMAIN txn
  PROVE  /\ t \in Nest(t) /\ Nest(t) \subseteq DOMAIN txn
         /\ NewIn(t) \subseteq Numbers
         /\ DOMAIN CursorsAfter(t) = DOMAIN cursor \ FreedCursors(t)
         /\ CursorsAfter(t) \in [DOMAIN cursor \ FreedCursors(t) -> Cursor]
         /\ \A k \in DOMAIN cursor \ FreedCursors(t) :
              CursorsAfter(t)[k].dbi = cursor[k].dbi
<1>1. t \in Nest(t) /\ Nest(t) \subseteq DOMAIN txn
  BY DEF Nest
<1>2. NewIn(t) \subseteq Numbers
  BY <1>1, TypeFacts DEF NewIn, Txn
<1>3. \A k \in DOMAIN cursor \ FreedCursors(t) :
        /\ CursorsAfter(t)[k] \in Cursor
        /\ CursorsAfter(t)[k].dbi = cursor[k].dbi
  <2>. SUFFICES ASSUME NEW k \in DOMAIN cursor \ FreedCursors(t)
                PROVE  /\ CursorsAfter(t)[k] \in Cursor
                       /\ CursorsAfter(t)[k].dbi = cursor[k].dbi
    OBVIOUS
  <2>1. cursor[k] \in Cursor
    BY TypeFacts
  <2>2. [cursor[k] EXCEPT !.txn = NULL] \in Cursor
    BY <2>1 DEF Cursor
  <2>3. [cursor[k] EXCEPT !.txn = NULL].dbi = cursor[k].dbi
    BY <2>1 DEF Cursor
  <2>4. CursorsAfter(t)[k] \in {cursor[k], [cursor[k] EXCEPT !.txn = NULL]}
    BY DEF CursorsAfter
  <2>. QED
    BY <2>1, <2>2, <2>3, <2>4
<1>4. DOMAIN CursorsAfter(t) = DOMAIN cursor \ FreedCursors(t)
  BY DEF CursorsAfter
<1>5. CursorsAfter(t) = [k \in DOMAIN cursor \ FreedCursors(t) |-> CursorsAfter(t)[k]]
  BY DEF CursorsAfter
<1>. QED
  BY <1>1, <1>2, <1>3, <1>4, <1>5

\* The effect of both ends of a transaction on what there is.
LEMMA EndStep ==
  ASSUME TypeOK, NEW t \in DOMAIN txn, Committed(t) \/ Aborted(t)
  PROVE  /\ DOMAIN env' = DOMAIN env
         /\ \A e \in DOMAIN env : env'[e] \subseteq env[e]
         /\ env' \in [DOMAIN env -> SUBSET Numbers]
         /\ DOMAIN txn' = DOMAIN txn \ Nest(t)
         /\ txn' \in [DOMAIN txn \ Nest(t) -> Txn]
         /\ \A u \in DOMAIN txn \ Nest(t) : txn'[u].env = txn[u].env
         /\ cursor' = CursorsAfter(t)
<1>1. /\ \A u \in DOMAIN txn : txn[u] \in Txn
      /\ env \in [DOMAIN env -> SUBSET Numbers]
  BY TypeFacts DEF TypeOK
<1>2. CASE Aborted(t)
  <2>1. /\ txn' = Without(txn, Nest(t)) /\ cursor' = CursorsAfter(t)
        /\ env' = [env EXCEPT ![txn[t].env] = @ \ (NewIn(t) \ {MAIN_DBI})]
    BY <1>2 DEF Aborted
  <2>2. /\ DOMAIN txn' = DOMAIN txn \ Nest(t)
        /\ \A u \in DOMAIN txn \ Nest(t) : txn'[u] = txn[u]
        /\ txn' \in [DOMAIN txn \ Nest(t) -> Txn]
    BY <1>1, <2>1 DEF Without
  <2>3. /\ DOMAIN env' = DOMAIN env
        /\ \A e \in DOMAIN env : env'[e] \subseteq env[e]
        /\ env' \in [DOMAIN env -> SUBSET Numbers]
    BY <1>1, <2>1
  <2>. QED
    BY <2>1, <2>2, <2>3
<1>3. CASE Committed(t)
  <2>. DEFINE p == txn[t].parent
              grown == IF p = NULL THEN txn
                       ELSE [txn EXCEPT ![p].new = @ \cup NewIn(t)]
  <2>1. /\ txn' = Without(grown, Nest(t)) /\ cursor' = CursorsAfter(t)
        /\ env' = env
    BY <1>3 DEF Committed
  <2>2. DOMAIN grown = DOMAIN txn
    OBVIOUS
  <2>3. \A u \in DOMAIN txn : grown[u] \in Txn /\ grown[u].env = txn[u].env
    <3>1. NewIn(t) \subseteq Numbers
      BY EndFacts
    <3>. QED
      BY <1>1, <3>1 DEF Txn
  <2>. HIDE DEF grown
  <2>4. /\ DOMAIN txn' = DOMAIN txn \ Nest(t)
        /\ \A u \in DOMAIN txn \ Nest(t) : txn'[u] = grown[u]
        /\ txn' \in [DOMAIN txn \ Nest(t) -> Txn]
    BY <2>1, <2>2, <2>3 DEF Without
  <2>. QED
    BY <1>1, <2>1, <2>3, <2>4
<1>. QED
  BY <1>2, <1>3

-----------------------------------------------------------------------------
(* The type invariant.                                                     *)

LEMMA InitTypeOK == Init => TypeOK
BY FirstLoad DEF Init, TypeOK, Nothing

LEMMA NextTypeOK == TypeOK /\ [Next]_vars => TypeOK'
<1>. SUFFICES ASSUME TypeOK, [Next]_vars PROVE TypeOK'
  OBVIOUS
<1>1. CASE UNCHANGED vars
  BY <1>1 DEF vars, TypeOK
<1>2. CASE Next
  <2>. SUFFICES ASSUME Step PROVE TypeOK'
    BY <1>2 DEF Next
  <2>0. careful' \in BOOLEAN
    BY <1>2 DEF Next, TypeOK
  <2>1. ASSUME NEW e \in Envs, EnvCreate(e) PROVE TypeOK'
    <3>1. /\ DOMAIN env' = DOMAIN env \cup {e}
          /\ env' \in [DOMAIN env \cup {e} -> SUBSET Numbers]
      BY <2>1, TypeFacts, LmdbAssumption DEF EnvCreate, With
    <3>. QED
      BY <2>0, <2>1, <3>1, HandleStep DEF EnvCreate, GetHandle, Kinds, TypeOK
  <2>2. ASSUME NEW e \in Envs, EnvClose(e) PROVE TypeOK'
    <3>1. /\ DOMAIN env' = DOMAIN env \ {e}
          /\ env' \in [DOMAIN env \ {e} -> SUBSET Numbers]
      BY <2>2, TypeFacts DEF EnvClose, Without
    <3>2. \A t \in DOMAIN txn : txn[t].env # e
      BY <2>2 DEF EnvClose, TxnsOf
    <3>. QED
      BY <2>0, <2>2, <3>1, <3>2, ReleaseStep DEF EnvClose, Kinds, TypeOK
  <2>3. ASSUME NEW e \in Envs, NEW p \in Txns \cup {NULL}, NEW w \in BOOLEAN,
               NEW t \in Txns, TxnBegin(e, p, w, t)
        PROVE  TypeOK'
    <3>. DEFINE new == [env |-> e, parent |-> p, write |-> w, active |-> TRUE,
                        new |-> {}, above |-> IF p = NULL THEN {}
                                              ELSE txn[p].above \cup {p}]
    <3>1. new \in Txn /\ new.env = e /\ e \in DOMAIN env
      BY <2>3, TypeFacts DEF TxnBegin, Txn
    <3>. HIDE DEF new
    <3>2. txn' = With(txn, t, new)
      BY <2>3 DEF TxnBegin, new
    <3>3. /\ DOMAIN txn' = DOMAIN txn \cup {t}
          /\ txn' \in [DOMAIN txn \cup {t} -> Txn]
          /\ \A u \in DOMAIN txn' : txn'[u].env \in DOMAIN env
      BY <3>1, <3>2, TypeFacts DEF With
    <3>. QED
      BY <2>0, <2>3, <3>3, HandleStep DEF TxnBegin, GetHandle, Kinds, TypeOK
  <2>4. ASSUME NEW t \in Txns, TxnCommit(t) \/ TxnCommitFails(t) \/ TxnAbort(t)
        PROVE  TypeOK'
    <3>1. t \in DOMAIN txn /\ (Committed(t) \/ Aborted(t))
      BY <2>4 DEF TxnCommit, TxnCommitFails, TxnAbort
    <3>2. /\ envH' \subseteq Envs /\ txnH' \subseteq Txns
          /\ dbiH' \subseteq Numbers /\ curH' \subseteq Cursors
          /\ status' = status
          /\ DOMAIN load' = Kinds /\ \A kind \in Kinds : LoadOK(load'[kind])
      BY <2>4, ReleaseStep
         DEF TxnCommit, TxnCommitFails, TxnAbort, Kinds, tables, TypeOK
    <3>3. /\ DOMAIN env' = DOMAIN env
          /\ env' \in [DOMAIN env -> SUBSET Numbers]
          /\ DOMAIN txn' \subseteq DOMAIN txn
          /\ txn' \in [DOMAIN txn' -> Txn]
          /\ \A u \in DOMAIN txn' : txn'[u].env = txn[u].env
      BY <3>1, EndStep
    <3>4. /\ DOMAIN cursor' \subseteq DOMAIN cursor
          /\ cursor' \in [DOMAIN cursor' -> Cursor]
      BY <3>1, EndStep, EndFacts
    <3>. QED
      BY <2>0, <3>2, <3>3, <3>4 DEF TypeOK, Cursor
  <2>5. ASSUME NEW t \in Txns, TxnReset(t) \/ TxnRenew(t) PROVE TypeOK'
    <3>1. /\ DOMAIN txn' = DOMAIN txn
          /\ txn' \in [DOMAIN txn -> Txn]
          /\ \A u \in DOMAIN txn : txn'[u].env = txn[u].env
      <4>1. PICK b \in BOOLEAN : txn' = [txn EXCEPT ![t].active = b]
        BY <2>5 DEF TxnReset, TxnRenew
      <4>2. \A u \in DOMAIN txn :
              txn'[u] = IF u = t THEN [txn[u] EXCEPT !.active = b] ELSE txn[u]
        BY <4>1
      <4>3. \A u \in DOMAIN txn : /\ [txn[u] EXCEPT !.active = b] \in Txn
                                  /\ [txn[u] EXCEPT !.active = b].env = txn[u].env
        BY TypeFacts DEF Txn
      <4>. QED
        BY <4>1, <4>2, <4>3, TypeFacts
    <3>2. UNCHANGED <<env, cursor, tables, status>>
      BY <2>5 DEF TxnReset, TxnRenew
    <3>. QED
      BY <2>0, <3>1, <3>2 DEF tables, TypeOK
  <2>6. ASSUME NEW t \in Txns, NEW n \in Numbers, DbiOpen(t, n) PROVE TypeOK'
    <3>1. /\ DOMAIN txn' = DOMAIN txn
          /\ txn' \in [DOMAIN txn -> Txn]
          /\ \A u \in DOMAIN txn : txn'[u].env = txn[u].env
      <4>1. PICK new \in SUBSET Numbers : txn' = [txn EXCEPT ![t].new = new]
        <5>1. t \in DOMAIN txn /\ txn[t].new \subseteq Numbers
          BY <2>6, TypeFacts DEF DbiOpen, Txn
        <5>. QED
          BY <2>6, <5>1 DEF DbiOpen
      <4>2. \A u \in DOMAIN txn :
              txn'[u] = IF u = t THEN [txn[u] EXCEPT !.new = new] ELSE txn[u]
        BY <4>1
      <4>3. \A u \in DOMAIN txn : /\ [txn[u] EXCEPT !.new = new] \in Txn
                                  /\ [txn[u] EXCEPT !.new = new].env = txn[u].env
        BY TypeFacts DEF Txn
      <4>. QED
        BY <4>1, <4>2, <4>3, TypeFacts
    <3>2. DOMAIN env' = DOMAIN env /\ env' \in [DOMAIN env -> SUBSET Numbers]
      BY <2>6, TypeFacts DEF DbiOpen
    <3>. QED
      BY <2>0, <2>6, <3>1, <3>2, HandleStep DEF DbiOpen, GetHandle, Kinds, TypeOK
  <2>7. ASSUME NEW t \in Txns, NEW n \in Numbers, Drop(t, n) PROVE TypeOK'
    BY <2>0, <2>7, ReleaseStep DEF Drop, ClosedIn, Kinds, TypeOK
  <2>8. ASSUME NEW e \in Envs, NEW n \in Numbers, DbiClose(e, n) PROVE TypeOK'
    BY <2>0, <2>8, ReleaseStep DEF DbiClose, ClosedIn, Kinds, TypeOK
  <2>9. ASSUME NEW t \in Txns, NEW n \in Numbers, NEW k \in Cursors,
               CursorOpen(t, n, k)
        PROVE  TypeOK'
    <3>. DEFINE new == [txn |-> t, env |-> txn[t].env, dbi |-> n]
    <3>1. new \in Cursor
      BY <2>9, TypeFacts DEF CursorOpen, Cursor
    <3>2. cursor' = With(cursor, k, new)
      BY <2>9 DEF CursorOpen
    <3>. HIDE DEF new
    <3>3. /\ DOMAIN cursor' = DOMAIN cursor \cup {k}
          /\ cursor' \in [DOMAIN cursor \cup {k} -> Cursor]
      BY <3>1, <3>2, TypeFacts DEF With
    <3>. QED
      BY <2>0, <2>9, <3>3, HandleStep
         DEF CursorOpen, GetHandle, Kinds, TypeOK, Cursor
  <2>10. ASSUME NEW k \in Cursors, CursorClose(k) PROVE TypeOK'
    <3>1. /\ DOMAIN cursor' = DOMAIN cursor \ {k}
          /\ cursor' \in [DOMAIN cursor \ {k} -> Cursor]
      BY <2>10, TypeFacts DEF CursorClose, Without
    <3>. QED
      BY <2>0, <2>10, <3>1, ReleaseStep DEF CursorClose, Kinds, TypeOK, Cursor
  <2>11. ASSUME NEW t \in Txns, NEW k \in Cursors, CursorRenew(t, k) PROVE TypeOK'
    BY <2>0, <2>11 DEF CursorRenew, tables, TypeOK
  <2>12. CASE UseStale
    BY <2>0, <2>12 DEF UseStale, objects, tables, TypeOK
  <2>. QED
    BY <2>1, <2>2, <2>3, <2>4, <2>5, <2>6, <2>7, <2>8, <2>9, <2>10, <2>11, <2>12
       DEF Step
<1>. QED
  BY <1>1, <1>2

\* The objects of LMDB and the tables of lmdb/lmdb.c keep their types, and a live
\* transaction has a live environment.
THEOREM TypeCorrect == Spec => []TypeOK
BY InitTypeOK, NextTypeOK, PTL DEF Spec

-----------------------------------------------------------------------------
(* Every live object has its handle.                                       *)

\* No step forgets what a table has lost.
LEMMA LossesKept ==
  ASSUME TypeOK, [Next]_vars
  PROVE  \A kind \in Kinds : Lost(load[kind]) \subseteq Lost(load'[kind])
<1>1. CASE \/ UNCHANGED load
           \/ \E kind \in Kinds : ReleaseHandle(kind)
           \/ \E kind \in Kinds : \E table, h : GetHandle(kind, table, h)
  BY <1>1, HandleStep, ReleaseStep
<1>2. CASE UNCHANGED vars
  BY <1>1, <1>2 DEF vars
<1>3. CASE Next
  BY <1>1, <1>3
     DEF Next, Step, EnvCreate, EnvClose, TxnBegin, TxnCommit, TxnCommitFails,
         TxnAbort, TxnReset, TxnRenew, DbiOpen, DbiClose, Drop, CursorOpen,
         CursorClose, CursorRenew, UseStale, tables, Kinds
<1>. QED
  BY <1>2, <1>3

LEMMA NextNamed == TypeOK /\ LiveObjectsNamed /\ [Next]_vars => LiveObjectsNamed'
<1>. SUFFICES ASSUME TypeOK, LiveObjectsNamed, [Next]_vars
              PROVE  LiveObjectsNamed'
  OBVIOUS
<1>. DEFINE Goal ==
       /\ DOMAIN env' \ envH' \subseteq Lost(load'["env"])
       /\ DOMAIN txn' \ txnH' \subseteq Lost(load'["txn"])
       /\ DOMAIN cursor' \ curH' \subseteq Lost(load'["cur"])
       /\ \A t \in DOMAIN txn' : txn'[t].env \in envH'
       /\ \A k \in DOMAIN cursor' : cursor'[k].txn \in txnH' \cup {NULL}
<1>a. SUFFICES ASSUME Next PROVE Goal
  <2>1. TypeOK' => \A kind \in Kinds :
                     DOMAIN load'[kind].lost \subseteq Outgrown(load'[kind].size)
    BY DEF TypeOK, LoadOK
  <2>2. CASE UNCHANGED vars
    BY <2>2 DEF vars, LiveObjectsNamed, Named
  <2>. QED
    BY <2>1, <2>2, NextTypeOK DEF LiveObjectsNamed, Named
<1>0. /\ DOMAIN env \ envH \subseteq Lost(load["env"])
      /\ DOMAIN txn \ txnH \subseteq Lost(load["txn"])
      /\ DOMAIN cursor \ curH \subseteq Lost(load["cur"])
      /\ \A t \in DOMAIN txn : txn[t].env \in envH
      /\ \A k \in DOMAIN cursor : cursor[k].txn \in txnH \cup {NULL}
  BY DEF LiveObjectsNamed, Named
<1>b. /\ Lost(load["env"]) \subseteq Lost(load'["env"])
      /\ Lost(load["txn"]) \subseteq Lost(load'["txn"])
      /\ Lost(load["cur"]) \subseteq Lost(load'["cur"])
  BY LossesKept DEF Kinds
<1>1. ASSUME NEW e \in Envs, EnvCreate(e) PROVE Goal
  <2>1. DOMAIN env' = DOMAIN env \cup {e}
    BY <1>1 DEF EnvCreate, With
  <2>2. envH \subseteq envH' /\ e \in envH' \cup Lost(load'["env"])
    BY <1>1, HandleStep DEF EnvCreate, Kinds
  <2>. QED
    BY <1>0, <1>1, <1>b, <2>1, <2>2 DEF EnvCreate
<1>2. ASSUME NEW e \in Envs, EnvClose(e) PROVE Goal
  <2>1. DOMAIN env' = DOMAIN env \ {e} /\ envH' = envH \ {e}
    BY <1>2 DEF EnvClose, Without
  <2>2. \A t \in DOMAIN txn : txn[t].env # e
    BY <1>2 DEF EnvClose, TxnsOf
  <2>. QED
    BY <1>0, <1>2, <1>b, <2>1, <2>2 DEF EnvClose
<1>3. ASSUME NEW e \in Envs, NEW p \in Txns \cup {NULL}, NEW w \in BOOLEAN,
             NEW t \in Txns, TxnBegin(e, p, w, t)
      PROVE  Goal
  <2>1. /\ DOMAIN txn' = DOMAIN txn \cup {t}
        /\ txn'[t].env = e /\ \A u \in DOMAIN txn \ {t} : txn'[u] = txn[u]
    BY <1>3 DEF TxnBegin, With
  <2>2. txnH \subseteq txnH' /\ t \in txnH' \cup Lost(load'["txn"])
    BY <1>3, HandleStep DEF TxnBegin, Kinds
  <2>3. e \in envH
    BY <1>3 DEF TxnBegin
  <2>. QED
    BY <1>0, <1>3, <1>b, <2>1, <2>2, <2>3 DEF TxnBegin
<1>4. ASSUME NEW t \in Txns, TxnCommit(t) \/ TxnCommitFails(t) \/ TxnAbort(t)
      PROVE  Goal
  <2>1. t \in DOMAIN txn /\ (Committed(t) \/ Aborted(t))
    BY <1>4 DEF TxnCommit, TxnCommitFails, TxnAbort
  <2>2. /\ DOMAIN env' = DOMAIN env
        /\ DOMAIN txn' = DOMAIN txn \ Nest(t) /\ t \in Nest(t)
        /\ \A u \in DOMAIN txn \ Nest(t) : txn'[u].env = txn[u].env
        /\ cursor' = CursorsAfter(t)
    BY <2>1, EndStep, EndFacts
  <2>3. txnH \ {t} \subseteq txnH' /\ UNCHANGED <<envH, curH>>
    BY <1>4 DEF TxnCommit, TxnCommitFails, TxnAbort, tables
  <2>4. DOMAIN cursor' \subseteq DOMAIN cursor
    BY <2>1, <2>2, EndFacts
  <2>5. ASSUME NEW k \in DOMAIN cursor'
        PROVE  cursor'[k].txn \in txnH' \cup {NULL}
    <3>1. cursor[k] \in Cursor
      BY <2>4, TypeFacts
    <3>2. CASE k \in CursorsOf(t)
      <4>1. cursor'[k] = [cursor[k] EXCEPT !.txn = NULL]
        BY <2>2, <2>5, <3>2 DEF CursorsAfter
      <4>. QED
        BY <3>1, <4>1 DEF Cursor
    <3>3. CASE k \notin CursorsOf(t)
      <4>1. cursor'[k] = cursor[k] /\ cursor[k].txn \notin Nest(t)
        BY <2>2, <2>4, <2>5, <3>3 DEF CursorsAfter, CursorsOf
      <4>. QED
        BY <1>0, <2>2, <2>3, <2>4, <4>1
    <3>. QED
      BY <3>2, <3>3
  <2>. QED
    BY <1>0, <1>b, <2>2, <2>3, <2>4, <2>5
<1>5. ASSUME NEW t \in Txns, TxnReset(t) \/ TxnRenew(t) PROVE Goal
  <2>1. /\ DOMAIN txn' = DOMAIN txn
        /\ \A u \in DOMAIN txn : txn'[u].env = txn[u].env
    BY <1>5, TypeFacts DEF TxnReset, TxnRenew, Txn
  <2>. QED
    BY <1>0, <1>5, <2>1 DEF TxnReset, TxnRenew, tables
<1>6. ASSUME NEW t \in Txns, NEW n \in Numbers, DbiOpen(t, n) \/ Drop(t, n)
      PROVE  Goal
  <2>1. /\ DOMAIN txn' = DOMAIN txn
        /\ \A u \in DOMAIN txn : txn'[u].env = txn[u].env
    BY <1>6, TypeFacts DEF DbiOpen, Drop, Txn
  <2>2. DOMAIN env' = DOMAIN env /\ UNCHANGED <<cursor, envH, txnH, curH>>
    BY <1>6 DEF DbiOpen, Drop, ClosedIn
  <2>. QED
    BY <1>0, <1>b, <2>1, <2>2
<1>7. ASSUME NEW e \in Envs, NEW n \in Numbers, DbiClose(e, n) PROVE Goal
  BY <1>0, <1>7, <1>b DEF DbiClose, ClosedIn
<1>8. ASSUME NEW t \in Txns, NEW n \in Numbers, NEW k \in Cursors,
             CursorOpen(t, n, k)
      PROVE  Goal
  <2>1. /\ DOMAIN cursor' = DOMAIN cursor \cup {k}
        /\ cursor'[k].txn = t
        /\ \A j \in DOMAIN cursor \ {k} : cursor'[j] = cursor[j]
    BY <1>8 DEF CursorOpen, With
  <2>2. curH \subseteq curH' /\ k \in curH' \cup Lost(load'["cur"])
    BY <1>8, HandleStep DEF CursorOpen, Kinds
  <2>3. t \in txnH
    BY <1>8 DEF CursorOpen
  <2>. QED
    BY <1>0, <1>8, <1>b, <2>1, <2>2, <2>3 DEF CursorOpen
<1>9. ASSUME NEW k \in Cursors, CursorClose(k) PROVE Goal
  <2>1. /\ DOMAIN cursor' = DOMAIN cursor \ {k}
        /\ \A j \in DOMAIN cursor' : cursor'[j] = cursor[j]
    BY <1>9 DEF CursorClose, Without
  <2>. QED
    BY <1>0, <1>9, <1>b, <2>1 DEF CursorClose
<1>10. ASSUME NEW t \in Txns, NEW k \in Cursors, CursorRenew(t, k)
       PROVE  Goal
  <2>1. /\ DOMAIN cursor' = DOMAIN cursor
        /\ cursor'[k].txn = t /\ t \in txnH
        /\ \A j \in DOMAIN cursor \ {k} : cursor'[j] = cursor[j]
    BY <1>10, TypeFacts DEF CursorRenew, Cursor
  <2>. QED
    BY <1>0, <1>10, <2>1 DEF CursorRenew, tables
<1>11. CASE UseStale
  BY <1>0, <1>11 DEF UseStale, objects, tables
<1>. QED
  BY <1>a, <1>1, <1>2, <1>3, <1>4, <1>5, <1>6, <1>7, <1>8, <1>9, <1>10, <1>11
     DEF Next, Step

\* Whatever the script does, whatever fails and for any number of objects, every
\* live environment, transaction and cursor has its handle in lmdb/lmdb.c but one
\* per size its table has outgrown, and the environment of a live transaction and
\* the transaction of a live cursor have theirs.
THEOREM ObjectsNamed == Spec => []LiveObjectsNamed
<1>1. Init => LiveObjectsNamed
  BY FirstLoad DEF Init, Nothing, LiveObjectsNamed, Named, LoadOK
<1>. QED
  BY <1>1, NextNamed, TypeCorrect, PTL DEF Spec

-----------------------------------------------------------------------------
(* The tables of a careful script.                                         *)

\* A careful step of a careful script leaves the tables exact.
LEMMA CarefulStepExact ==
  ASSUME TypeOK, TablesExact, careful, CarefulStep
  PROVE  /\ status' = "running"
         /\ envH' \subseteq DOMAIN env' /\ txnH' \subseteq DOMAIN txn'
         /\ curH' \subseteq DOMAIN cursor'
         /\ \A n \in dbiH' : \E e \in DOMAIN env' : n \in env'[e]
         /\ \A k \in DOMAIN cursor' : cursor'[k].dbi \in dbiH'
<1>. DEFINE Goal ==
       /\ status' = "running"
       /\ envH' \subseteq DOMAIN env' /\ txnH' \subseteq DOMAIN txn'
       /\ curH' \subseteq DOMAIN cursor'
       /\ \A n \in dbiH' : \E e \in DOMAIN env' : n \in env'[e]
       /\ \A k \in DOMAIN cursor' : cursor'[k].dbi \in dbiH'
<1>0. /\ status = "running"
      /\ envH \subseteq DOMAIN env /\ txnH \subseteq DOMAIN txn
      /\ curH \subseteq DOMAIN cursor
      /\ \A n \in dbiH : \E e \in DOMAIN env : n \in env[e]
      /\ \A k \in DOMAIN cursor : cursor[k].dbi \in dbiH
  BY DEF TablesExact
<1>1. ASSUME NEW e \in Envs, EnvCreate(e) PROVE Goal
  <2>1. DOMAIN env' = DOMAIN env \cup {e} /\ \A d \in DOMAIN env : env'[d] = env[d]
    BY <1>1 DEF EnvCreate, With
  <2>. QED
    BY <1>0, <1>1, <2>1 DEF EnvCreate, GetHandle, Entered
<1>2. ASSUME NEW e \in Envs, CarefulEnvClose(e) PROVE Goal
  <2>1. /\ DOMAIN env' = DOMAIN env \ {e}
        /\ \A d \in DOMAIN env \ {e} : env'[d] = env[d]
    BY <1>2 DEF CarefulEnvClose, EnvClose, Without
  <2>2. env[e] \cap dbiH = {}
    BY <1>2 DEF CarefulEnvClose, EnvClose
  <2>. QED
    BY <1>0, <1>2, <2>1, <2>2 DEF CarefulEnvClose, EnvClose
<1>3. ASSUME NEW e \in Envs, NEW p \in Txns \cup {NULL}, NEW w \in BOOLEAN,
             NEW t \in Txns, TxnBegin(e, p, w, t)
      PROVE  Goal
  <2>1. DOMAIN txn' = DOMAIN txn \cup {t}
    BY <1>3 DEF TxnBegin, With
  <2>. QED
    BY <1>0, <1>3, <2>1 DEF TxnBegin, GetHandle, Entered
<1>4. ASSUME NEW t \in DOMAIN txn, MayEnd(t),
             TxnCommit(t) \/ (NewIn(t) \cap dbiH = {} /\ TxnAbort(t))
      PROVE  Goal
  <2>1. Committed(t) \/ Aborted(t)
    BY <1>4 DEF TxnCommit, TxnAbort
  <2>2. Nest(t) = {t} /\ FreedCursors(t) = {}
    BY <1>4 DEF MayEnd, FreedCursors
  <2>3. /\ DOMAIN env' = DOMAIN env
        /\ DOMAIN txn' = DOMAIN txn \ {t}
        /\ DOMAIN cursor' = DOMAIN cursor
        /\ \A k \in DOMAIN cursor : cursor'[k].dbi = cursor[k].dbi
    BY <2>1, <2>2, EndStep, EndFacts
  <2>4. \A e \in DOMAIN env, n \in dbiH : n \in env[e] => n \in env'[e]
    BY <1>4 DEF TxnCommit, TxnAbort, Committed, Aborted
  <2>. QED
    BY <1>0, <1>4, <2>3, <2>4 DEF TxnCommit, TxnAbort
<1>5. ASSUME NEW t \in Txns, TxnReset(t) \/ TxnRenew(t) PROVE Goal
  BY <1>0, <1>5 DEF TxnReset, TxnRenew, tables
<1>6. ASSUME NEW t \in Txns, NEW n \in Numbers \ dbiH, DbiOpen(t, n) PROVE Goal
  <2>1. t \in DOMAIN txn /\ txn[t].env \in DOMAIN env
    BY <1>6, TypeFacts DEF DbiOpen
  <2>2. /\ DOMAIN env' = DOMAIN env /\ DOMAIN txn' = DOMAIN txn
        /\ \A e \in DOMAIN env : env[e] \subseteq env'[e]
        /\ n \in env'[txn[t].env]
    BY <1>6, <2>1 DEF DbiOpen
  <2>. QED
    BY <1>0, <1>6, <2>1, <2>2 DEF DbiOpen, GetHandle, Entered
<1>7. ASSUME NEW n \in Numbers, NoCursorOn(n),
             \/ \E e \in DOMAIN env : n \in env[e] /\ DbiClose(e, n)
             \/ \E t \in Txns : Drop(t, n)
      PROVE  Goal
  <2>1. /\ \E e \in DOMAIN env : ClosedIn(e, n)
        /\ dbiH' = dbiH \ {n}
        /\ UNCHANGED <<txn, cursor, envH, txnH, curH, status>>
    BY <1>7, TypeFacts DEF DbiClose, Drop
  <2>2. /\ DOMAIN env' = DOMAIN env
        /\ \A e \in DOMAIN env : env[e] \ {n} \subseteq env'[e]
    BY <2>1 DEF ClosedIn
  <2>3. \A k \in DOMAIN cursor : cursor[k].dbi # n
    BY <1>7 DEF NoCursorOn
  <2>. QED
    BY <1>0, <2>1, <2>2, <2>3
<1>8. ASSUME NEW t \in Txns, NEW n \in Numbers, NEW k \in Cursors,
             CursorOpen(t, n, k)
      PROVE  Goal
  <2>1. /\ DOMAIN cursor' = DOMAIN cursor \cup {k}
        /\ cursor'[k].dbi = n
        /\ \A j \in DOMAIN cursor \ {k} : cursor'[j] = cursor[j]
    BY <1>8 DEF CursorOpen, With
  <2>. QED
    BY <1>0, <1>8, <2>1 DEF CursorOpen, GetHandle, Entered
<1>9. ASSUME NEW k \in Cursors, CursorClose(k) PROVE Goal
  BY <1>0, <1>9 DEF CursorClose, Without
<1>10. ASSUME NEW t \in Txns, NEW k \in Cursors, CursorRenew(t, k) PROVE Goal
  <2>1. /\ DOMAIN cursor' = DOMAIN cursor
        /\ \A j \in DOMAIN cursor : cursor'[j].dbi = cursor[j].dbi
    BY <1>10, TypeFacts DEF CursorRenew, Cursor
  <2>. QED
    BY <1>0, <1>10, <2>1 DEF CursorRenew, tables
<1>. QED
  BY <1>1, <1>2, <1>3, <1>4, <1>5, <1>6, <1>7, <1>8, <1>9, <1>10 DEF CarefulStep

\* A script that keeps to the rules meets no dangling handle and no error of
\* lmdb/lmdb.c that is called corruption, for any number of objects.
THEOREM CarefulScriptsExact == Spec => []TablesExact
<1>1. Init => TablesExact
  BY DEF Init, Nothing, TablesExact
<1>2. TypeOK /\ TablesExact /\ [Next]_vars => TablesExact'
  <2>. SUFFICES ASSUME TypeOK, TablesExact, [Next]_vars, careful'
                PROVE  TablesExact'
    BY DEF TablesExact
  <2>1. CASE UNCHANGED vars
    BY <2>1 DEF vars, TablesExact
  <2>2. CASE Next
    <3>1. careful /\ CarefulStep
      BY <2>2 DEF Next
    <3>. QED
      BY <3>1, CarefulStepExact DEF TablesExact
  <2>. QED
    BY <2>1, <2>2
<1>. QED
  BY <1>1, <1>2, TypeCorrect, PTL DEF Spec

=============================================================================
