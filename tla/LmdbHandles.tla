---------------------------- MODULE LmdbHandles -----------------------------
(***************************************************************************)
(* The handle tables of lmdb/lmdb.c over the objects of LMDB (external).   *)
(* awk code names environments, transactions and cursors by strings        *)
(* rendered from their addresses, and databases by strings rendered from   *)
(* their MDB_dbi number, which LMDB assigns per environment.  Each kind    *)
(* has one table from handles to pointers.  LMDB ends objects on its own:  *)
(* a transaction that commits or aborts takes its child and, if it writes, *)
(* its cursors with it, and a commit that fails ends it all the same.      *)
(* The tables learn only of what the functions of the extension release.   *)
(*                                                                         *)
(* A handle is modelled by what it is rendered from.  LMDB may reuse the   *)
(* address of an ended object at once.  A table loses the handle whose     *)
(* insertion makes it grow (TableLoad): its object lives on without one.   *)
(***************************************************************************)
EXTENDS TableLoad, FiniteSets

CONSTANTS
  Envs, Txns, Cursors,  \* the addresses of the objects of each kind
  Numbers,              \* the MDB_dbi numbers in use
  MAIN_DBI,             \* that of the unnamed database, open in every env
  NULL

ASSUME LmdbAssumption ==
  /\ MAIN_DBI \in Numbers
  /\ NULL \notin Envs \cup Txns \cup Cursors

VARIABLES
  env,      \* live environments: the numbers of the databases open in each
  txn,      \* live transactions
  cursor,   \* live cursors: the transaction and the database of each
  envH, txnH, dbiH, curH,  \* the handles in the table of each kind
  load,     \* the size of the table of each kind, and what growing cost it
  status,   \* "running", "fatal" (the extension gave up) or "undefined"
  careful   \* whether the script has kept to the rules so far

objects == <<env, txn, cursor>>
tables == <<envH, txnH, dbiH, curH, load>>
vars == <<env, txn, cursor, envH, txnH, dbiH, curH, load, status, careful>>

Kinds == {"env", "txn", "dbi", "cur"}

-----------------------------------------------------------------------------
(* The objects of LMDB.                                                    *)

Txn == [env : Envs, parent : Txns \cup {NULL}, above : SUBSET Txns,
        write : BOOLEAN, active : BOOLEAN, new : SUBSET Numbers]

Without(f, S) == [x \in DOMAIN f \ S |-> f[x]]

With(f, x, v) == [y \in DOMAIN f \cup {x} |-> IF y = x THEN v ELSE f[y]]

TxnsOf(e) == {t \in DOMAIN txn : txn[t].env = e}

\* The live transactions nested in t, and t.
Nest(t) == {u \in DOMAIN txn : u = t \/ t \in txn[u].above}

\* A transaction whose child is live, or that was reset, cannot be used.
Usable(t) == txn[t].active /\ Nest(t) = {t}

\* The cursors LMDB frees when t ends: those of its nest if it writes.
CursorsOf(t) == {k \in DOMAIN cursor : cursor[k].txn \in Nest(t)}

FreedCursors(t) == IF txn[t].write THEN CursorsOf(t) ELSE {}

NewIn(t) == UNION {txn[u].new : u \in Nest(t)}

\* The other cursors outlive it and belong to no transaction until renewed.
CursorsAfter(t) ==
  [k \in DOMAIN cursor \ FreedCursors(t) |->
     IF k \in CursorsOf(t) THEN [cursor[k] EXCEPT !.txn = NULL] ELSE cursor[k]]

\* t commits: a parent inherits the databases t opened.
Committed(t) ==
  LET p == txn[t].parent IN
    /\ txn' = Without(IF p = NULL THEN txn
                      ELSE [txn EXCEPT ![p].new = @ \cup NewIn(t)], Nest(t))
    /\ cursor' = CursorsAfter(t)
    /\ UNCHANGED env

\* t aborts: the databases it opened are closed again.
Aborted(t) ==
  /\ txn' = Without(txn, Nest(t))
  /\ cursor' = CursorsAfter(t)
  /\ env' = [env EXCEPT ![txn[t].env] = @ \ (NewIn(t) \ {MAIN_DBI})]

-----------------------------------------------------------------------------
TypeOK ==
  /\ DOMAIN env \subseteq Envs
  /\ env \in [DOMAIN env -> SUBSET Numbers]
  /\ DOMAIN txn \subseteq Txns
  /\ txn \in [DOMAIN txn -> Txn]
  /\ \A t \in DOMAIN txn : txn[t].env \in DOMAIN env
  /\ DOMAIN cursor \subseteq Cursors
  /\ cursor \in [DOMAIN cursor -> [txn : Txns \cup {NULL}, env : Envs,
                                dbi : Numbers]]
  /\ envH \subseteq Envs /\ txnH \subseteq Txns
  /\ dbiH \subseteq Numbers /\ curH \subseteq Cursors
  /\ DOMAIN load = Kinds
  /\ \A kind \in Kinds : LoadOK(load[kind])
  /\ status \in {"running", "fatal", "undefined"}
  /\ careful \in BOOLEAN

Nothing == [x \in {} |-> NULL]

Init ==
  /\ env = Nothing /\ txn = Nothing /\ cursor = Nothing
  /\ envH = {} /\ txnH = {} /\ dbiH = {} /\ curH = {}
  /\ load = [kind \in Kinds |-> NewLoad]
  /\ status = "running"
  /\ careful = TRUE

Running == status = "running"

\* get_handle gives up when the table already has the handle, and else counts
\* it in.
GetHandle(kind, table, h) ==
  /\ status' = IF h \in table THEN "fatal" ELSE "running"
  /\ load' = IF h \in table THEN load
             ELSE [load EXCEPT ![kind] = Inserted(@, h)]

\* The handles the table has then.
Entered(kind, table, h) ==
  IF Grows(load[kind]) THEN table ELSE table \cup {h}

\* release_handle of a handle the table has.
ReleaseHandle(kind) == load' = [load EXCEPT ![kind] = Released(@)]

-----------------------------------------------------------------------------
(* Environments.                                                           *)

EnvCreate(e) ==
  /\ Running
  /\ e \in Envs \ DOMAIN env
  /\ env' = With(env, e, {MAIN_DBI})
  /\ GetHandle("env", envH, e)
  /\ envH' = Entered("env", envH, e)
  /\ UNCHANGED <<txn, cursor, txnH, dbiH, curH>>

\* LMDB wants all transactions of an environment ended before it is closed.
\* Only the handle of the environment itself is released.
EnvClose(e) ==
  /\ Running
  /\ e \in envH \cap DOMAIN env
  /\ TxnsOf(e) = {}
  /\ env' = Without(env, {e})
  /\ envH' = envH \ {e} /\ ReleaseHandle("env")
  /\ UNCHANGED <<txn, cursor, txnH, dbiH, curH, status>>

-----------------------------------------------------------------------------
(* Transactions.                                                           *)

\* LMDB lets an environment have one top-level writer and, for one thread, one
\* reader; only a writer has children, one at a time.
MayBegin(e, parent, write) ==
  IF parent = NULL
  THEN \A t \in TxnsOf(e) : txn[t].write # write
  ELSE parent \in TxnsOf(e) /\ txn[parent].write /\ write /\ Usable(parent)

TxnBegin(e, parent, write, t) ==
  /\ Running
  /\ e \in envH \cap DOMAIN env
  /\ parent = NULL \/ parent \in txnH \cap DOMAIN txn
  /\ MayBegin(e, parent, write)
  /\ t \in Txns \ DOMAIN txn
  /\ txn' = With(txn, t,
       [env |-> e, parent |-> parent, write |-> write, active |-> TRUE,
        new |-> {}, above |-> IF parent = NULL THEN {}
                              ELSE txn[parent].above \cup {parent}])
  /\ GetHandle("txn", txnH, t)
  /\ txnH' = Entered("txn", txnH, t)
  /\ UNCHANGED <<env, cursor, envH, dbiH, curH>>

TxnCommit(t) ==
  /\ Running
  /\ t \in txnH \cap DOMAIN txn
  /\ Committed(t)
  /\ txnH' = txnH \ {t} /\ ReleaseHandle("txn")
  /\ UNCHANGED <<envH, dbiH, curH, status>>

\* The commit fails, for want of space for instance: LMDB aborts and frees the
\* transaction, but its handle is released only on success.
TxnCommitFails(t) ==
  /\ Running
  /\ t \in txnH \cap DOMAIN txn
  /\ txn[t].write
  /\ Aborted(t)
  /\ UNCHANGED <<tables, status>>

TxnAbort(t) ==
  /\ Running
  /\ t \in txnH \cap DOMAIN txn
  /\ Aborted(t)
  /\ txnH' = txnH \ {t} /\ ReleaseHandle("txn")
  /\ UNCHANGED <<envH, dbiH, curH, status>>

\* Mutant of TxnReset: the handle is released as in mdb_txn_abort.
TxnResetReleases(t) ==
  /\ Running
  /\ t \in txnH \cap DOMAIN txn
  /\ ~txn[t].write /\ txn[t].active
  /\ txn' = [txn EXCEPT ![t].active = FALSE]
  /\ txnH' = txnH \ {t} /\ ReleaseHandle("txn")
  /\ UNCHANGED <<env, cursor, envH, dbiH, curH, status>>

\* A reader gives up its snapshot and takes a new one later.
TxnReset(t) ==
  /\ Running
  /\ t \in txnH \cap DOMAIN txn
  /\ ~txn[t].write /\ txn[t].active
  /\ txn' = [txn EXCEPT ![t].active = FALSE]
  /\ UNCHANGED <<env, cursor, tables, status>>

TxnRenew(t) ==
  /\ Running
  /\ t \in txnH \cap DOMAIN txn
  /\ ~txn[t].write /\ ~txn[t].active
  /\ txn' = [txn EXCEPT ![t].active = TRUE]
  /\ UNCHANGED <<env, cursor, tables, status>>

-----------------------------------------------------------------------------
(* Databases.                                                              *)

\* Opening an open database yields the number it has.
DbiOpen(t, n) ==
  /\ Running
  /\ t \in txnH \cap DOMAIN txn
  /\ Usable(t)
  /\ LET e == txn[t].env IN
       /\ env' = [env EXCEPT ![e] = @ \cup {n}]
       /\ txn' = [txn EXCEPT ![t].new = IF n \in env[e] THEN @ ELSE @ \cup {n}]
  /\ GetHandle("dbi", dbiH, n)
  /\ dbiH' = Entered("dbi", dbiH, n)
  /\ UNCHANGED <<cursor, envH, txnH, curH>>

\* The unnamed database stays open.
ClosedIn(e, n) == env' = [env EXCEPT ![e] = @ \ ({n} \ {MAIN_DBI})]

DbiClose(e, n) ==
  /\ Running
  /\ e \in envH \cap DOMAIN env
  /\ n \in dbiH
  /\ ClosedIn(e, n)
  /\ dbiH' = dbiH \ {n} /\ ReleaseHandle("dbi")
  /\ UNCHANGED <<txn, cursor, envH, txnH, curH, status>>

\* Mutant of Drop: the handle stays.
DropKeeps(t, n) ==
  /\ Running
  /\ t \in txnH \cap DOMAIN txn
  /\ Usable(t) /\ txn[t].write
  /\ n \in dbiH /\ n \in env[txn[t].env]
  /\ ClosedIn(txn[t].env, n)
  /\ UNCHANGED <<txn, cursor, tables, status>>

\* mdb_drop with del = 1; with del = 0 it changes no handle.
Drop(t, n) ==
  /\ Running
  /\ t \in txnH \cap DOMAIN txn
  /\ Usable(t) /\ txn[t].write
  /\ n \in dbiH /\ n \in env[txn[t].env]
  /\ ClosedIn(txn[t].env, n)
  /\ dbiH' = dbiH \ {n} /\ ReleaseHandle("dbi")
  /\ UNCHANGED <<txn, cursor, envH, txnH, curH, status>>

-----------------------------------------------------------------------------
(* Cursors.                                                                *)

CursorOpen(t, n, k) ==
  /\ Running
  /\ t \in txnH \cap DOMAIN txn
  /\ Usable(t)
  /\ n \in dbiH /\ n \in env[txn[t].env]
  /\ k \in Cursors \ DOMAIN cursor
  /\ cursor' = With(cursor, k, [txn |-> t, env |-> txn[t].env, dbi |-> n])
  /\ GetHandle("cur", curH, k)
  /\ curH' = Entered("cur", curH, k)
  /\ UNCHANGED <<env, txn, envH, txnH, dbiH>>

CursorClose(k) ==
  /\ Running
  /\ k \in curH \cap DOMAIN cursor
  /\ cursor' = Without(cursor, {k})
  /\ curH' = curH \ {k} /\ ReleaseHandle("cur")
  /\ UNCHANGED <<env, txn, envH, txnH, dbiH, status>>

\* A cursor of a reader moves to another reader of the environment.
CursorRenew(t, k) ==
  /\ Running
  /\ t \in txnH \cap DOMAIN txn
  /\ Usable(t) /\ ~txn[t].write
  /\ k \in curH \cap DOMAIN cursor
  /\ cursor[k].env = txn[t].env
  /\ cursor[k].txn # NULL => ~txn[cursor[k].txn].write
  /\ cursor' = [cursor EXCEPT ![k].txn = t]
  /\ UNCHANGED <<env, txn, tables, status>>

-----------------------------------------------------------------------------
(* Any function called with a handle whose object LMDB has ended passes a  *)
(* dangling pointer to LMDB.                                               *)

UseStale ==
  /\ Running
  /\ \/ envH \ DOMAIN env # {}
     \/ txnH \ DOMAIN txn # {}
     \/ curH \ DOMAIN cursor # {}
  /\ status' = "undefined"
  /\ UNCHANGED <<objects, tables>>

Step ==
  \/ \E e \in Envs : EnvCreate(e) \/ EnvClose(e)
  \/ \E e \in Envs, p \in Txns \cup {NULL}, w \in BOOLEAN, t \in Txns :
       TxnBegin(e, p, w, t)
  \/ \E t \in Txns :
       \/ TxnCommit(t) \/ TxnCommitFails(t) \/ TxnAbort(t)
       \/ TxnReset(t) \/ TxnRenew(t)
  \/ \E t \in Txns, n \in Numbers : DbiOpen(t, n) \/ Drop(t, n)
  \/ \E e \in Envs, n \in Numbers : DbiClose(e, n)
  \/ \E t \in Txns, n \in Numbers, k \in Cursors : CursorOpen(t, n, k)
  \/ \E k \in Cursors : CursorClose(k)
  \/ \E t \in Txns, k \in Cursors : CursorRenew(t, k)
  \/ UseStale

-----------------------------------------------------------------------------
(* The rules by which a script keeps the tables exact.  They are the ones  *)
(* the C interface of LMDB has, and one more: a database is opened only    *)
(* while no handle bears its number, in this environment or another.       *)

NoCursorOn(n) == \A k \in DOMAIN cursor : cursor[k].dbi # n

MayEnd(t) == Nest(t) = {t} /\ CursorsOf(t) = {}

CarefulEnvClose(e) ==
  /\ e \in DOMAIN env => env[e] \cap dbiH = {}
  /\ \A k \in DOMAIN cursor : cursor[k].env # e
  /\ EnvClose(e)

CarefulStep ==
  \/ \E e \in Envs : EnvCreate(e) \/ CarefulEnvClose(e)
  \/ \E e \in Envs, p \in Txns \cup {NULL}, w \in BOOLEAN, t \in Txns :
       TxnBegin(e, p, w, t)
  \/ \E t \in DOMAIN txn :
       /\ MayEnd(t)
       /\ TxnCommit(t) \/ (NewIn(t) \cap dbiH = {} /\ TxnAbort(t))
  \/ \E t \in Txns : TxnReset(t) \/ TxnRenew(t)
  \/ \E t \in Txns, n \in Numbers \ dbiH : DbiOpen(t, n)
  \/ \E n \in Numbers :
       /\ NoCursorOn(n)
       /\ \/ \E e \in DOMAIN env : n \in env[e] /\ DbiClose(e, n)
          \/ \E t \in Txns : Drop(t, n)
  \/ \E t \in Txns, n \in Numbers, k \in Cursors : CursorOpen(t, n, k)
  \/ \E k \in Cursors : CursorClose(k)
  \/ \E t \in Txns, k \in Cursors : CursorRenew(t, k)

Next == Step /\ careful' = (careful /\ CarefulStep)

Spec == Init /\ [][Next]_vars

-----------------------------------------------------------------------------
(* Properties.                                                             *)

\* What a table lacks, its growth has lost.
Named(objs, table, kind) == objs \ table \subseteq Lost(load[kind])

\* Whatever the script does, every live object has its handle, or is one of at
\* most one object per size its table has outgrown that never got into it: it
\* can be ended again, and find_handle finds the environment of every live
\* transaction and the transaction of every live cursor (mdb_txn_env,
\* mdb_cursor_txn), which it calls corruption when it does not.
LiveObjectsNamed ==
  /\ Named(DOMAIN env, envH, "env")
  /\ Named(DOMAIN txn, txnH, "txn")
  /\ Named(DOMAIN cursor, curH, "cur")
  /\ \A kind \in Kinds :
       DOMAIN load[kind].lost \subseteq Outgrown(load[kind].size)
  /\ \A t \in DOMAIN txn : txn[t].env \in envH
  /\ \A k \in DOMAIN cursor : cursor[k].txn \in txnH \cup {NULL}

\* A careful script whose commits succeed never meets a dangling handle nor one
\* of the errors the extension calls corruption: each handle stands for a live
\* object, a database handle for a database open in some environment, and the
\* database of a cursor has its handle (mdb_cursor_dbi).
TablesExact ==
  careful =>
    /\ status = "running"
    /\ envH \subseteq DOMAIN env
    /\ txnH \subseteq DOMAIN txn
    /\ curH \subseteq DOMAIN cursor
    /\ dbiH \subseteq UNION {env[e] : e \in DOMAIN env}
    /\ \A k \in DOMAIN cursor : cursor[k].dbi \in dbiH

\* The assertion of get_handle, "corruption detected: handle is not unique".
HandlesUnique == status # "fatal"
=============================================================================
