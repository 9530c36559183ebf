------------------------------ MODULE KeyCache ------------------------------
(***************************************************************************)
(* The local cache of keys: the tables keys and key_attributes of an       *)
(* SQLite database that every process with a key agent opens, one SQL      *)
(* statement per step.                                                     *)
(*                                                                         *)
(* A key is stored in three statements: its row, a look at the id the row  *)
(* got, and, for an RSA key, a row with its data.  Nothing makes the three *)
(* one transaction, so a process may die between any two, and others run   *)
(* in between.  A process that starts reads all rows and deletes those it  *)
(* cannot load.                                                            *)
(*                                                                         *)
(* libgda commits every statement by itself and enforces foreign keys, its *)
(* default: a row of keys that a row of key_attributes refers to cannot be *)
(* deleted or replaced.  Within a process the agent's lock lets one key be *)
(* stored at a time.                                                       *)
(***************************************************************************)
EXTENDS Naturals

CONSTANTS
  Processes,   \* processes that open the database
  Urls,        \* key urls
  RsaUrls,     \* those of RSA keys; the rows of others have no attributes
  SqlMayFail,  \* whether statements may fail for reasons of their own
  MaxRows,     \* bound: rows of keys inserted in one run
  NoUrl        \* no key is being stored

ASSUME KeyCacheAssumption ==
  /\ RsaUrls \subseteq Urls
  /\ SqlMayFail \in BOOLEAN
  /\ MaxRows \in Nat
  /\ NoUrl \notin Urls

VARIABLES
  keys,            \* the table of keys
  key_attributes,  \* the ids that have a KEYDATA row in key_attributes
  last_id,         \* the last id handed out by AUTOINCREMENT
  proc,            \* per process: where it is, and what it has in memory
  disturbed        \* history: a process loaded the cache while another stored a key,
                   \* or a statement failed for a reason of its own

tables == <<keys, key_attributes, last_id>>
cacheVars == <<tables, proc, disturbed>>

-----------------------------------------------------------------------------
Ids == 1..MaxRows

Row == [id : Ids, url : Urls]

LoadPcs  == {"load", "prune_attrs", "prune_key"}
StorePcs == {"get_key", "insert_attr", "undo_attrs", "undo_key"}

\* A process: the rows of global_model still to be looked at, ret, the ids in
\* global_delete_list, the key being stored with its cache_id (-1 is 0 here),
\* and the result of the last __keyagent_cache_key with its url.
Process ==
  [pc : {"down", "running"} \cup LoadPcs \cup StorePcs,
   model : SUBSET Row, ret : BOOLEAN, delete_list : SUBSET Ids,
   url : Urls \cup {NoUrl}, cache_id : 0..MaxRows, stored : BOOLEAN]

Down == [pc |-> "down", model |-> {}, ret |-> FALSE, delete_list |-> {},
         url |-> NoUrl, cache_id |-> 0, stored |-> FALSE]

-----------------------------------------------------------------------------
(* The database. *)

\* Whether a statement fails for a reason of its own.
Failures == IF SqlMayFail THEN BOOLEAN ELSE {FALSE}

RowsOf(u) == {r \in keys : r.url = u}

Whole(r) == r.url \in RsaUrls => r.id \in key_attributes

\* Variant: url is not UNIQUE.
replaced_rows_none(u) == {}

\* url VARCHAR (256) NOT NULL UNIQUE ON CONFLICT REPLACE
replaced_rows(u) == RowsOf(u)

IsFirst(i, ids) == i \in ids /\ \A j \in ids : i <= j

At(p, pc) == proc[p].pc = pc

\* Process p goes on as q.  The history notes whether its statement failed, and
\* whether a process is loading while another is storing.
Becomes(p, q, failed) ==
  /\ proc' = [proc EXCEPT ![p] = q]
  /\ disturbed' =
       (disturbed \/ failed \/ \E a, b \in Processes :
                                 proc'[a].pc \in LoadPcs /\ proc'[b].pc \in StorePcs)

-----------------------------------------------------------------------------
CacheInit ==
  /\ keys = {}
  /\ key_attributes = {}
  /\ last_id = 0
  /\ proc = [p \in Processes |-> Down]
  /\ disturbed = FALSE

-----------------------------------------------------------------------------
(* __keyagent_cache_loadkeys. *)

\* Where a load goes with these rows to look at and these ids to delete.
load_pc(model, ids) ==
  IF model # {} THEN "load" ELSE IF ids # {} THEN "prune_attrs" ELSE "running"

\* The tables are created if they are not there, and all rows of keys read.  If
\* they cannot be read, keyagent_init fails and the process has no agent.
cache_init(p) ==
  /\ At(p, "down")
  /\ Becomes(p, [Down EXCEPT !.pc = load_pc(keys, {}), !.model = keys], FALSE)
  /\ UNCHANGED tables

\* Variant: one row that cannot be loaded spoils those after it.
row_loads_all(p, r, found) == proc[p].ret /\ (r.url \in RsaUrls => found)

\* Variant: the data of an RSA key is not looked for.
row_loads_unread(p, r, found) == r.url \in RsaUrls \/ proc[p].ret

\* ret after row r: for a key that is not RSA, what it was after the row before.
row_loads(p, r, found) == IF r.url \in RsaUrls THEN found ELSE proc[p].ret

\* One row, in the order of ids, with the SELECT of its KEYDATA.
load_row(p) ==
  /\ At(p, "load")
  /\ \E r \in proc[p].model, failed \in Failures :
       /\ IsFirst(r.id, {s.id : s \in proc[p].model})
       /\ LET rows == proc[p].model \ {r}
              ok   == row_loads(p, r, r.id \in key_attributes /\ ~failed)
              ids  == IF ok THEN proc[p].delete_list ELSE proc[p].delete_list \cup {r.id}
          IN Becomes(p, [proc[p] EXCEPT !.pc = load_pc(rows, ids), !.model = rows,
                                        !.ret = ok, !.delete_list = ids], failed)
  /\ UNCHANGED tables

\* DELETE FROM key_attributes; its failure is logged and no more.
delete_attrs(id, failed) ==
  /\ key_attributes' = IF failed THEN key_attributes ELSE key_attributes \ {id}
  /\ UNCHANGED <<keys, last_id>>

\* DELETE FROM keys, which key_attributes may still refer to.  No row refers to
\* keys from key_policy_attributes, the third table to be cleared.
delete_row(id, failed) ==
  /\ keys' = IF failed \/ id \in key_attributes THEN keys ELSE {r \in keys : r.id # id}
  /\ UNCHANGED <<key_attributes, last_id>>

prune_attrs(p) ==
  /\ At(p, "prune_attrs")
  /\ \E id \in Ids, failed \in Failures :
       /\ IsFirst(id, proc[p].delete_list)
       /\ delete_attrs(id, failed)
       /\ Becomes(p, [proc[p] EXCEPT !.pc = "prune_key"], failed)

prune_key(p) ==
  /\ At(p, "prune_key")
  /\ \E id \in Ids, failed \in Failures :
       LET ids == proc[p].delete_list \ {id}
       IN /\ IsFirst(id, proc[p].delete_list)
          /\ delete_row(id, failed)
          /\ Becomes(p, [proc[p] EXCEPT !.pc = load_pc({}, ids), !.delete_list = ids], failed)

-----------------------------------------------------------------------------
(* __keyagent_cache_key. *)

\* It returns; the key keeps cache_id in memory.
Stored(p, ok) == [proc[p] EXCEPT !.pc = "running", !.stored = ok]

\* INSERT INTO keys.
cache_key(p, u) ==
  /\ At(p, "running")
  /\ last_id < MaxRows  \* bound
  /\ \E failed \in Failures :
       IF ~failed /\ \A r \in replaced_rows(u) : r.id \notin key_attributes
         THEN /\ last_id' = last_id + 1
              /\ keys' = (keys \ replaced_rows(u)) \cup {[id |-> last_id + 1, url |-> u]}
              /\ Becomes(p, [proc[p] EXCEPT !.pc = "get_key", !.url = u, !.cache_id = 0,
                                            !.stored = FALSE], FALSE)
         ELSE /\ Becomes(p, [proc[p] EXCEPT !.url = u, !.cache_id = 0, !.stored = FALSE],
                         failed)
              /\ UNCHANGED <<keys, last_id>>
  /\ UNCHANGED key_attributes

\* __get_key: the row the url has now, which need not be the one inserted.  If it
\* has none, reading a value of row 0 ends the process.
get_key(p) ==
  /\ At(p, "get_key")
  /\ \/ \E r \in RowsOf(proc[p].url) :
          Becomes(p, IF r.url \in RsaUrls
                       THEN [proc[p] EXCEPT !.pc = "insert_attr", !.cache_id = r.id]
                       ELSE [Stored(p, TRUE) EXCEPT !.cache_id = r.id], FALSE)
     \/ RowsOf(proc[p].url) = {} /\ Becomes(p, Down, FALSE)
     \/ SqlMayFail /\ Becomes(p, Stored(p, FALSE), TRUE)
  /\ UNCHANGED tables

\* Variant: the result of the INSERT is not looked at.
insert_attr_unchecked(p) ==
  /\ At(p, "insert_attr")
  /\ \E failed \in Failures :
       /\ key_attributes' = IF ~failed /\ \E r \in keys : r.id = proc[p].cache_id
                            THEN key_attributes \cup {proc[p].cache_id} ELSE key_attributes
       /\ Becomes(p, Stored(p, TRUE), failed)
  /\ UNCHANGED <<keys, last_id>>

\* INSERT INTO key_attributes, which replaces a KEYDATA row the id may have; the
\* id must be that of a row.
insert_attr(p) ==
  /\ At(p, "insert_attr")
  /\ \E failed \in Failures :
       IF ~failed /\ \E r \in keys : r.id = proc[p].cache_id
         THEN /\ key_attributes' = key_attributes \cup {proc[p].cache_id}
              /\ Becomes(p, Stored(p, TRUE), FALSE)
         ELSE /\ Becomes(p, [proc[p] EXCEPT !.pc = "undo_attrs"], failed)
              /\ UNCHANGED key_attributes
  /\ UNCHANGED <<keys, last_id>>

\* __delete_key_and_attrs of a row whose data was not stored.
undo_attrs(p) ==
  /\ At(p, "undo_attrs")
  /\ \E failed \in Failures :
       /\ delete_attrs(proc[p].cache_id, failed)
       /\ Becomes(p, [proc[p] EXCEPT !.pc = "undo_key"], failed)

undo_key(p) ==
  /\ At(p, "undo_key")
  /\ \E failed \in Failures :
       /\ delete_row(proc[p].cache_id, failed)
       /\ Becomes(p, Stored(p, FALSE), failed)

-----------------------------------------------------------------------------
\* A process ends, or dies, wherever it is.
crash(p) ==
  /\ ~At(p, "down")
  /\ Becomes(p, Down, FALSE)
  /\ UNCHANGED tables

CacheNext ==
  \E p \in Processes :
    \/ cache_init(p) \/ load_row(p) \/ prune_attrs(p) \/ prune_key(p)
    \/ \E u \in Urls : cache_key(p, u)
    \/ get_key(p) \/ insert_attr(p) \/ undo_attrs(p) \/ undo_key(p)
    \/ crash(p)

CacheSpec == CacheInit /\ [][CacheNext]_cacheVars

-----------------------------------------------------------------------------
\* Besides the types: no two rows share an id or a url, and no KEYDATA row is
\* without its key's row.
CacheTypeOK ==
  /\ keys \subseteq Row
  /\ \A r, s \in keys : r.id = s.id \/ r.url = s.url => r = s
  /\ key_attributes \subseteq {r.id : r \in keys}
  /\ last_id \in 0..MaxRows
  /\ proc \in [Processes -> Process]
  /\ disturbed \in BOOLEAN

-----------------------------------------------------------------------------
(* What the cache promises.  The first holds whatever statements fail and       *)
(* processes die or interleave.  The others hold as long as no statement has    *)
(* failed for a reason of its own, and no process has loaded the cache while    *)
(* another stored a key: the loader deletes the row of a key whose data is      *)
(* about to come.                                                               *)

\* __keyagent_cache_key returns TRUE only when the key is in the database, with
\* its data if it is an RSA key.
StoredMeansWhole ==
  [][\A p \in Processes :
       proc[p].pc \in StorePcs /\ proc'[p].pc = "running" /\ proc'[p].stored =>
         \E r \in keys' : r.url = proc[p].url /\ (r.url \in RsaUrls => r.id \in key_attributes')
    ]_cacheVars

\* An RSA key that is in the database with its data stays there, through storing
\* it again, restarts and crashes.
WholeKeysStay ==
  [][~disturbed' =>
       \A r \in keys : r.url \in RsaUrls /\ Whole(r) =>
         r \in keys' /\ r.id \in key_attributes']_cacheVars

\* A process that has loaded the cache leaves no RSA key in it without its data,
\* whatever died before half-way through storing or pruning one.
LoadRepairs ==
  [][~disturbed' =>
       \A p \in Processes :
         proc[p].pc \in LoadPcs /\ proc'[p].pc = "running" =>
           \A r \in keys' : r.url \in RsaUrls => r.id \in key_attributes']_cacheVars

=============================================================================
