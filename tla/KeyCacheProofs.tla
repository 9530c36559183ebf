--------------------------- MODULE KeyCacheProofs ---------------------------
(***************************************************************************)
(* Proofs about KeyCache, for every set of processes and urls and every    *)
(* bound on rows: an RSA key that is reported stored is stored whole, and  *)
(* it stays.                                                               *)
(***************************************************************************)
EXTENDS KeyCache, TLAPS

USE KeyCacheAssumption

-----------------------------------------------------------------------------
(* The inductive invariant. *)

\* Ids are never handed out twice: an id a process remembers is still that of the
\* row it read, or of none.
IdsInv ==
  /\ \A r \in keys : r.id <= last_id
  /\ \A p \in Processes :
       /\ \A r \in proc[p].model : r.id <= last_id /\ \A s \in keys : s.id = r.id => s = r
       /\ \A i \in proc[p].delete_list : i <= last_id
       /\ proc[p].cache_id <= last_id
       /\ proc[p].pc = "insert_attr" =>
            \A r \in keys : r.id = proc[p].cache_id => r.url = proc[p].url

\* The rows are read before any is deleted.
PruneInv ==
  \A p \in Processes : proc[p].pc \in {"prune_attrs", "prune_key"} => proc[p].model = {}

\* While the history is undisturbed, no load meets a store.
ApartInv ==
  ~disturbed => \A a, b \in Processes : ~(proc[a].pc \in LoadPcs /\ proc[b].pc \in StorePcs)

\* A process that is loading deletes no RSA key that has its data, and has yet to
\* look at, or to delete, each that has none.
LoadInv ==
  ~disturbed =>
    \A p \in Processes : proc[p].pc \in LoadPcs =>
      \A r \in keys : r.url \in RsaUrls =>
        /\ r.id \in proc[p].delete_list => r.id \notin key_attributes
        /\ r.id \in key_attributes \/ r \in proc[p].model \/ r.id \in proc[p].delete_list

\* What is undone is gone already: without a failure, data is refused only for
\* want of a row.
UndoInv ==
  ~disturbed =>
    \A p \in Processes : proc[p].pc \in {"undo_attrs", "undo_key"} =>
      \A r \in keys : r.id # proc[p].cache_id

CacheInv == CacheTypeOK /\ IdsInv /\ PruneInv /\ ApartInv /\ LoadInv /\ UndoInv

-----------------------------------------------------------------------------
LEMMA DownType ==
  /\ Down \in Process /\ Down.pc = "down" /\ Down.model = {}
  /\ Down.delete_list = {} /\ Down.cache_id = 0
  BY DEF Down, Process

LEMMA InitCacheInv == CacheInit => CacheInv
  <1> SUFFICES ASSUME CacheInit  PROVE CacheInv
    OBVIOUS
  <1>1. \A p \in Processes : proc[p] = Down
    BY DEF CacheInit
  <1>2. proc \in [Processes -> Process]
    BY DownType DEF CacheInit
  <1>a. last_id \in 0..MaxRows
    BY DEF CacheInit
  <1>3. CacheTypeOK
    BY <1>2, <1>a DEF CacheInit, CacheTypeOK
  <1>4. IdsInv
    BY <1>1, DownType DEF CacheInit, IdsInv
  <1>6. LoadInv /\ UndoInv
    BY DEF CacheInit, LoadInv, UndoInv
  <1>5. PruneInv /\ ApartInv
    BY <1>1, DownType DEF PruneInv, ApartInv, LoadPcs
  <1> QED BY <1>3, <1>4, <1>5, <1>6 DEF CacheInv

\* Whether a statement fails is a Boolean.
LEMMA FailuresType == \A failed \in Failures : failed \in BOOLEAN
  BY DEF Failures

\* What Becomes says of disturbed.
LEMMA BecomesApart ==
  ASSUME CacheTypeOK, NEW p \in Processes, NEW q \in Process, NEW failed \in BOOLEAN,
         Becomes(p, q, failed)
  PROVE  /\ proc' \in [Processes -> Process]
         /\ proc'[p] = q
         /\ \A o \in Processes \ {p} : proc'[o] = proc[o]
         /\ disturbed' \in BOOLEAN
         /\ disturbed \/ failed => disturbed'
         /\ ApartInv'
  BY DEF Becomes, CacheTypeOK, ApartInv

\* A step that moves one process and leaves the tables alone.
LEMMA ProcessStep ==
  ASSUME CacheInv, NEW p \in Processes, NEW q \in Process, NEW failed \in BOOLEAN,
         Becomes(p, q, failed), UNCHANGED tables,
         \A r \in q.model : r.id <= last_id /\ \A s \in keys : s.id = r.id => s = r,
         \A i \in q.delete_list : i <= last_id,
         q.cache_id <= last_id,
         q.pc = "insert_attr" => \A r \in keys : r.id = q.cache_id => r.url = q.url,
         q.pc \in {"prune_attrs", "prune_key"} => q.model = {},
         ~disturbed' /\ q.pc \in LoadPcs =>
           \A r \in keys : r.url \in RsaUrls =>
             /\ r.id \in q.delete_list => r.id \notin key_attributes
             /\ r.id \in key_attributes \/ r \in q.model \/ r.id \in q.delete_list,
         ~disturbed' /\ q.pc \in {"undo_attrs", "undo_key"} =>
           \A r \in keys : r.id # q.cache_id
  PROVE  CacheInv'
  <1>1. /\ proc' \in [Processes -> Process]
        /\ proc'[p] = q
        /\ \A o \in Processes \ {p} : proc'[o] = proc[o]
        /\ disturbed' \in BOOLEAN
        /\ disturbed => disturbed'
        /\ ApartInv'
    BY BecomesApart DEF CacheInv
  <1>2. CacheTypeOK'
    BY <1>1 DEF CacheInv, CacheTypeOK, tables
  <1>3. IdsInv'
    BY <1>1 DEF CacheInv, IdsInv, tables
  <1>4. PruneInv'
    BY <1>1 DEF CacheInv, PruneInv
  <1>5. LoadInv'
    BY <1>1 DEF CacheInv, LoadInv, tables
  <1>6. UndoInv'
    BY <1>1 DEF CacheInv, UndoInv, tables
  <1> QED BY <1>1, <1>2, <1>3, <1>4, <1>5, <1>6 DEF CacheInv

\* A step that deletes at most the attributes or the row of an id, which is not
\* that of an RSA key with its data unless the history is disturbed.
LEMMA DeleteStep ==
  ASSUME CacheInv, NEW p \in Processes, NEW q \in Process, NEW failed \in BOOLEAN,
         Becomes(p, q, failed), NEW id \in Ids,
         delete_attrs(id, failed) \/ delete_row(id, failed),
         ~disturbed' =>
           \A r \in keys : r.id = id /\ r.url \in RsaUrls => id \notin key_attributes,
         q.model = proc[p].model, q.delete_list \subseteq proc[p].delete_list,
         q.cache_id = proc[p].cache_id,
         q.pc # "insert_attr",
         q.pc \in {"prune_attrs", "prune_key"} => q.model = {},
         ~disturbed' /\ q.pc \in LoadPcs =>
           \A r \in keys' : r.url \in RsaUrls =>
             r.id \in key_attributes' \/ r \in q.model \/ r.id \in q.delete_list,
         q.pc \in LoadPcs => proc[p].pc \in LoadPcs,
         q.pc \in {"undo_attrs", "undo_key"} => proc[p].pc \in {"undo_attrs", "undo_key"}
  PROVE  CacheInv'
  <1>1. /\ proc' \in [Processes -> Process]
        /\ proc'[p] = q
        /\ \A o \in Processes \ {p} : proc'[o] = proc[o]
        /\ disturbed' \in BOOLEAN
        /\ disturbed => disturbed'
        /\ ApartInv'
    BY BecomesApart DEF CacheInv
  <1>0. key_attributes \subseteq {r.id : r \in keys}
    BY DEF CacheInv, CacheTypeOK
  <1>2. /\ keys' \subseteq keys
        /\ key_attributes' \subseteq key_attributes
        /\ last_id' = last_id
        /\ \A i \in key_attributes : i # id => i \in key_attributes'
        /\ key_attributes' \subseteq {r.id : r \in keys'}
    <2>1. CASE delete_attrs(id, failed)
      <3>1. keys' = keys /\ last_id' = last_id
            /\ (key_attributes' = key_attributes \ {id} \/ key_attributes' = key_attributes)
        BY <2>1 DEF delete_attrs
      <3> QED BY <3>1, <1>0
    <2>2. CASE delete_row(id, failed)
      <3>1. key_attributes' = key_attributes /\ last_id' = last_id
        BY <2>2 DEF delete_row
      <3>3. CASE ~failed /\ id \notin key_attributes
        <4>2. keys' = {r \in keys : r.id # id}
          BY <2>2, <3>3 DEF delete_row
        <4>3. ASSUME NEW i \in key_attributes  PROVE i \in {r.id : r \in keys'}
          <5>1. PICK r \in keys : r.id = i
            BY <1>0
          <5>2. r \in keys'
            BY <3>3, <4>2, <5>1
          <5> QED BY <5>1, <5>2
        <4> QED BY <3>1, <4>2, <4>3
      <3>4. CASE failed \/ id \in key_attributes
        <4>1. keys' = keys
          BY <2>2, <3>4 DEF delete_row
        <4> QED BY <3>1, <4>1, <1>0
      <3> QED BY <3>3, <3>4
    <2> QED BY <2>1, <2>2
  <1>3. key_attributes' \subseteq {r.id : r \in keys'}
    BY <1>2
  <1>4. CacheTypeOK'
    BY <1>1, <1>2, <1>3 DEF CacheInv, CacheTypeOK
  <1>5. IdsInv'
    BY <1>1, <1>2 DEF CacheInv, IdsInv
  <1>6. PruneInv'
    BY <1>1 DEF CacheInv, PruneInv
  <1>7. LoadInv'
    BY <1>1, <1>2 DEF CacheInv, LoadInv
  <1>8. UndoInv'
    BY <1>1, <1>2 DEF CacheInv, UndoInv
  <1> QED BY <1>1, <1>4, <1>5, <1>6, <1>7, <1>8 DEF CacheInv

\* A step of __delete_key_and_attrs after a failed store.
LEMMA UndoStep ==
  ASSUME CacheInv, NEW p \in Processes, NEW q \in Process, NEW failed \in BOOLEAN,
         Becomes(p, q, failed),
         proc[p].pc \in {"undo_attrs", "undo_key"},
         delete_attrs(proc[p].cache_id, failed) \/ delete_row(proc[p].cache_id, failed),
         q.pc \in {"undo_key", "running"},
         q.model = proc[p].model, q.delete_list = proc[p].delete_list,
         q.cache_id = proc[p].cache_id
  PROVE  CacheInv'
  <1>1. proc[p] \in Process /\ proc[p].cache_id \in 0..MaxRows
    BY DEF CacheInv, CacheTypeOK, Process
  <1>2. CASE proc[p].cache_id \in Ids
    <2>1. ~disturbed' => ~disturbed
      BY BecomesApart DEF CacheInv
    <2>2. ~disturbed' => \A r \in keys : r.id # proc[p].cache_id
      BY <2>1 DEF CacheInv, UndoInv
    <2> QED BY <1>2, <2>2, DeleteStep DEF LoadPcs
  <1>3. CASE proc[p].cache_id = 0
    <2>1. 0 \notin key_attributes /\ \A r \in keys : r.id # 0
      BY DEF CacheInv, CacheTypeOK, Row, Ids
    <2>2. UNCHANGED tables
      BY <1>3, <2>1 DEF delete_attrs, delete_row, tables
    <2>3. ~disturbed' => \A r \in keys : r.id # proc[p].cache_id
      BY <1>3, <2>1
    <2>4. /\ \A r \in proc[p].model : r.id <= last_id /\ \A s \in keys : s.id = r.id => s = r
          /\ \A i \in proc[p].delete_list : i <= last_id
          /\ proc[p].cache_id <= last_id
      BY DEF CacheInv, IdsInv
    <2> QED BY <2>2, <2>3, <2>4, ProcessStep DEF LoadPcs
  <1> QED BY <1>1, <1>2, <1>3 DEF Ids

-----------------------------------------------------------------------------
(* Every step keeps the invariant. *)

LEMMA StepCacheInv == CacheInv /\ [CacheNext]_cacheVars => CacheInv'
  <1> SUFFICES ASSUME CacheInv, [CacheNext]_cacheVars  PROVE CacheInv'
    OBVIOUS
  <1> USE DEF CacheInv
  <1>1. ASSUME NEW p \in Processes, cache_init(p)  PROVE CacheInv'
    <2> DEFINE q == [Down EXCEPT !.pc = load_pc(keys, {}), !.model = keys]
    <2>5. load_pc(keys, {}) \in {"load", "running"}
          /\ (load_pc(keys, {}) = "load" <=> keys # {})
      BY DEF load_pc
    <2>6. keys \in SUBSET Row
      BY DEF CacheTypeOK
    <2>1. /\ q \in Process /\ q.model = keys /\ q.delete_list = {} /\ q.cache_id = 0
          /\ q.pc \in {"load", "running"} /\ (q.pc = "load" <=> keys # {})
      BY <2>5, <2>6, DownType DEF Down, Process, LoadPcs
    <2>2. Becomes(p, q, FALSE) /\ UNCHANGED tables
      BY <1>1 DEF cache_init
    <2>3. \A r \in keys : \A s \in keys : r.id <= last_id /\ (s.id = r.id => s = r)
      BY DEF CacheTypeOK, IdsInv
    <2>4. 0 <= last_id
      BY DEF CacheTypeOK
    <2> HIDE DEF q
    <2> QED BY <2>1, <2>2, <2>3, <2>4, ProcessStep DEF LoadPcs
  <1>2. ASSUME NEW p \in Processes, load_row(p)  PROVE CacheInv'
    <2>1. PICK r \in proc[p].model, failed \in Failures :
            LET rows == proc[p].model \ {r}
                ok   == row_loads(p, r, r.id \in key_attributes /\ ~failed)
                ids  == IF ok THEN proc[p].delete_list ELSE proc[p].delete_list \cup {r.id}
            IN Becomes(p, [proc[p] EXCEPT !.pc = load_pc(rows, ids), !.model = rows,
                                          !.ret = ok, !.delete_list = ids], failed)
      BY <1>2 DEF load_row
    <2>0. failed \in BOOLEAN
      BY FailuresType
    <2> DEFINE rows == proc[p].model \ {r}
               ok   == row_loads(p, r, r.id \in key_attributes /\ ~failed)
               ids  == IF ok THEN proc[p].delete_list ELSE proc[p].delete_list \cup {r.id}
               q    == [proc[p] EXCEPT !.pc = load_pc(rows, ids), !.model = rows,
                                       !.ret = ok, !.delete_list = ids]
    <2>2. proc[p] \in Process /\ proc[p].pc = "load" /\ UNCHANGED tables
      BY <1>2 DEF load_row, At, CacheTypeOK
    <2>3. r \in Row /\ ok \in BOOLEAN
      BY <2>2 DEF Process, row_loads
    <2>4. load_pc(rows, ids) \in {"load", "prune_attrs", "running"}
      BY DEF load_pc
    <2>5. q \in Process
      BY <2>2, <2>3, <2>4 DEF Process, LoadPcs, Row
    <2>6. /\ q.model = rows /\ q.delete_list = ids /\ q.cache_id = proc[p].cache_id
          /\ q.pc = load_pc(rows, ids)
      BY <2>2 DEF Process
    <2>10. Becomes(p, q, failed)
      BY <2>1
    <2>7. ~disturbed' =>
            \A s \in keys : s.url \in RsaUrls =>
              /\ s.id \in ids => s.id \notin key_attributes
              /\ s.id \in key_attributes \/ s \in rows \/ s.id \in ids
      <3> SUFFICES ASSUME ~disturbed', NEW s \in keys, s.url \in RsaUrls
                   PROVE  /\ s.id \in ids => s.id \notin key_attributes
                          /\ s.id \in key_attributes \/ s \in rows \/ s.id \in ids
        OBVIOUS
      <3>1. ~disturbed
        BY <2>0, <2>5, <2>10, BecomesApart
      <3>0. ~failed
        BY <2>0, <2>5, <2>10, BecomesApart
      <3>2. /\ s.id \in proc[p].delete_list => s.id \notin key_attributes
            /\ s.id \in key_attributes \/ s \in proc[p].model \/ s.id \in proc[p].delete_list
        BY <2>2, <3>1 DEF LoadInv, LoadPcs
      <3>3. s.id = r.id => s = r
        BY DEF IdsInv
      <3>4. s = r => (ok <=> s.id \in key_attributes)
        BY <3>0 DEF row_loads
      <3> QED BY <3>2, <3>3, <3>4
    <2>8. /\ \A s \in rows : s.id <= last_id /\ \A o \in keys : o.id = s.id => o = s
          /\ \A i \in ids : i <= last_id
          /\ proc[p].cache_id <= last_id
      BY DEF IdsInv
    <2>9. load_pc(rows, ids) \in {"prune_attrs", "prune_key"} => rows = {}
      BY DEF load_pc
    <2> HIDE DEF rows, ids, ok, q
    <2> QED BY <2>0, <2>2, <2>4, <2>5, <2>6, <2>7, <2>8, <2>9, <2>10, ProcessStep
  <1>3. ASSUME NEW p \in Processes, prune_attrs(p)  PROVE CacheInv'
    <2>1. PICK id \in Ids, failed \in Failures :
            /\ id \in proc[p].delete_list
            /\ delete_attrs(id, failed)
            /\ Becomes(p, [proc[p] EXCEPT !.pc = "prune_key"], failed)
      BY <1>3 DEF prune_attrs, IsFirst
    <2>0. failed \in BOOLEAN
      BY FailuresType
    <2> DEFINE q == [proc[p] EXCEPT !.pc = "prune_key"]
    <2>2. proc[p] \in Process /\ proc[p].pc = "prune_attrs" /\ Becomes(p, q, failed)
      BY <1>3, <2>1 DEF prune_attrs, At, CacheTypeOK
    <2>3. /\ q \in Process /\ q.pc = "prune_key" /\ q.model = proc[p].model
          /\ q.delete_list = proc[p].delete_list /\ q.cache_id = proc[p].cache_id
      BY <2>2 DEF Process, LoadPcs
    <2> HIDE DEF q
    <2>4. q.model = {}
      BY <2>2, <2>3 DEF PruneInv
    <2>5. disturbed \/ failed => disturbed'
      BY <2>0, <2>2, <2>3, BecomesApart
    <2>6. ~disturbed' =>
            \A r \in keys : r.id = id /\ r.url \in RsaUrls => id \notin key_attributes
      BY <2>1, <2>2, <2>5 DEF LoadInv, LoadPcs
    <2>7. ~disturbed' =>
            \A r \in keys' : r.url \in RsaUrls =>
              r.id \in key_attributes' \/ r \in q.model \/ r.id \in q.delete_list
      BY <2>1, <2>2, <2>3, <2>5 DEF LoadInv, LoadPcs, delete_attrs
    <2>8. /\ q.pc # "insert_attr" /\ q.pc \notin {"undo_attrs", "undo_key"}
          /\ proc[p].pc \in LoadPcs /\ q.delete_list \subseteq proc[p].delete_list
      BY <2>2, <2>3 DEF LoadPcs
    <2> QED BY <2>0, <2>1, <2>2, <2>3, <2>4, <2>6, <2>7, <2>8, DeleteStep, ZenonT(60)
  <1>4. ASSUME NEW p \in Processes, prune_key(p)  PROVE CacheInv'
    <2>1. PICK id \in Ids, failed \in Failures :
            LET ids == proc[p].delete_list \ {id}
            IN /\ IsFirst(id, proc[p].delete_list)
               /\ delete_row(id, failed)
               /\ Becomes(p, [proc[p] EXCEPT !.pc = load_pc({}, ids), !.delete_list = ids], failed)
      BY <1>4 DEF prune_key
    <2>0. failed \in BOOLEAN
      BY FailuresType
    <2> DEFINE ids == proc[p].delete_list \ {id}
               q   == [proc[p] EXCEPT !.pc = load_pc({}, ids), !.delete_list = ids]
    <2>2. proc[p] \in Process /\ proc[p].pc = "prune_key" /\ Becomes(p, q, failed)
          /\ id \in proc[p].delete_list /\ delete_row(id, failed)
      BY <1>4, <2>1 DEF prune_key, At, CacheTypeOK, IsFirst
    <2>a. load_pc({}, ids) \in {"prune_attrs", "running"}
      BY DEF load_pc
    <2>3. /\ q \in Process /\ q.pc \in {"prune_attrs", "running"} /\ q.model = proc[p].model
          /\ q.delete_list = ids /\ q.cache_id = proc[p].cache_id
      BY <2>2, <2>a DEF Process, LoadPcs
    <2>5. disturbed \/ failed => disturbed'
      BY <2>0, <2>2, <2>3, BecomesApart
    <2>6. ~disturbed' =>
            \A r \in keys : r.id = id /\ r.url \in RsaUrls => id \notin key_attributes
      BY <2>2, <2>5 DEF LoadInv, LoadPcs
    <2>7. ~disturbed' =>
            \A r \in keys' : r.url \in RsaUrls =>
              r.id \in key_attributes' \/ r \in q.model \/ r.id \in q.delete_list
      <3> SUFFICES ASSUME ~disturbed', NEW r \in keys', r.url \in RsaUrls
                   PROVE  r.id \in key_attributes' \/ r \in q.model \/ r.id \in q.delete_list
        OBVIOUS
      <3>1. r \in keys /\ key_attributes' = key_attributes
            /\ (r.id = id => id \in key_attributes)
        BY <2>0, <2>2, <2>5 DEF delete_row
      <3>2. r.id \in key_attributes \/ r \in proc[p].model \/ r.id \in proc[p].delete_list
        BY <2>2, <2>5, <3>1 DEF LoadInv, LoadPcs
      <3> QED BY <2>3, <3>1, <3>2
    <2>8. q.model = {}
      BY <2>2, <2>3 DEF PruneInv
    <2> HIDE DEF q
    <2>9. /\ q.pc # "insert_attr" /\ q.pc \notin {"undo_attrs", "undo_key"}
          /\ proc[p].pc \in LoadPcs /\ q.delete_list \subseteq proc[p].delete_list
      BY <2>2, <2>3 DEF LoadPcs
    <2> HIDE DEF ids
    <2> QED BY <2>0, <2>2, <2>3, <2>6, <2>7, <2>8, <2>9, DeleteStep, ZenonT(60)
  <1>5. ASSUME NEW p \in Processes, NEW u \in Urls, cache_key(p, u)  PROVE CacheInv'
    <2>1. proc[p] \in Process /\ proc[p].pc = "running" /\ key_attributes' = key_attributes
          /\ last_id < MaxRows
      BY <1>5 DEF cache_key, At, CacheTypeOK
    <2>a. last_id \in Nat /\ MaxRows \in Nat /\ 0 \in 0..MaxRows
      BY DEF CacheTypeOK
    <2>2. ASSUME NEW failed \in BOOLEAN,
                 Becomes(p, [proc[p] EXCEPT !.url = u, !.cache_id = 0, !.stored = FALSE], failed),
                 UNCHANGED <<keys, last_id>>
          PROVE  CacheInv'
      <3> DEFINE q == [proc[p] EXCEPT !.url = u, !.cache_id = 0, !.stored = FALSE]
      <3>1. /\ q \in Process /\ q.pc = "running" /\ q.model = proc[p].model
            /\ q.delete_list = proc[p].delete_list /\ q.cache_id = 0
        BY <2>1, <2>a DEF Process
      <3>2. Becomes(p, q, failed) /\ UNCHANGED tables
        BY <2>1, <2>2 DEF tables
      <3> HIDE DEF q
      <3> QED BY <2>a, <3>1, <3>2, ProcessStep DEF IdsInv, LoadPcs
    <2>3. CASE /\ \A r \in replaced_rows(u) : r.id \notin key_attributes
               /\ last_id' = last_id + 1
               /\ keys' = (keys \ replaced_rows(u)) \cup {[id |-> last_id + 1, url |-> u]}
               /\ Becomes(p, [proc[p] EXCEPT !.pc = "get_key", !.url = u, !.cache_id = 0,
                                             !.stored = FALSE], FALSE)
      <3> DEFINE q == [proc[p] EXCEPT !.pc = "get_key", !.url = u, !.cache_id = 0,
                                      !.stored = FALSE]
                 n == [id |-> last_id + 1, url |-> u]
      <3>1. /\ q \in Process /\ q.pc = "get_key" /\ q.model = proc[p].model
            /\ q.delete_list = proc[p].delete_list /\ q.cache_id = 0
        BY <2>1, <2>a DEF Process, StorePcs
      <3>2. /\ proc' \in [Processes -> Process]
            /\ proc'[p] = q
            /\ \A o \in Processes \ {p} : proc'[o] = proc[o]
            /\ disturbed' \in BOOLEAN
            /\ disturbed => disturbed'
            /\ ApartInv'
        <4>1. Becomes(p, q, FALSE)
          BY <2>3
        <4> HIDE DEF q
        <4> QED BY <3>1, <4>1, BecomesApart
      <3>3. n \in Row /\ n.id = last_id + 1 /\ n.url = u
        BY <2>1, <2>a DEF Row, Ids
      <3>4. last_id' \in 0..MaxRows
        BY <2>1, <2>3, <2>a
      <3>5. keys' = {r \in keys : r.url # u} \cup {n}
        BY <2>3 DEF replaced_rows, RowsOf
      <3>6. \A r \in keys : r.id \in Nat /\ r.id <= last_id
        BY DEF IdsInv, CacheTypeOK, Row, Ids
      <3> HIDE DEF q, n
      <3>7. \A r, s \in keys' : r.id = s.id \/ r.url = s.url => r = s
        BY <2>a, <3>3, <3>5, <3>6 DEF CacheTypeOK
      <3>8. key_attributes' \subseteq {r.id : r \in keys'}
        BY <2>1, <2>3, <3>5 DEF CacheTypeOK, replaced_rows, RowsOf
      <3>9. keys' \subseteq Row
        BY <3>3, <3>5 DEF CacheTypeOK
      <3>10. CacheTypeOK'
        BY <3>2, <3>4, <3>7, <3>8, <3>9 DEF CacheTypeOK
      <3>11. \A r \in keys' : r.id <= last_id'
        BY <2>3, <2>a, <3>3, <3>5, <3>6
      <3>12. ASSUME NEW o \in Processes
             PROVE  /\ \A r \in proc'[o].model :
                          r.id <= last_id' /\ \A s \in keys' : s.id = r.id => s = r
                    /\ \A i \in proc'[o].delete_list : i <= last_id'
                    /\ proc'[o].cache_id <= last_id'
                    /\ proc'[o].pc = "insert_attr" =>
                         \A r \in keys' : r.id = proc'[o].cache_id => r.url = proc'[o].url
        <4>1. /\ proc'[o].model = proc[o].model /\ proc'[o].delete_list = proc[o].delete_list
              /\ proc'[o].cache_id \in {0, proc[o].cache_id}
              /\ proc'[o].pc = "insert_attr" => proc'[o] = proc[o]
          BY <3>1, <3>2
        <4>2. /\ \A r \in proc[o].model : r.id \in Nat /\ r.id <= last_id
              /\ \A i \in proc[o].delete_list : i \in Nat /\ i <= last_id
              /\ proc[o].cache_id \in Nat /\ proc[o].cache_id <= last_id
          BY DEF IdsInv, CacheTypeOK, Process, Row, Ids
        <4>3. \A r \in proc[o].model : \A s \in keys' : s.id = r.id => s = r
          BY <2>a, <3>3, <3>5, <4>2 DEF IdsInv
        <4>4. proc[o].pc = "insert_attr" =>
                \A r \in keys' : r.id = proc[o].cache_id => r.url = proc[o].url
          BY <2>a, <3>3, <3>5, <4>2 DEF IdsInv
        <4> QED BY <2>3, <2>a, <4>1, <4>2, <4>3, <4>4
      <3>13. IdsInv'
        BY <3>11, <3>12 DEF IdsInv
      <3>14. PruneInv'
        BY <3>1, <3>2 DEF PruneInv
      <3>15. LoadInv'
        BY <3>1, <3>2 DEF LoadInv, ApartInv, StorePcs
      <3>16. UndoInv'
        <4>1. \A o \in Processes : proc'[o].pc \in {"undo_attrs", "undo_key"} =>
                proc'[o] = proc[o] /\ proc[o].cache_id \in Nat /\ proc[o].cache_id <= last_id
          BY <3>1, <3>2 DEF IdsInv, CacheTypeOK, Process
        <4> QED BY <2>a, <3>2, <3>3, <3>5, <4>1 DEF UndoInv
      <3> QED BY <3>2, <3>10, <3>13, <3>14, <3>15, <3>16
    <2> QED BY <1>5, <2>2, <2>3, FailuresType DEF cache_key
  <1>6. ASSUME NEW p \in Processes, get_key(p)  PROVE CacheInv'
    <2>1. proc[p] \in Process /\ proc[p].pc = "get_key" /\ UNCHANGED tables
      BY <1>6 DEF get_key, At, CacheTypeOK
    <2>2. CASE RowsOf(proc[p].url) = {} /\ Becomes(p, Down, FALSE)
      <3>1. 0 <= last_id
        BY DEF CacheTypeOK
      <3> QED BY <2>1, <2>2, <3>1, DownType, ProcessStep DEF LoadPcs
    <2>3. CASE Becomes(p, Stored(p, FALSE), TRUE)
      <3>1. /\ Stored(p, FALSE) \in Process /\ Stored(p, FALSE).pc = "running"
            /\ Stored(p, FALSE).model = proc[p].model
            /\ Stored(p, FALSE).delete_list = proc[p].delete_list
            /\ Stored(p, FALSE).cache_id = proc[p].cache_id
        BY <2>1 DEF Stored, Process
      <3> QED BY <2>1, <2>3, <3>1, ProcessStep DEF IdsInv, LoadPcs
    <2>4. CASE \E r \in RowsOf(proc[p].url) :
                 Becomes(p, IF r.url \in RsaUrls
                              THEN [proc[p] EXCEPT !.pc = "insert_attr", !.cache_id = r.id]
                              ELSE [Stored(p, TRUE) EXCEPT !.cache_id = r.id], FALSE)
      <3>1. PICK r \in RowsOf(proc[p].url) :
              Becomes(p, IF r.url \in RsaUrls
                           THEN [proc[p] EXCEPT !.pc = "insert_attr", !.cache_id = r.id]
                           ELSE [Stored(p, TRUE) EXCEPT !.cache_id = r.id], FALSE)
        BY <2>4
      <3> DEFINE q == IF r.url \in RsaUrls
                        THEN [proc[p] EXCEPT !.pc = "insert_attr", !.cache_id = r.id]
                        ELSE [Stored(p, TRUE) EXCEPT !.cache_id = r.id]
      <3>2. r \in keys /\ r \in Row /\ r.url = proc[p].url /\ r.id \in 0..MaxRows
        BY DEF RowsOf, CacheTypeOK, Row, Ids
      <3>3. /\ q \in Process /\ q.pc \in {"insert_attr", "running"} /\ q.url = r.url
            /\ q.model = proc[p].model /\ q.delete_list = proc[p].delete_list
            /\ q.cache_id = r.id
        BY <2>1, <3>2 DEF Stored, Process, StorePcs
      <3>4. r.id <= last_id /\ \A s \in keys : s.id = r.id => s.url = r.url
        BY <3>2 DEF IdsInv, CacheTypeOK
      <3>5. Becomes(p, q, FALSE)
        BY <3>1
      <3> HIDE DEF q
      <3> QED BY <2>1, <3>3, <3>4, <3>5, ProcessStep DEF IdsInv, LoadPcs
    <2> QED BY <1>6, <2>2, <2>3, <2>4 DEF get_key
  <1>7. ASSUME NEW p \in Processes, insert_attr(p)  PROVE CacheInv'
    <2> DEFINE id == proc[p].cache_id
    <2>1. proc[p] \in Process /\ proc[p].pc = "insert_attr" /\ UNCHANGED <<keys, last_id>>
      BY <1>7 DEF insert_attr, At, CacheTypeOK
    <2>2. CASE /\ \E r \in keys : r.id = id
               /\ key_attributes' = key_attributes \cup {id}
               /\ Becomes(p, Stored(p, TRUE), FALSE)
      <3> DEFINE q == Stored(p, TRUE)
      <3>1. /\ q \in Process /\ q.pc = "running" /\ q.model = proc[p].model
            /\ q.delete_list = proc[p].delete_list /\ q.cache_id = id
        BY <2>1 DEF Stored, Process
      <3> HIDE DEF q
      <3>2. /\ proc' \in [Processes -> Process]
            /\ proc'[p] = q
            /\ \A o \in Processes \ {p} : proc'[o] = proc[o]
            /\ disturbed' \in BOOLEAN
            /\ disturbed => disturbed'
            /\ ApartInv'
        BY <2>2, <3>1, BecomesApart DEF q
      <3>3. CacheTypeOK'
        BY <2>1, <2>2, <3>2 DEF CacheTypeOK
      <3>4. IdsInv'
        BY <2>1, <3>1, <3>2 DEF IdsInv
      <3>5. PruneInv'
        BY <3>1, <3>2 DEF PruneInv
      <3>6. LoadInv'
        \* p was storing: if no load has met it, none is going on.
        <4>1. ~disturbed' => \A o \in Processes : proc'[o].pc \notin LoadPcs
          BY <2>1, <3>1, <3>2 DEF ApartInv, StorePcs, LoadPcs
        <4> QED BY <4>1 DEF LoadInv
      <3>7. UndoInv'
        BY <2>1, <3>1, <3>2 DEF UndoInv
      <3> QED BY <3>2, <3>3, <3>4, <3>5, <3>6, <3>7
    <2>3. ASSUME NEW failed \in BOOLEAN,
                 failed \/ ~\E r \in keys : r.id = id,
                 key_attributes' = key_attributes,
                 Becomes(p, [proc[p] EXCEPT !.pc = "undo_attrs"], failed)
          PROVE  CacheInv'
      <3> DEFINE q == [proc[p] EXCEPT !.pc = "undo_attrs"]
      <3>1. /\ q \in Process /\ q.pc = "undo_attrs" /\ q.model = proc[p].model
            /\ q.delete_list = proc[p].delete_list /\ q.cache_id = id
        BY <2>1 DEF Process, StorePcs
      <3>2. Becomes(p, q, failed) /\ UNCHANGED tables
        BY <2>1, <2>3 DEF tables
      <3> HIDE DEF q
      <3>3. ~disturbed' => \A r \in keys : r.id # q.cache_id
        BY <2>3, <3>1, <3>2, BecomesApart
      <3> QED BY <3>1, <3>2, <3>3, ProcessStep DEF IdsInv, LoadPcs
    <2> QED BY <1>7, <2>2, <2>3, FailuresType DEF insert_attr
  <1>8. ASSUME NEW p \in Processes, undo_attrs(p)  PROVE CacheInv'
    <2> DEFINE q == [proc[p] EXCEPT !.pc = "undo_key"]
    <2>0. PICK failed \in Failures :
            delete_attrs(proc[p].cache_id, failed) /\ Becomes(p, q, failed)
      BY <1>8 DEF undo_attrs
    <2>1. proc[p] \in Process /\ proc[p].pc = "undo_attrs" /\ failed \in BOOLEAN
      BY <1>8, FailuresType DEF undo_attrs, At, CacheTypeOK
    <2>2. /\ q \in Process /\ q.pc = "undo_key" /\ q.model = proc[p].model
          /\ q.delete_list = proc[p].delete_list /\ q.cache_id = proc[p].cache_id
      BY <2>1 DEF Process, StorePcs
    <2> HIDE DEF q
    <2> QED BY <2>0, <2>1, <2>2, UndoStep
  <1>9. ASSUME NEW p \in Processes, undo_key(p)  PROVE CacheInv'
    <2>0. PICK failed \in Failures :
            delete_row(proc[p].cache_id, failed) /\ Becomes(p, Stored(p, FALSE), failed)
      BY <1>9 DEF undo_key
    <2>1. proc[p] \in Process /\ proc[p].pc = "undo_key" /\ failed \in BOOLEAN
      BY <1>9, FailuresType DEF undo_key, At, CacheTypeOK
    <2>2. /\ Stored(p, FALSE) \in Process /\ Stored(p, FALSE).pc = "running"
          /\ Stored(p, FALSE).model = proc[p].model
          /\ Stored(p, FALSE).delete_list = proc[p].delete_list
          /\ Stored(p, FALSE).cache_id = proc[p].cache_id
      BY <2>1 DEF Stored, Process
    <2> QED BY <2>0, <2>1, <2>2, UndoStep
  <1>10. ASSUME NEW p \in Processes, crash(p)  PROVE CacheInv'
    <2>1. Becomes(p, Down, FALSE) /\ UNCHANGED tables
      BY <1>10 DEF crash
    <2>2. 0 <= last_id
      BY DEF CacheTypeOK
    <2> QED BY <2>1, <2>2, DownType, ProcessStep DEF LoadPcs
  <1>11. CASE UNCHANGED cacheVars
    BY <1>11 DEF cacheVars, tables, CacheTypeOK, IdsInv, PruneInv, ApartInv, LoadInv, UndoInv
  <1> QED BY <1>1, <1>2, <1>3, <1>4, <1>5, <1>6, <1>7, <1>8, <1>9, <1>10, <1>11 DEF CacheNext

\* The types of the tables and the processes; ids and urls are unique, and no data
\* is without its key's row.
THEOREM CacheTyping == CacheSpec => []CacheTypeOK
  <1>1. CacheInv => CacheTypeOK
    BY DEF CacheInv
  <1> QED BY InitCacheInv, StepCacheInv, <1>1, PTL DEF CacheSpec

-----------------------------------------------------------------------------
(* The three promises, each of a step. *)

\* What one step says of a process that returns from __keyagent_cache_key.
StoredWhole ==
  \A p \in Processes :
    proc[p].pc \in StorePcs /\ proc'[p].pc = "running" /\ proc'[p].stored =>
      \E r \in keys' : r.url = proc[p].url /\ (r.url \in RsaUrls => r.id \in key_attributes')

WholeKept ==
  ~disturbed' =>
    \A r \in keys : r.url \in RsaUrls /\ Whole(r) => r \in keys' /\ r.id \in key_attributes'

Repaired ==
  ~disturbed' =>
    \A p \in Processes :
      proc[p].pc \in LoadPcs /\ proc'[p].pc = "running" =>
        \A r \in keys' : r.url \in RsaUrls => r.id \in key_attributes'

LEMMA StepStoredWhole == CacheInv /\ CacheNext => StoredWhole
  <1> SUFFICES ASSUME CacheInv, CacheNext,
                      NEW o \in Processes, proc[o].pc \in StorePcs,
                      proc'[o].pc = "running", proc'[o].stored
               PROVE  \E r \in keys' : r.url = proc[o].url
                                      /\ (r.url \in RsaUrls => r.id \in key_attributes')
    BY DEF StoredWhole
  <1> USE DEF CacheInv
  \* Only the process that moves can return.
  <1>1. ASSUME NEW p \in Processes, NEW q, NEW failed, Becomes(p, q, failed)
        PROVE  o = p /\ proc'[o] = q
    BY <1>1 DEF Becomes, CacheTypeOK, StorePcs
  <1>2. ASSUME NEW p \in Processes,
               cache_init(p) \/ load_row(p) \/ prune_attrs(p) \/ prune_key(p)
               \/ crash(p) \/ \E u \in Urls : cache_key(p, u)
        PROVE  FALSE
    <2>1. \E q, failed : Becomes(p, q, failed)
      BY <1>2 DEF cache_init, load_row, prune_attrs, prune_key, crash, cache_key
    <2>2. o = p
      BY <1>1, <2>1
    <2>3. CASE crash(p)
      BY <1>1, <2>2, <2>3, DownType DEF crash
    <2> QED BY <1>2, <2>2, <2>3 DEF cache_init, load_row, prune_attrs, prune_key, cache_key,
                                    At, StorePcs
  <1>3. ASSUME NEW p \in Processes, get_key(p)
        PROVE  \E r \in keys' : r.url = proc[o].url
                                /\ (r.url \in RsaUrls => r.id \in key_attributes')
    <2>1. proc[p] \in Process /\ UNCHANGED tables
      BY <1>3 DEF get_key, CacheTypeOK
    <2>2. ~Stored(p, FALSE).stored /\ ~Down.stored
      BY <2>1 DEF Stored, Process, Down
    <2>3. PICK r \in RowsOf(proc[p].url) :
            Becomes(p, IF r.url \in RsaUrls
                         THEN [proc[p] EXCEPT !.pc = "insert_attr", !.cache_id = r.id]
                         ELSE [Stored(p, TRUE) EXCEPT !.cache_id = r.id], FALSE)
      BY <1>1, <1>3, <2>2 DEF get_key
    <2>4. o = p
      BY <1>1, <2>3
    <2>5. CASE r.url \in RsaUrls
      <3>2. Becomes(p, [proc[p] EXCEPT !.pc = "insert_attr", !.cache_id = r.id], FALSE)
        BY <2>3, <2>5
      <3>3. proc'[o] = [proc[p] EXCEPT !.pc = "insert_attr", !.cache_id = r.id]
        BY <1>1, <3>2
      <3>1. proc'[o].pc = "insert_attr"
        BY <2>1, <3>3 DEF Process
      <3> QED BY <3>1
    <2> QED BY <2>1, <2>3, <2>4, <2>5 DEF RowsOf, tables
  <1>4. ASSUME NEW p \in Processes, insert_attr(p)
        PROVE  \E r \in keys' : r.url = proc[o].url
                                /\ (r.url \in RsaUrls => r.id \in key_attributes')
    <2>1. proc[p] \in Process /\ proc[p].pc = "insert_attr" /\ keys' = keys
      BY <1>4 DEF insert_attr, At, CacheTypeOK
    <2>2. CASE \E failed : Becomes(p, [proc[p] EXCEPT !.pc = "undo_attrs"], failed)
      <3>1. proc'[o].pc = "undo_attrs"
        BY <1>1, <2>1, <2>2 DEF Process
      <3> QED BY <3>1
    <2>3. CASE /\ \E r \in keys : r.id = proc[p].cache_id
               /\ key_attributes' = key_attributes \cup {proc[p].cache_id}
               /\ Becomes(p, Stored(p, TRUE), FALSE)
      <3>1. o = p
        BY <1>1, <2>3
      <3> QED BY <2>1, <2>3, <3>1 DEF IdsInv
    <2> QED BY <1>4, <2>2, <2>3 DEF insert_attr
  <1>5. ASSUME NEW p \in Processes, undo_attrs(p) \/ undo_key(p)  PROVE FALSE
    <2>1. proc[p] \in Process
      BY DEF CacheTypeOK
    <2>2. CASE \E failed : Becomes(p, [proc[p] EXCEPT !.pc = "undo_key"], failed)
      <3>1. proc'[o].pc = "undo_key"
        BY <1>1, <2>1, <2>2 DEF Process
      <3> QED BY <3>1
    <2>3. CASE \E failed : Becomes(p, Stored(p, FALSE), failed)
      <3>2. proc'[o] = Stored(p, FALSE)
        BY <1>1, <2>3
      <3>1. ~proc'[o].stored
        BY <2>1, <3>2 DEF Process, Stored
      <3> QED BY <3>1
    <2> QED BY <1>5, <2>2, <2>3 DEF undo_attrs, undo_key
  <1> QED BY <1>2, <1>3, <1>4, <1>5 DEF CacheNext

\* __keyagent_cache_key returns TRUE only when the key is in the database, with
\* its data if it is an RSA key; whatever statements fail and whoever interferes.
THEOREM StoredKeysAreWhole == CacheSpec => StoredMeansWhole
  <1>1. CacheInv /\ [CacheNext]_cacheVars => [StoredWhole]_cacheVars
    BY StepStoredWhole
  <1>2. [][StoredWhole]_cacheVars => StoredMeansWhole
    BY PTL DEF StoredWhole, StoredMeansWhole
  <1> QED BY InitCacheInv, StepCacheInv, <1>1, <1>2, PTL DEF CacheSpec

LEMMA StepWholeKept ==
  ASSUME CacheInv, CacheNext
  PROVE  WholeKept
  <1> SUFFICES ASSUME ~disturbed', NEW r \in keys, r.url \in RsaUrls, r.id \in key_attributes
               PROVE  r \in keys' /\ r.id \in key_attributes'
    BY DEF WholeKept, Whole
  <1> USE DEF CacheInv
  <1>1. ~disturbed
    BY ZenonT(60) DEF CacheNext, cache_init, load_row, prune_attrs, prune_key, cache_key, get_key,
           insert_attr, undo_attrs, undo_key, crash, Becomes
  <1>2. ASSUME NEW p \in Processes, prune_attrs(p) \/ prune_key(p)
        PROVE  r \in keys' /\ r.id \in key_attributes'
    <2>1. PICK id \in proc[p].delete_list, failed \in Failures :
            delete_attrs(id, failed) \/ delete_row(id, failed)
      BY <1>2 DEF prune_attrs, prune_key, IsFirst
    <2>2. r.id \notin proc[p].delete_list
      BY <1>1, <1>2 DEF prune_attrs, prune_key, At, LoadInv, LoadPcs
    <2> QED BY <2>1, <2>2 DEF delete_attrs, delete_row
  <1>3. ASSUME NEW p \in Processes, undo_attrs(p) \/ undo_key(p)
        PROVE  r \in keys' /\ r.id \in key_attributes'
    <2>1. r.id # proc[p].cache_id
      BY <1>1, <1>3 DEF undo_attrs, undo_key, At, UndoInv
    <2> QED BY <1>3, <2>1 DEF undo_attrs, undo_key, delete_attrs, delete_row
  <1>4. ASSUME NEW p \in Processes, NEW u \in Urls, cache_key(p, u)
        PROVE  r \in keys' /\ r.id \in key_attributes'
    BY <1>4 DEF cache_key
  <1>5. ASSUME NEW p \in Processes, insert_attr(p)
        PROVE  r \in keys' /\ r.id \in key_attributes'
    BY <1>5 DEF insert_attr
  <1>6. ASSUME NEW p \in Processes, cache_init(p) \/ load_row(p) \/ get_key(p) \/ crash(p)
        PROVE  r \in keys' /\ r.id \in key_attributes'
    BY <1>6 DEF cache_init, load_row, get_key, crash, tables
  <1> QED BY <1>2, <1>3, <1>4, <1>5, <1>6 DEF CacheNext

\* An RSA key that is in the database with its data stays there through restarts,
\* crashes and storing it again, as long as no statement has failed for a reason of
\* its own and no process has loaded the cache while another stores a key.
THEOREM WholeRsaKeysStay == CacheSpec => WholeKeysStay
  <1>1. CacheInv /\ [CacheNext]_cacheVars => [WholeKept]_cacheVars
    BY StepWholeKept
  <1>2. [][WholeKept]_cacheVars => WholeKeysStay
    BY PTL DEF WholeKept, WholeKeysStay
  <1> QED BY InitCacheInv, StepCacheInv, <1>1, <1>2, PTL DEF CacheSpec

LEMMA StepRepaired ==
  ASSUME CacheInv, CacheNext
  PROVE  Repaired
  <1> SUFFICES ASSUME ~disturbed',
                      NEW o \in Processes, proc[o].pc \in LoadPcs, proc'[o].pc = "running",
                      NEW r \in keys', r.url \in RsaUrls
               PROVE  r.id \in key_attributes'
    BY DEF Repaired
  <1> USE DEF CacheInv
  <1>a. ~disturbed
    BY ZenonT(60) DEF CacheNext, cache_init, load_row, prune_attrs, prune_key, cache_key, get_key,
           insert_attr, undo_attrs, undo_key, crash, Becomes
  <1>1. ASSUME NEW p \in Processes, NEW q, NEW failed, Becomes(p, q, failed)
        PROVE  o = p /\ proc'[o] = q
    BY <1>1 DEF Becomes, CacheTypeOK, LoadPcs
  <1>2. ASSUME r \in keys
        PROVE  r.id \in key_attributes \/ r \in proc[o].model \/ r.id \in proc[o].delete_list
    BY <1>a, <1>2 DEF LoadInv
  <1>3. ASSUME NEW p \in Processes, load_row(p)  PROVE r.id \in key_attributes'
    <2>1. PICK s \in proc[p].model, failed \in Failures :
            LET rows == proc[p].model \ {s}
                ok   == row_loads(p, s, s.id \in key_attributes /\ ~failed)
                ids  == IF ok THEN proc[p].delete_list ELSE proc[p].delete_list \cup {s.id}
            IN Becomes(p, [proc[p] EXCEPT !.pc = load_pc(rows, ids), !.model = rows,
                                          !.ret = ok, !.delete_list = ids], failed)
      BY <1>3 DEF load_row
    <2>0. failed \in BOOLEAN
      BY FailuresType
    <2> DEFINE rows == proc[p].model \ {s}
               ok   == row_loads(p, s, s.id \in key_attributes /\ ~failed)
               ids  == IF ok THEN proc[p].delete_list ELSE proc[p].delete_list \cup {s.id}
    <2>2. proc[p] \in Process /\ UNCHANGED tables
      BY <1>3 DEF load_row, CacheTypeOK
    <2>a. o = p /\ proc'[o] = [proc[p] EXCEPT !.pc = load_pc(rows, ids), !.model = rows,
                                             !.ret = ok, !.delete_list = ids]
      BY <1>1, <2>1
    <2>3. o = p /\ load_pc(rows, ids) = "running"
      BY <2>a, <2>2 DEF Process
    <2>4. rows = {} /\ ids = {}
      BY <2>3 DEF load_pc
    <2>5. ok /\ proc[p].delete_list = {}
      BY <2>4
    <2>6. r \in keys
      BY <2>2 DEF tables
    <2>7. r = s => r.id \in key_attributes
      BY <2>5 DEF row_loads
    <2> QED BY <1>2, <2>2, <2>3, <2>4, <2>5, <2>6, <2>7 DEF tables
  <1>4. ASSUME NEW p \in Processes, prune_key(p)  PROVE r.id \in key_attributes'
    <2>1. PICK id \in Ids, failed \in Failures :
            LET ids == proc[p].delete_list \ {id}
            IN /\ IsFirst(id, proc[p].delete_list)
               /\ delete_row(id, failed)
               /\ Becomes(p, [proc[p] EXCEPT !.pc = load_pc({}, ids), !.delete_list = ids], failed)
      BY <1>4 DEF prune_key
    <2>0. failed \in BOOLEAN
      BY FailuresType
    <2> DEFINE ids == proc[p].delete_list \ {id}
    <2>2. proc[p] \in Process /\ proc[p].pc = "prune_key"
      BY <1>4 DEF prune_key, At, CacheTypeOK
    <2>a. o = p /\ proc'[o] = [proc[p] EXCEPT !.pc = load_pc({}, ids), !.delete_list = ids]
      BY <1>1, <2>1
    <2>3. o = p /\ load_pc({}, ids) = "running"
      BY <2>a, <2>2 DEF Process
    <2>4. ids = {} /\ proc[p].model = {}
      BY <2>2, <2>3 DEF load_pc, PruneInv
    <2>6. ~failed
      BY <2>1 DEF Becomes
    <2>5. /\ r \in keys /\ key_attributes' = key_attributes
          /\ r.id = id => id \in key_attributes
      BY <2>1, <2>6 DEF delete_row
    <2> QED BY <1>2, <2>3, <2>4, <2>5
  <1>5. ASSUME NEW p \in Processes, prune_attrs(p)  PROVE FALSE
    <2>1. proc[p] \in Process /\ \E failed : Becomes(p, [proc[p] EXCEPT !.pc = "prune_key"], failed)
      BY <1>5 DEF prune_attrs, CacheTypeOK
    <2> QED BY <1>1, <2>1 DEF Process
  <1>6. ASSUME NEW p \in Processes,
               cache_init(p) \/ get_key(p) \/ insert_attr(p) \/ undo_attrs(p) \/ undo_key(p)
               \/ crash(p) \/ \E u \in Urls : cache_key(p, u)
        PROVE  FALSE
    <2>1. \E q, failed : Becomes(p, q, failed)
      BY <1>6 DEF cache_init, get_key, insert_attr, undo_attrs, undo_key, crash, cache_key
    <2>2. o = p
      BY <1>1, <2>1
    <2>3. CASE crash(p)
      BY <1>1, <2>2, <2>3, DownType DEF crash
    <2> QED BY <1>6, <2>2, <2>3 DEF cache_init, get_key, insert_attr, undo_attrs, undo_key,
                                    cache_key, At, LoadPcs
  <1> QED BY <1>3, <1>4, <1>5, <1>6 DEF CacheNext

\* A process that has loaded the cache leaves no RSA key in it without its data,
\* under the same two conditions.
THEOREM LoadsRepair == CacheSpec => LoadRepairs
  <1>1. CacheInv /\ [CacheNext]_cacheVars => [Repaired]_cacheVars
    BY StepRepaired
  <1>2. [][Repaired]_cacheVars => LoadRepairs
    BY PTL DEF Repaired, LoadRepairs
  <1> QED BY InitCacheInv, StepCacheInv, <1>1, <1>2, PTL DEF CacheSpec

=============================================================================
