----------------------------- MODULE VectorIndex -----------------------------
(***************************************************************************)
(* One embedding model's vectors: two append-only files (the vectors, and  *)
(* a meta row with the embedding's id and an alive flag for each), next to *)
(* the SQLite table that says which target an embedding belongs to and     *)
(* which row of the files it has.  One process writes; a search runs in it *)
(* or in another process, which keeps the row count it saw when it first   *)
(* opened the files.                                                       *)
(*                                                                         *)
(* The connection is behind a mutex, so transactions are one at a time.    *)
(* SQLite rolls a transaction back; the files it does not.  The module is  *)
(* about what that leaves: rows killed by transactions that never          *)
(* committed, compaction that renumbers rows, targets deleted under their  *)
(* embeddings, and searches that read the files with no lock.              *)
(*                                                                         *)
(* Rows are numbered from 1 here and from 0 in the code.  A vector is its  *)
(* embedding's id.  A half-written row, and what a store with files of     *)
(* different lengths does next, are not modelled.                          *)
(***************************************************************************)
EXTENDS Naturals, Sequences, FiniteSets

CONSTANTS
  Targets,     \* the rows an embedding can belong to, each with its own id
  KindOf,      \* KindOf[t]: "frame", "span", "ocr", "segment" or "description"
  Subject,     \* Subject[t]: the frame an ocr span is of, the target a
               \* description is of; t itself for the others
  Closed,      \* the row count of a table not opened yet
  K,           \* the number of hits a search is asked for
  MaxVectors,  \* bound on the embeddings ever made
  MaxBatch,    \* bound on the embeddings of one put
  MaxFaults    \* bound on failed transactions and killed processes

Kinds == {"frame", "span", "ocr", "segment", "description"}

ASSUME TargetsAssumption ==
  /\ IsFiniteSet(Targets)
  /\ KindOf \in [Targets -> Kinds]
  /\ Subject \in [Targets -> Targets]
  /\ \A t \in Targets : KindOf[t] \in {"frame", "span", "segment"} => Subject[t] = t
  /\ \A t \in Targets : KindOf[t] = "ocr" => KindOf[Subject[t]] = "frame"
  /\ \A t \in Targets : KindOf[t] = "description" => KindOf[Subject[t]] \in {"frame", "segment"}
ASSUME ClosedAssumption == Closed \notin Nat
ASSUME BoundsAssumption ==
  K \in Nat \ {0} /\ MaxVectors \in Nat /\ MaxBatch \in Nat /\ MaxFaults \in Nat

VARIABLES
  target,  \* target[t]: "new", "present" or "gone" (ids are never used again)
  emb,     \* the committed embeddings table: emb[t] = [id, row], or NoEmb
  vec,     \* the vector file: the ids of the embeddings, in row order
  meta,    \* the meta file: [id, alive] rows
  count,   \* the writer's row count, or Closed before it opens the table
  rcount,  \* the other process's
  made,    \* embedding ids given out
  tx,      \* the transaction on the connection
  search,  \* a search
  harm,    \* "none"; "lost": rows were killed by a rolled-back transaction;
           \* "torn": the two files, or a compaction's rows, were left unequal
  faults   \* faults so far

vars == <<target, emb, vec, meta, count, rcount, made, tx, search, harm, faults>>

NoEmb == [id |-> 0, row |-> 0]

NoTx == [op |-> "none", at |-> "none", left |-> {}, doomed |-> {},
         batch |-> <<>>, first |-> 0, rows |-> <<>>, dirty |-> FALSE]
Idle == [step |-> "idle", from |-> "here", cnt |-> 0, v |-> <<>>, hits |-> {}, clean |-> TRUE]

Free == tx.op = "none"
InTx(op, at) == tx.op = op /\ tx.at = at
Batch == {tx.batch[i] : i \in DOMAIN tx.batch}
Busy == tx.doomed \cup Batch

(* VectorStore::table: the count a process has, or what it reads from the  *)
(* length of the vector file when it opens it.                             *)
Opened(c) == IF c = Closed THEN Len(vec) ELSE c

Init ==
  /\ target = [t \in Targets |-> "new"]
  /\ emb = [t \in Targets |-> NoEmb]
  /\ vec = <<>>
  /\ meta = <<>>
  /\ count = Closed
  /\ rcount = Closed
  /\ made = 0
  /\ tx = NoTx
  /\ search = Idle
  /\ harm = "none"
  /\ faults = 0

-----------------------------------------------------------------------------
(* The rows embeddings belong to.  Only an ocr span needs its subject: a   *)
(* description holds the id of one, which a later run may have replaced.   *)
PutTarget(t) ==
  /\ Free
  /\ target[t] = "new"
  /\ KindOf[t] = "ocr" => target[Subject[t]] = "present"
  /\ KindOf[t] = "description" => target[Subject[t]] # "new"
  /\ target' = [target EXCEPT ![t] = "present"]
  /\ UNCHANGED <<emb, vec, meta, count, rcount, made, tx, search, harm, faults>>

(* Segments, and spans that go with their track, are deleted with no look  *)
(* at the embeddings.                                                      *)
DeletePlain(S) ==
  /\ Free
  /\ \A t \in S : target[t] = "present" /\ KindOf[t] \in {"segment", "span"}
  /\ target' = [t \in Targets |-> IF t \in S THEN "gone" ELSE target[t]]
  /\ UNCHANGED <<emb, vec, meta, count, rcount, made, tx, search, harm, faults>>

(* Frames (with their ocr spans) and an operator's transcript spans are    *)
(* deleted in a transaction that kills their vectors first.                *)
BeginDrop(S) ==
  /\ Free
  /\ harm # "torn"
  /\ \A t \in S : target[t] = "present"
  /\ \/ \A t \in S : KindOf[t] = "frame"
     \/ \A t \in S : KindOf[t] = "span"
  /\ LET doomed == S \cup {t \in Targets : /\ KindOf[t] = "ocr" /\ Subject[t] \in S
                                           /\ target[t] = "present"}
     IN  tx' = [NoTx EXCEPT !.op = "drop", !.at = "kill", !.left = doomed,
                            !.doomed = doomed]
  /\ UNCHANGED <<target, emb, vec, meta, count, rcount, made, search, harm, faults>>

(* An embedder hands over vectors for targets it listed earlier; some may  *)
(* be gone by now.                                                         *)
BeginPut(batch) ==
  /\ Free
  /\ harm # "torn"
  /\ made + Len(batch) <= MaxVectors
  /\ \A i \in DOMAIN batch : target[batch[i]] # "new"
  /\ \A i, j \in DOMAIN batch : batch[i] = batch[j] => i = j
  /\ tx' = [NoTx EXCEPT !.op = "put", !.at = "kill", !.batch = batch,
                         !.left = {batch[i] : i \in DOMAIN batch}]
  /\ made' = made + Len(batch)
  /\ UNCHANGED <<target, emb, vec, meta, count, rcount, search, harm, faults>>

(* VectorStore::tombstone: the flag changes at once, in the file.          *)
Kill(t) ==
  /\ tx.at = "kill"
  /\ t \in tx.left
  /\ count' = IF emb[t] = NoEmb THEN count ELSE Opened(count)
  /\ LET kills == emb[t] # NoEmb /\ emb[t].row <= Opened(count)
     IN  /\ meta' = IF kills THEN [meta EXCEPT ![emb[t].row].alive = FALSE] ELSE meta
         /\ tx' = [tx EXCEPT
              !.left = @ \ {t},
              !.dirty = @ \/ kills,
              !.at = IF tx.left # {t} THEN "kill"
                     ELSE IF tx.op = "put" THEN "append vec" ELSE "commit"]
  /\ UNCHANGED <<target, emb, vec, rcount, made, search, harm, faults>>

CommitDrop ==
  /\ InTx("drop", "commit")
  /\ target' = [t \in Targets |-> IF t \in tx.doomed THEN "gone" ELSE target[t]]
  /\ emb' = [t \in Targets |-> IF t \in tx.doomed THEN NoEmb ELSE emb[t]]
  /\ tx' = NoTx
  /\ UNCHANGED <<vec, meta, count, rcount, made, search, harm, faults>>

(* VectorStore::append, one file after the other.  The new embeddings have *)
(* the last ids given out.                                                 *)
IdOf(i) == made - Len(tx.batch) + i
NewIds == [i \in DOMAIN tx.batch |-> IdOf(i)]

AppendVec ==
  /\ InTx("put", "append vec")
  /\ vec' = vec \o NewIds
  /\ count' = Opened(count)
  /\ tx' = [tx EXCEPT !.at = "append meta"]
  /\ UNCHANGED <<target, emb, meta, rcount, made, search, harm, faults>>

AppendMeta ==
  /\ InTx("put", "append meta")
  /\ meta' = meta \o [i \in DOMAIN tx.batch |-> [id |-> IdOf(i), alive |-> TRUE]]
  /\ tx' = [tx EXCEPT !.at = "commit", !.first = count + 1]
  /\ count' = count + Len(tx.batch)
  /\ UNCHANGED <<target, emb, vec, rcount, made, search, harm, faults>>

CommitPut ==
  /\ InTx("put", "commit")
  /\ emb' = [t \in Targets |->
       IF \E i \in DOMAIN tx.batch : tx.batch[i] = t
       THEN LET i == CHOOSE i \in DOMAIN tx.batch : tx.batch[i] = t
            IN  [id |-> IdOf(i), row |-> tx.first + i - 1]
       ELSE emb[t]]
  /\ tx' = NoTx
  /\ UNCHANGED <<target, vec, meta, count, rcount, made, search, harm, faults>>

-----------------------------------------------------------------------------
(* Compaction writes both files anew and renames them into place, the      *)
(* vectors first, then records the rows' new places.                       *)
LiveRows == {r \in 1..Opened(count) : meta[r].alive}
Keep(file, rows) == [i \in DOMAIN rows |-> file[rows[i]]]

BeginCompact(rows) ==
  /\ Free
  /\ harm # "torn"
  /\ Opened(count) <= Len(meta)  \* or slicing the meta file panics
  /\ LiveRows = {rows[i] : i \in DOMAIN rows}
  /\ \A i, j \in DOMAIN rows : i < j => rows[i] < rows[j]
  /\ count' = Opened(count)
  /\ tx' = [NoTx EXCEPT !.op = "compact", !.at = "rename vec", !.rows = rows]
  /\ UNCHANGED <<target, emb, vec, meta, rcount, made, search, harm, faults>>

(* Mutant: dead rows keep their vectors. *)
RenameAllVectors ==
  /\ InTx("compact", "rename vec")
  /\ tx' = [tx EXCEPT !.at = "rename meta"]
  /\ search' = [search EXCEPT !.clean = FALSE]
  /\ UNCHANGED <<target, emb, vec, meta, count, rcount, made, harm, faults>>

RenameVec ==
  /\ InTx("compact", "rename vec")
  /\ vec' = Keep(vec, tx.rows)
  /\ tx' = [tx EXCEPT !.at = "rename meta"]
  /\ search' = [search EXCEPT !.clean = FALSE]
  /\ UNCHANGED <<target, emb, meta, count, rcount, made, harm, faults>>

RenameMeta ==
  /\ InTx("compact", "rename meta")
  /\ meta' = Keep(meta, tx.rows)
  /\ count' = Len(tx.rows)
  /\ tx' = [tx EXCEPT !.at = "record"]
  /\ search' = [search EXCEPT !.clean = FALSE]
  /\ UNCHANGED <<target, emb, vec, rcount, made, harm, faults>>

PlaceOf(id) == {r \in DOMAIN meta : meta[r].id = id}

(* Mutant: the caller forgets the new rows. *)
RecordNothing ==
  /\ InTx("compact", "record")
  /\ tx' = NoTx
  /\ UNCHANGED <<target, emb, vec, meta, count, rcount, made, search, harm, faults>>

RecordRows ==
  /\ InTx("compact", "record")
  /\ emb' = [t \in Targets |->
       IF emb[t] # NoEmb /\ PlaceOf(emb[t].id) # {}
       THEN [emb[t] EXCEPT !.row = CHOOSE r \in PlaceOf(emb[t].id) : TRUE]
       ELSE emb[t]]
  /\ tx' = NoTx
  /\ UNCHANGED <<target, vec, meta, count, rcount, made, search, harm, faults>>

-----------------------------------------------------------------------------
(* A transaction stops half way: SQLite takes back its rows, nothing takes *)
(* back the bytes.                                                         *)
Harm ==
  IF tx.at \in {"append meta", "rename meta", "record"} THEN "torn"
  ELSE IF tx.dirty THEN "lost" ELSE harm

Rollback ==
  /\ ~Free
  /\ faults < MaxFaults
  /\ faults' = faults + 1
  /\ harm' = Harm
  /\ tx' = NoTx
  /\ UNCHANGED <<target, emb, vec, meta, rcount, made>>

Fail == Rollback /\ UNCHANGED <<count, search>>

(* The writer is killed and started again; a search it ran dies with it.   *)
Crash ==
  /\ Rollback
  /\ count' = Closed
  /\ search' = IF search.from = "here" THEN Idle ELSE search

-----------------------------------------------------------------------------
(* VectorStore::search takes the count under the tables' lock, which an    *)
(* append or a compaction of its own process holds until both files are    *)
(* done; everything after that is without it.                              *)
Renaming == InTx("compact", "rename meta")

StartSearch(from) ==
  /\ search.step \in {"idle", "failed"}
  /\ from = "here" => tx.at \notin {"append meta", "rename meta"}
  /\ LET cnt == Opened(IF from = "here" THEN count ELSE rcount)
     IN  /\ IF from = "here" THEN count' = cnt /\ UNCHANGED rcount
                             ELSE rcount' = cnt /\ UNCHANGED count
         /\ search' = IF cnt = 0 THEN Idle
                      ELSE [Idle EXCEPT !.step = "counted", !.from = from, !.cnt = cnt,
                                        !.clean = ~Renaming]
  /\ UNCHANGED <<target, emb, vec, meta, made, tx, harm, faults>>

OpenVec ==
  /\ search.step = "counted"
  /\ search' = [search EXCEPT !.step = "opened", !.v = vec]
  /\ UNCHANGED <<target, emb, vec, meta, count, rcount, made, tx, harm, faults>>

(* The best 2K of the rows both files have; which are best is the query's. *)
Usable == CHOOSE n \in {search.cnt, Len(search.v), Len(meta)} :
            \A m \in {search.cnt, Len(search.v), Len(meta)} : n <= m
Alive == {r \in 1..Usable : meta[r].alive}

Scan ==
  /\ search.step = "opened"
  /\ \E best \in SUBSET Alive :
       /\ Cardinality(best) = IF Cardinality(Alive) < 2 * K THEN Cardinality(Alive) ELSE 2 * K
       /\ search' = [search EXCEPT
            !.step = "scanned", !.v = <<>>,
            !.hits = {[id |-> meta[r].id, of |-> search.v[r]] : r \in best}]
  /\ UNCHANGED <<target, emb, vec, meta, count, rcount, made, tx, harm, faults>>

(* resolve_target drops a hit whose embedding or target is gone.  For a    *)
(* description it joins the subject it takes its time range from: when     *)
(* that one is gone the columns are NULL, and reading them is an error.    *)
Found == {t \in Targets : emb[t] # NoEmb /\ target[t] = "present"
                          /\ \E h \in search.hits : h.id = emb[t].id}
Orphan(t) == KindOf[t] = "description" /\ target[Subject[t]] # "present"
Good == {t \in Found : ~Orphan(t)}

CanResolve == search.step = "scanned" /\ (search.from = "here" => Free)

ResolveHits ==
  /\ CanResolve
  /\ Cardinality(Good) >= K \/ Good = Found
  /\ search' = Idle
  /\ UNCHANGED <<target, emb, vec, meta, count, rcount, made, tx, harm, faults>>

(* It stops at K hits, so the error needs an orphan before the K-th.       *)
ResolveFails ==
  /\ CanResolve
  /\ Good # Found
  /\ search' = [Idle EXCEPT !.step = "failed"]
  /\ UNCHANGED <<target, emb, vec, meta, count, rcount, made, tx, harm, faults>>

-----------------------------------------------------------------------------
Write ==
  \/ \E t \in Targets : PutTarget(t) \/ Kill(t)
  \/ \E S \in SUBSET Targets \ {{}} : DeletePlain(S) \/ BeginDrop(S)
  \/ \E n \in 1..MaxBatch : \E batch \in [1..n -> Targets] : BeginPut(batch)
  \/ CommitDrop \/ AppendVec \/ AppendMeta \/ CommitPut
  \/ \E n \in 0..Opened(count) : \E rows \in [1..n -> 1..Opened(count)] : BeginCompact(rows)
  \/ RenameVec \/ RenameMeta \/ RecordRows

Search ==
  \/ \E from \in {"here", "elsewhere"} : StartSearch(from)
  \/ OpenVec \/ Scan \/ ResolveHits \/ ResolveFails

Next == Write \/ Fail \/ Crash \/ Search

Spec == Init /\ [][Next]_vars

-----------------------------------------------------------------------------
Transactions ==
  [op : {"none", "put", "drop", "compact"},
   at : {"none", "kill", "append vec", "append meta", "commit",
         "rename vec", "rename meta", "record"},
   left : SUBSET Targets, doomed : SUBSET Targets, batch : Seq(Targets),
   first : 0..(MaxVectors + 1), rows : Seq(1..MaxVectors), dirty : BOOLEAN]

Searches ==
  [step : {"idle", "counted", "opened", "scanned", "failed"},
   from : {"here", "elsewhere"}, cnt : 0..MaxVectors, v : Seq(1..MaxVectors),
   hits : SUBSET [id : 1..MaxVectors, of : 1..MaxVectors], clean : BOOLEAN]

(* The state has the shape the code gives it.                              *)
TypeOK ==
  /\ target \in [Targets -> {"new", "present", "gone"}]
  /\ emb \in [Targets -> [id : 0..MaxVectors, row : 0..MaxVectors]]
  /\ vec \in Seq(1..MaxVectors)
  /\ meta \in Seq([id : 1..MaxVectors, alive : BOOLEAN])
  /\ count \in 0..MaxVectors \cup {Closed}
  /\ rcount \in 0..MaxVectors \cup {Closed}
  /\ made \in 0..MaxVectors
  /\ tx \in Transactions
  /\ search \in Searches
  /\ harm \in {"none", "lost", "torn"}
  /\ faults \in 0..MaxFaults

IsHome(e, r) == /\ r \in DOMAIN vec \cap DOMAIN meta
                /\ vec[r] = e.id
                /\ meta[r].id = e.id

(* The row the table has for an embedding is that embedding's own, and     *)
(* alive, in both files: get_embeddings and the next tombstone go there.   *)
(* Outside a compaction, for targets the running transaction leaves alone, *)
(* and as long as no transaction was rolled back after killing rows.       *)
RowsPointHome ==
  harm = "none" /\ tx.op # "compact" =>
    \A t \in Targets \ Busy :
      emb[t] # NoEmb => IsHome(emb[t], emb[t].row) /\ meta[emb[t].row].alive

(* Rolled-back transactions leave rows dead that the table still names,    *)
(* and compaction then leaves the table with numbers of rows that are      *)
(* others' by now.  But whatever is still alive is where the table says,   *)
(* so what a search can find, get_embeddings reads right.                  *)
LiveRowsPointHome ==
  harm # "torn" /\ tx.op # "compact" =>
    \A t \in Targets : \A r \in DOMAIN meta :
      emb[t] # NoEmb /\ meta[r].id = emb[t].id /\ meta[r].alive
        => emb[t].row = r /\ IsHome(emb[t], r)

(* When put_embeddings commits, each of its targets has a vector of its    *)
(* own in the files, alive, at the row the table was given.                *)
CommitStores ==
  [][tx.op = "put" /\ emb' # emb =>
       \A t \in Batch : /\ emb'[t] # emb[t]
                        /\ IsHome(emb'[t], emb'[t].row)
                        /\ meta[emb'[t].row].alive]_vars

(* A search that no compaction ran into scores each hit by the hit's own   *)
(* vector, whatever was appended, killed, rolled back or compacted before  *)
(* or meanwhile, and however old the searching process's row count is.     *)
HitsAreRight == search.clean /\ harm # "torn" => \A h \in search.hits : h.id = h.of

(* vector_search over-fetches "so hits whose targets vanished can be       *)
(* dropped": a vanished target is no reason for a search to fail.          *)
SearchNeverFails == search.step # "failed"

(* The table and the two files keep naming the same vectors.               *)
FilesMatchTheTable == TypeOK /\ RowsPointHome /\ LiveRowsPointHome
=============================================================================
