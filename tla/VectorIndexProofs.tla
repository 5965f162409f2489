-------------------------- MODULE VectorIndexProofs --------------------------
(***************************************************************************)
(* Proofs about VectorIndex, for any set of targets, any number of         *)
(* embeddings, any batch size and any number of faults.                    *)
(*                                                                         *)
(* The properties follow from one invariant.  Its core pairs the two files *)
(* row by row and says, for each step of an append or a compaction, how    *)
(* far they are apart; on top of that come what the table knows of the     *)
(* rows and what an unlocked search may have seen of the files.            *)
(***************************************************************************)
EXTENDS VectorIndex, TLAPS

Whole == harm # "torn"

(* The transaction's fields fit its kind and its step. *)
TxInv ==
  /\ tx.op = "none" => tx.at = "none" /\ tx.doomed = {} /\ tx.batch = <<>> /\ ~tx.dirty
  /\ tx.op = "put" => /\ tx.at \in {"kill", "append vec", "append meta", "commit"}
                      /\ tx.doomed = {}
                      /\ Len(tx.batch) > 0
                      /\ Len(tx.batch) <= made
                      /\ \A i, j \in 1..Len(tx.batch) : tx.batch[i] = tx.batch[j] => i = j
  /\ tx.op = "drop" => tx.at \in {"kill", "commit"} /\ tx.batch = <<>>
  /\ tx.op = "compact" => /\ tx.at \in {"rename vec", "rename meta", "record"}
                          /\ tx.doomed = {} /\ tx.batch = <<>> /\ ~tx.dirty
  /\ tx.left # {} => tx.at = "kill"
  /\ tx.left \subseteq Busy
  /\ ~Whole => tx.op = "none"

(* The embeddings of the running put that are not in the meta file yet,    *)
(* and those not in the table yet.                                         *)
Unwritten == IF tx.at \in {"kill", "append vec", "append meta"} THEN Len(tx.batch) ELSE 0
Unsaved == Len(tx.batch)

Paired == \A r \in 1..Len(meta) : vec[r] = meta[r].id

(* How the files stand to each other. *)
FilesInv ==
  /\ Len(vec) <= made
  /\ Whole =>
       /\ count # Closed => count = Len(meta)
       /\ tx.at \notin {"append meta", "rename meta"} => Len(vec) = Len(meta) /\ Paired
       /\ tx.at = "append meta" =>
            /\ count = Len(meta)
            /\ Len(vec) = Len(meta) + Len(tx.batch)
            /\ Paired
            /\ \A i \in 1..Len(tx.batch) : vec[Len(meta) + i] = IdOf(i)
       /\ tx.at = "rename meta" =>
            /\ Len(vec) = Len(tx.rows)
            /\ \A i \in 1..Len(tx.rows) : vec[i] = meta[tx.rows[i]].id
       /\ Len(meta) + Unwritten <= made

(* A compaction copies the live rows, in order. *)
RowsInv ==
  tx.at \in {"rename vec", "rename meta"} =>
    /\ count = Len(meta)
    /\ Len(tx.rows) <= Len(meta)
    /\ \A i \in 1..Len(tx.rows) : tx.rows[i] \in 1..Len(meta) /\ meta[tx.rows[i]].alive
    /\ \A r \in 1..Len(meta) : meta[r].alive => \E i \in 1..Len(tx.rows) : tx.rows[i] = r
    /\ \A i, j \in 1..Len(tx.rows) : i < j => tx.rows[i] < tx.rows[j]

(* Embeddings are written once. *)
IdsInv ==
  Whole =>
    /\ \A r \in 1..Len(meta) : meta[r].id <= made - Unwritten
    /\ \A r, s \in 1..Len(meta) : meta[r].id = meta[s].id => r = s

(* The table has each embedding once, and none of the running put. *)
EmbInv ==
  /\ \A t \in Targets : emb[t].id <= made - Unsaved
  /\ \A t, u \in Targets : emb[t].id = emb[u].id => t = u \/ emb[t].id = 0
  /\ \A t \in Targets : emb[t].id = 0 => emb[t] = NoEmb

(* Live rows are where the table says, except between the second rename    *)
(* and the record, when all rows are live and moved.                       *)
LiveInv ==
  Whole =>
    /\ tx.at # "record" =>
         \A t \in Targets : \A r \in 1..Len(meta) :
           meta[r].id = emb[t].id /\ meta[r].alive => emb[t].row = r
    /\ tx.at = "record" => \A r \in 1..Len(meta) : meta[r].alive

AtHome(t) ==
  /\ emb[t].row \in 1..Len(meta)
  /\ meta[emb[t].row].id = emb[t].id
  /\ meta[emb[t].row].alive

(* As long as nothing was rolled back, the table names live rows, except   *)
(* those the running transaction has killed.                               *)
HomeInv ==
  harm = "none" =>
    \A t \in Targets :
      emb[t] # NoEmb /\ (t \in Busy \ tx.left => ~tx.dirty) =>
        IF tx.at = "record" THEN \E r \in 1..Len(meta) : meta[r].id = emb[t].id
                            ELSE AtHome(t)

(* A put that is ready to commit has its rows. *)
StoredInv ==
  tx.op = "put" /\ tx.at = "commit" =>
    \A i \in 1..Len(tx.batch) :
      /\ tx.first + i - 1 \in 1..Len(meta)
      /\ meta[tx.first + i - 1] = [id |-> IdOf(i), alive |-> TRUE]

(* What a search that no compaction ran into has seen. *)
SearchInv ==
  Whole /\ search.clean =>
    /\ search.step \in {"counted", "opened"} => tx.at # "rename meta"
    /\ search.step = "opened" =>
         /\ Len(search.v) <= Len(vec)
         /\ \A r \in 1..Len(search.v) : search.v[r] = vec[r]
    /\ \A h \in search.hits : h.id = h.of

IInv == /\ TypeOK /\ TxInv /\ FilesInv /\ RowsInv /\ IdsInv /\ EmbInv
        /\ LiveInv /\ HomeInv /\ StoredInv /\ SearchInv

-----------------------------------------------------------------------------
(* Facts about sequences. *)
LEMMA SeqOf ==
  ASSUME NEW S, NEW n \in Nat, NEW f \in [1..n -> S]
  PROVE  f \in Seq(S) /\ Len(f) = n /\ DOMAIN f = 1..n
OBVIOUS

(* The elements of a sequence. *)
LEMMA ElementOf ==
  ASSUME NEW S, NEW s \in Seq(S), NEW i \in 1..Len(s)
  PROVE  s[i] \in S
OBVIOUS

(* One sequence after the other. *)
LEMMA Concat ==
  ASSUME NEW S, NEW a \in Seq(S), NEW b \in Seq(S)
  PROVE  /\ a \o b \in Seq(S)
         /\ Len(a \o b) = Len(a) + Len(b)
         /\ \A k \in 1..Len(a) : (a \o b)[k] = a[k]
         /\ \A k \in 1..Len(b) : (a \o b)[Len(a) + k] = b[k]
OBVIOUS

(* What the type invariant says of the parts.                              *)
LEMMA Types ==
  ASSUME TypeOK
  PROVE  /\ Len(vec) \in Nat /\ Len(meta) \in Nat /\ made \in Nat
         /\ Len(tx.batch) \in Nat /\ Len(tx.rows) \in Nat
         /\ DOMAIN vec = 1..Len(vec) /\ DOMAIN meta = 1..Len(meta)
         /\ DOMAIN tx.batch = 1..Len(tx.batch) /\ DOMAIN tx.rows = 1..Len(tx.rows)
         /\ \A r \in 1..Len(meta) : meta[r].id \in Nat \ {0}
         /\ \A t \in Targets : emb[t].id \in Nat /\ emb[t].row \in Nat
<1>1. /\ vec \in Seq(1..MaxVectors) /\ meta \in Seq([id : 1..MaxVectors, alive : BOOLEAN])
      /\ made \in 0..MaxVectors
      /\ tx.batch \in Seq(Targets) /\ tx.rows \in Seq(1..MaxVectors)
      /\ emb \in [Targets -> [id : 0..MaxVectors, row : 0..MaxVectors]]
  BY DEF TypeOK, Transactions
<1>2. \A r \in 1..Len(meta) : meta[r] \in [id : 1..MaxVectors, alive : BOOLEAN]
  BY <1>1, ElementOf
<1>3. \A t \in Targets : emb[t] \in [id : 0..MaxVectors, row : 0..MaxVectors]
  BY <1>1
<1>4. MaxVectors \in Nat
  BY BoundsAssumption
<1>5. \A r \in 1..Len(meta) : meta[r].id \in Nat \ {0}
  BY <1>2, <1>4
<1>6. \A t \in Targets : emb[t].id \in Nat /\ emb[t].row \in Nat
  BY <1>3, <1>4
<1>7. QED
  BY <1>1, <1>4, <1>5, <1>6

(* A process that opens whole files between two writes sees all rows. *)
LEMMA OpenedAll ==
  ASSUME TypeOK, FilesInv, Whole, tx.at \notin {"append meta", "rename meta"}
  PROVE  Opened(count) = Len(meta)
BY DEF FilesInv, Opened

(* The row count of a process is within the bound. *)
LEMMA OpenedBounds ==
  ASSUME TypeOK, FilesInv
  PROVE  Opened(count) \in 0..MaxVectors /\ Opened(rcount) \in 0..MaxVectors
<1>1. Len(vec) \in 0..MaxVectors
  <2>1. vec \in Seq(1..MaxVectors) /\ made \in 0..MaxVectors /\ Len(vec) <= made
    BY DEF TypeOK, FilesInv
  <2>2. QED
    BY <2>1, BoundsAssumption
<1>2. count \in 0..MaxVectors \cup {Closed} /\ rcount \in 0..MaxVectors \cup {Closed}
  BY DEF TypeOK
<1>3. QED
  BY <1>1, <1>2 DEF Opened

-----------------------------------------------------------------------------
(* A model without files satisfies the invariant. *)
LEMMA InitInvariant == Init => IInv
<1> SUFFICES ASSUME Init PROVE IInv
  OBVIOUS
<1> USE DEF Init
<1>1. TypeOK
  BY BoundsAssumption DEF TypeOK, NoEmb, NoTx, Idle, Transactions, Searches
<1>2. TxInv /\ RowsInv /\ StoredInv
  BY DEF TxInv, RowsInv, StoredInv, NoTx, Busy, Batch, Whole
<1>3. FilesInv /\ IdsInv
  BY DEF FilesInv, IdsInv, NoTx, Whole, Paired, Unwritten
<1>4. EmbInv /\ LiveInv /\ HomeInv /\ SearchInv
  BY DEF EmbInv, LiveInv, HomeInv, SearchInv, NoTx, NoEmb, Idle, Unsaved
<1>5. QED
  BY <1>1, <1>2, <1>3, <1>4 DEF IInv

(* What the invariant says of the table and the files depends on them only.*)
LEMMA SameFiles ==
  ASSUME UNCHANGED <<emb, vec, meta, made, tx, harm>>
  PROVE  /\ TxInv => TxInv'
         /\ count' = count => (FilesInv => FilesInv') /\ (RowsInv => RowsInv')
         /\ IdsInv => IdsInv'
         /\ EmbInv => EmbInv'
         /\ LiveInv => LiveInv'
         /\ HomeInv => HomeInv'
         /\ StoredInv => StoredInv'
         /\ search' = search => (SearchInv => SearchInv')
<1>1. /\ emb' = emb /\ vec' = vec /\ meta' = meta
      /\ made' = made /\ tx' = tx /\ harm' = harm
  OBVIOUS
<1>2. TxInv => TxInv'
  <2>1. Busy' = Busy /\ Whole' = Whole
    BY <1>1 DEF Busy, Batch, Whole
  <2>2. QED
    BY <1>1, <2>1 DEF TxInv
<1>3. ASSUME count' = count PROVE (FilesInv => FilesInv') /\ (RowsInv => RowsInv')
  BY <1>1, <1>3 DEF FilesInv, RowsInv, Whole, Paired, Unwritten, IdOf
<1>4. (IdsInv => IdsInv') /\ (EmbInv => EmbInv')
  BY <1>1 DEF IdsInv, EmbInv, Whole, Unwritten, Unsaved
<1>5. LiveInv => LiveInv'
  BY <1>1 DEF LiveInv, Whole
<1>6. HomeInv => HomeInv'
  BY <1>1 DEF HomeInv, Busy, Batch, AtHome
<1>7. StoredInv => StoredInv'
  BY <1>1 DEF StoredInv, IdOf
<1>8. ASSUME search' = search PROVE SearchInv => SearchInv'
  BY <1>1, <1>8 DEF SearchInv, Whole
<1>9. QED
  BY <1>2, <1>3, <1>4, <1>5, <1>6, <1>7, <1>8

(* Rows embeddings belong to come and go without the files. *)
LEMMA TargetsStep ==
  ASSUME IInv, target' \in [Targets -> {"new", "present", "gone"}],
         UNCHANGED <<emb, vec, meta, count, rcount, made, tx, search, harm, faults>>
  PROVE  IInv'
<1>1. TypeOK
  BY DEF IInv
<1>2. /\ emb' = emb /\ vec' = vec /\ meta' = meta /\ count' = count /\ rcount' = rcount
      /\ made' = made /\ tx' = tx /\ search' = search /\ harm' = harm /\ faults' = faults
  OBVIOUS
<1>3. TypeOK'
  BY <1>1, <1>2, Zenon DEF TypeOK
<1>4. QED
  BY <1>3, SameFiles DEF IInv

(* A search changes nothing, except that a process opens its table.        *)
LEMMA SearchStep ==
  ASSUME IInv, TypeOK', SearchInv',
         UNCHANGED <<target, emb, vec, meta, made, tx, harm, faults>>,
         \/ count' = count
         \/ count' = Opened(count) /\ tx.at \notin {"append meta", "rename meta"}
  PROVE  IInv'
<1>1. CASE count' = count
  BY <1>1, SameFiles DEF IInv
<1>2. CASE count' # count
  <2>1. count = Closed /\ tx.at \notin {"append meta", "rename meta"}
    BY <1>2 DEF Opened
  <2>2. Whole => count' = Len(meta)
    BY <1>2, OpenedAll DEF IInv
  <2>3. FilesInv'
    BY <2>1, <2>2 DEF IInv, FilesInv, Whole, Paired, Unwritten
  <2>4. RowsInv'
    <3>1. tx.at # "rename vec"
      <4> SUFFICES ASSUME tx.at = "rename vec" PROVE FALSE
        OBVIOUS
      <4>1. TypeOK /\ RowsInv
        BY DEF IInv
      <4>2. count = Len(meta)
        BY <4>1 DEF RowsInv
      <4>3. Len(meta) \in Nat
        BY <4>1, Types
      <4>4. QED
        BY <2>1, <4>2, <4>3, ClosedAssumption
    <3>2. QED
      BY <2>1, <3>1 DEF RowsInv
  <2>5. QED
    BY <2>3, <2>4, SameFiles DEF IInv
<1>3. QED
  BY <1>1, <1>2

-----------------------------------------------------------------------------
(* Transactions begin. *)
LEMMA FirstRow == 0 \in 0..(MaxVectors + 1)
BY BoundsAssumption

(* A record that begins a transaction is one. *)
LEMMA TxMade ==
  ASSUME NEW op, op \in {"put", "drop", "compact"}, NEW at, at \in {"kill", "rename vec"},
         NEW left, left \subseteq Targets, NEW doomed, doomed \subseteq Targets,
         NEW batch, batch \in Seq(Targets), NEW rows, rows \in Seq(1..MaxVectors)
  PROVE  [op |-> op, at |-> at, left |-> left, doomed |-> doomed, batch |-> batch,
          first |-> 0, rows |-> rows, dirty |-> FALSE] \in Transactions
<1>1. /\ op \in {"none", "put", "drop", "compact"}
      /\ at \in {"none", "kill", "append vec", "append meta", "commit",
                 "rename vec", "rename meta", "record"}
      /\ left \in SUBSET Targets /\ doomed \in SUBSET Targets /\ FALSE \in BOOLEAN
  OBVIOUS
<1>2. QED
  BY <1>1, FirstRow, Zenon DEF Transactions

(* The empty sequence. *)
LEMMA EmptySeq == ASSUME NEW S PROVE <<>> \in Seq(S) /\ Len(<<>>) = 0
OBVIOUS

(* Frames or spans, with the ocr spans of the frames, are about to be killed. *)
LEMMA BeginDropStep ==
  ASSUME IInv, NEW S \in SUBSET Targets, BeginDrop(S)
  PROVE  IInv'
<1>1. PICK doomed \in SUBSET Targets :
        tx' = [NoTx EXCEPT !.op = "drop", !.at = "kill", !.left = doomed, !.doomed = doomed]
  BY DEF BeginDrop
<1>2. /\ tx'.op = "drop" /\ tx'.at = "kill" /\ tx'.left = doomed /\ tx'.doomed = doomed
      /\ tx'.batch = <<>> /\ tx'.first = 0 /\ tx'.rows = <<>> /\ tx'.dirty = FALSE
  BY <1>1 DEF NoTx
<1>3. /\ tx.op = "none" /\ Whole
      /\ emb' = emb /\ vec' = vec /\ meta' = meta /\ count' = count /\ made' = made
      /\ harm' = harm /\ search' = search /\ target' = target /\ rcount' = rcount
      /\ faults' = faults
  BY DEF BeginDrop, Free, Whole
<1>4. TypeOK /\ TxInv /\ FilesInv /\ IdsInv /\ EmbInv /\ LiveInv /\ HomeInv /\ SearchInv
  BY DEF IInv
<1>5. tx.at = "none" /\ tx.batch = <<>> /\ tx.doomed = {} /\ Busy = {}
  BY <1>3, <1>4 DEF TxInv, Busy, Batch
<1>6. Len(<<>>) = 0
  OBVIOUS
<1>7. TypeOK'
  <2>1. tx' \in Transactions
    <3>1. tx' = [op |-> "drop", at |-> "kill", left |-> doomed, doomed |-> doomed,
                 batch |-> <<>>, first |-> 0, rows |-> <<>>, dirty |-> FALSE]
      BY <1>1 DEF NoTx
    <3>2. QED
      BY <3>1, TxMade, EmptySeq
  <2>2. QED
    BY <2>1, <1>3, <1>4, Zenon DEF TypeOK
<1>8. Busy' = doomed /\ Whole'
  BY <1>2, <1>3 DEF Busy, Batch, Whole
<1>9. TxInv'
  BY <1>2, <1>8 DEF TxInv
<1>10. FilesInv'
  BY <1>2, <1>3, <1>4, <1>5, <1>6 DEF FilesInv, Whole, Paired, Unwritten
<1>11. IdsInv' /\ EmbInv'
  BY <1>2, <1>3, <1>4, <1>5, <1>6 DEF IdsInv, EmbInv, Whole, Unwritten, Unsaved
<1>12. LiveInv' /\ RowsInv' /\ StoredInv'
  BY <1>2, <1>3, <1>4, <1>5 DEF LiveInv, RowsInv, StoredInv, Whole
<1>13. HomeInv'
  BY <1>2, <1>3, <1>4, <1>5 DEF HomeInv, AtHome
<1>14. SearchInv'
  BY <1>2, <1>3, <1>4, <1>5 DEF SearchInv, Whole
<1>15. QED
  BY <1>7, <1>9, <1>10, <1>11, <1>12, <1>13, <1>14 DEF IInv

(* The ids given out are those of the new rows. *)
LEMMA BeginPutStep ==
  ASSUME IInv, NEW n \in Nat \ {0}, NEW batch \in [1..n -> Targets], BeginPut(batch)
  PROVE  IInv'
<1>1. batch \in Seq(Targets) /\ Len(batch) = n /\ DOMAIN batch = 1..n
  BY SeqOf
<1>2. tx' = [NoTx EXCEPT !.op = "put", !.at = "kill", !.batch = batch,
                         !.left = {batch[i] : i \in DOMAIN batch}]
  BY DEF BeginPut
<1>3. /\ tx'.op = "put" /\ tx'.at = "kill" /\ tx'.left = {batch[i] : i \in DOMAIN batch}
      /\ tx'.doomed = {} /\ tx'.batch = batch /\ tx'.first = 0 /\ tx'.rows = <<>>
      /\ tx'.dirty = FALSE
  BY <1>2 DEF NoTx
<1>4. /\ tx.op = "none" /\ Whole /\ made' = made + n /\ made + n <= MaxVectors
      /\ \A i, j \in 1..n : batch[i] = batch[j] => i = j
      /\ emb' = emb /\ vec' = vec /\ meta' = meta /\ count' = count
      /\ harm' = harm /\ search' = search /\ target' = target /\ rcount' = rcount
      /\ faults' = faults
  BY <1>1 DEF BeginPut, Free, Whole
<1>5. TypeOK /\ TxInv /\ FilesInv /\ IdsInv /\ EmbInv /\ LiveInv /\ HomeInv /\ SearchInv
  BY DEF IInv
<1>6. tx.at = "none" /\ tx.batch = <<>> /\ tx.doomed = {} /\ Busy = {}
  BY <1>4, <1>5 DEF TxInv, Busy, Batch
<1>7. Len(<<>>) = 0 /\ made \in Nat /\ Len(vec) \in Nat /\ Len(meta) \in Nat
  BY <1>5, Types
<1>8. TypeOK'
  <2>1. tx' \in Transactions
    <3>1. tx' = [op |-> "put", at |-> "kill", left |-> {batch[i] : i \in DOMAIN batch},
                 doomed |-> {}, batch |-> batch, first |-> 0, rows |-> <<>>, dirty |-> FALSE]
      BY <1>2 DEF NoTx
    <3>2. {batch[i] : i \in DOMAIN batch} \in SUBSET Targets
      BY <1>1
    <3>3. QED
      BY <3>1, <3>2, <1>1, TxMade, EmptySeq
  <2>2. made' \in 0..MaxVectors
    BY <1>4, <1>7, BoundsAssumption
  <2>3. QED
    BY <2>1, <2>2, <1>4, <1>5, Zenon DEF TypeOK
<1>9. Busy' = {batch[i] : i \in DOMAIN batch} /\ Whole'
  BY <1>3, <1>4 DEF Busy, Batch, Whole
<1>10. TxInv'
  BY <1>1, <1>3, <1>4, <1>7, <1>9 DEF TxInv
<1>11. FilesInv'
  BY <1>1, <1>3, <1>4, <1>5, <1>6, <1>7 DEF FilesInv, Whole, Paired, Unwritten
<1>12. IdsInv' /\ EmbInv'
  <2>1. made' - n = made
    BY <1>4, <1>7
  <2>2. Unwritten = 0 /\ Unwritten' = n /\ Unsaved = 0 /\ Unsaved' = n
    BY <1>1, <1>3, <1>6, <1>7 DEF Unwritten, Unsaved
  <2>3. IdsInv'
    <3>1. /\ \A r \in 1..Len(meta) : meta[r].id <= made - 0
          /\ \A r, s \in 1..Len(meta) : meta[r].id = meta[s].id => r = s
      BY <2>2, <1>4, <1>5 DEF IdsInv
    <3>2. made' - Unwritten' = made - 0
      BY <2>1, <2>2, <1>7
    <3>3. QED
      BY <3>1, <3>2, <1>4 DEF IdsInv
  <2>4. EmbInv'
    <3>1. /\ \A t \in Targets : emb[t].id <= made - 0
          /\ \A t, u \in Targets : emb[t].id = emb[u].id => t = u \/ emb[t].id = 0
          /\ \A t \in Targets : emb[t].id = 0 => emb[t] = NoEmb
      BY <2>2, <1>5 DEF EmbInv
    <3>2. made' - Unsaved' = made - 0
      BY <2>1, <2>2, <1>7
    <3>3. QED
      BY <3>1, <3>2, <1>4 DEF EmbInv
  <2>5. QED
    BY <2>3, <2>4
<1>13. LiveInv' /\ RowsInv' /\ StoredInv'
  BY <1>3, <1>4, <1>5, <1>6 DEF LiveInv, RowsInv, StoredInv, Whole
<1>14. HomeInv'
  BY <1>3, <1>4, <1>5, <1>6 DEF HomeInv, AtHome
<1>15. SearchInv'
  BY <1>3, <1>4, <1>5, <1>6 DEF SearchInv, Whole
<1>16. QED
  BY <1>8, <1>10, <1>11, <1>12, <1>13, <1>14, <1>15 DEF IInv

-----------------------------------------------------------------------------
(* Transactions go on. *)
Metas == [id : 1..MaxVectors, alive : BOOLEAN]

Killed(m, row) == [m EXCEPT ![row].alive = FALSE]

(* Killing a row changes nothing but its flag. *)
LEMMA KilledRow ==
  ASSUME NEW m \in Seq(Metas), NEW row \in Nat
  PROVE  /\ Killed(m, row) \in Seq(Metas) /\ Len(Killed(m, row)) = Len(m)
         /\ \A r \in 1..Len(m) : /\ Killed(m, row)[r].id = m[r].id
                                 /\ Killed(m, row)[r].alive => m[r].alive
                                 /\ r # row => Killed(m, row)[r] = m[r]
<1> DEFINE n == Killed(m, row)
<1>1. m \in [1..Len(m) -> Metas] /\ Len(m) \in Nat
  OBVIOUS
<1>2. \A r \in 1..Len(m) : n[r] = IF r = row THEN [m[r] EXCEPT !.alive = FALSE] ELSE m[r]
  BY <1>1 DEF Killed
<1>3. \A r \in 1..Len(m) : m[r] \in Metas
  BY <1>1
<1>4. \A r \in 1..Len(m) : n[r] \in Metas /\ n[r].id = m[r].id /\ (n[r].alive => m[r].alive)
  <2> SUFFICES ASSUME NEW r \in 1..Len(m)
               PROVE  n[r] \in Metas /\ n[r].id = m[r].id /\ (n[r].alive => m[r].alive)
    OBVIOUS
  <2>1. m[r] \in Metas
    BY <1>3
  <2>2. CASE r = row
    <3>1. n[r] = [m[r] EXCEPT !.alive = FALSE]
      BY <1>2, <2>2
    <3>2. n[r].id = m[r].id /\ n[r].alive = FALSE /\ n[r] \in Metas
      BY <2>1, <3>1 DEF Metas
    <3>3. QED
      BY <3>2
  <2>3. CASE r # row
    BY <1>2, <2>1, <2>3
  <2>4. QED
    BY <2>2, <2>3
<1>5. n \in [1..Len(m) -> Metas]
  BY <1>1, <1>4 DEF Killed
<1>6. QED
  BY <1>1, <1>2, <1>4, <1>5, SeqOf

(* A row that is killed is the one the table has for the target: no other *)
(* target loses its own.                                                  *)
LEMMA KillStep ==
  ASSUME IInv, NEW t \in Targets, Kill(t)
  PROVE  IInv'
<1> DEFINE kills == emb[t] # NoEmb /\ emb[t].row <= Opened(count)
           next == IF tx.left # {t} THEN "kill"
                   ELSE IF tx.op = "put" THEN "append vec" ELSE "commit"
<1>1. /\ TypeOK /\ TxInv /\ FilesInv /\ IdsInv /\ EmbInv /\ LiveInv /\ HomeInv
      /\ StoredInv /\ SearchInv
  BY DEF IInv
<1>2. /\ tx.at = "kill" /\ t \in tx.left
      /\ count' = (IF emb[t] = NoEmb THEN count ELSE Opened(count))
      /\ meta' = (IF kills THEN [meta EXCEPT ![emb[t].row].alive = FALSE] ELSE meta)
      /\ tx' = [tx EXCEPT !.left = @ \ {t}, !.dirty = @ \/ kills, !.at = next]
      /\ emb' = emb /\ vec' = vec /\ made' = made /\ harm' = harm /\ search' = search
      /\ target' = target /\ rcount' = rcount /\ faults' = faults
  BY DEF Kill
<1>3. tx.op \in {"put", "drop"} /\ Whole /\ (tx.op = "drop" => Len(tx.batch) = 0)
  BY <1>1, <1>2, EmptySeq DEF TxInv, TypeOK, Transactions
<1>4. tx \in Transactions
  BY <1>1 DEF TypeOK
<1>5. /\ tx'.left = tx.left \ {t} /\ tx'.at = next /\ tx'.op = tx.op
      /\ tx'.doomed = tx.doomed /\ tx'.batch = tx.batch /\ tx'.first = tx.first
      /\ tx'.rows = tx.rows
  BY <1>2, <1>4 DEF Transactions
<1>6. tx'.dirty = (tx.dirty \/ kills)
  BY <1>2, <1>4 DEF Transactions
<1>7. tx' \in Transactions
  <2>1. next \in {"kill", "append vec", "commit"} /\ (tx.dirty \/ kills) \in BOOLEAN
        /\ tx.left \ {t} \in SUBSET Targets
    BY <1>4 DEF Transactions
  <2>2. QED
    BY <1>2, <1>4, <2>1 DEF Transactions
<1>8. /\ next # "kill" /\ tx.op = "put" => next = "append vec"
      /\ next # "kill" /\ tx.op = "drop" => next = "commit"
      /\ next # "kill" => tx.left \ {t} = {}
  BY <1>3
<1>9. Busy' = Busy /\ Whole' = Whole
  BY <1>2, <1>5 DEF Busy, Batch, Whole
<1>10. Opened(count) = Len(meta)
  BY <1>1, <1>2, <1>3, OpenedAll
<1>11. /\ meta' \in Seq(Metas) /\ Len(meta') = Len(meta)
       /\ \A r \in 1..Len(meta) :
            /\ meta'[r].id = meta[r].id
            /\ meta'[r].alive => meta[r].alive
            /\ ~kills \/ r # emb[t].row => meta'[r] = meta[r]
  <2>1. meta \in Seq(Metas) /\ emb[t].row \in Nat
    BY <1>1, Types DEF TypeOK, Metas
  <2>2. CASE kills
    <3>1. meta' = Killed(meta, emb[t].row)
      BY <1>2, <2>2 DEF Killed
    <3>2. /\ meta' \in Seq(Metas) /\ Len(meta') = Len(meta)
          /\ \A r \in 1..Len(meta) : /\ meta'[r].id = meta[r].id
                                     /\ meta'[r].alive => meta[r].alive
                                     /\ r # emb[t].row => meta'[r] = meta[r]
      BY <2>1, <3>1, KilledRow
    <3>3. QED
      BY <2>2, <3>2, Zenon
  <2>3. CASE ~kills
    BY <1>2, <2>1, <2>3
  <2>4. QED
    BY <2>2, <2>3
<1>12. TypeOK'
  <2>1. count' \in 0..MaxVectors \cup {Closed}
    BY <1>1, <1>2, OpenedBounds DEF TypeOK
  <2>2. QED
    BY <1>1, <1>2, <1>7, <1>11, <2>1, Zenon DEF TypeOK, Metas
<1>13. TxInv'
  <2>1. tx.left \ {t} # {} => next = "kill"
    BY <1>8
  <2>2. QED
    BY <1>1, <1>2, <1>3, <1>5, <1>8, <1>9, <2>1 DEF TxInv
<1>14. Unwritten = Len(tx.batch) /\ Unwritten' = Len(tx.batch)
  BY <1>2, <1>3, <1>5, <1>8 DEF Unwritten
<1>15. FilesInv'
  <2>1. next \notin {"append meta", "rename meta"}
    BY <1>8
  <2>2. Paired'
    BY <1>1, <1>2, <1>3, <1>11 DEF FilesInv, Paired
  <2>3. QED
    BY <1>1, <1>2, <1>3, <1>5, <1>9, <1>10, <1>11, <1>14, <2>1, <2>2 DEF FilesInv
<1>16. RowsInv' /\ StoredInv'
  BY <1>3, <1>5, <1>8 DEF RowsInv, StoredInv
<1>17. IdsInv'
  BY <1>1, <1>2, <1>9, <1>11, <1>14 DEF IdsInv
<1>18. EmbInv'
  BY <1>1, <1>2, <1>5 DEF EmbInv, Unsaved
<1>19. LiveInv'
  BY <1>1, <1>2, <1>5, <1>8, <1>9, <1>11 DEF LiveInv
<1>20. HomeInv'
  <2>0. SUFFICES ASSUME harm = "none", NEW u \in Targets, emb[u] # NoEmb,
                        u \in Busy \ (tx.left \ {t}) => ~(tx.dirty \/ kills)
                 PROVE  AtHome(u)'
    <3>1. tx'.at # "record" /\ harm' = harm /\ emb' = emb
      BY <1>2, <1>5
    <3>2. tx'.left = tx.left \ {t} /\ (tx'.dirty <=> tx.dirty \/ kills)
      BY <1>5, <1>6
    <3>3. HomeInv' <=>
            (harm = "none" => \A u \in Targets :
               emb[u] # NoEmb /\ (u \in Busy \ (tx.left \ {t}) => ~(tx.dirty \/ kills))
                 => AtHome(u)')
      BY <3>1, <3>2, <1>9, Zenon DEF HomeInv
    <3>4. QED
      BY <3>3, Zenon
  <2>1. t \in Busy
    BY <1>1, <1>2 DEF TxInv
  <2>2. ASSUME emb[t] # NoEmb PROVE AtHome(t) /\ kills
    <3>1. AtHome(t)
      BY <1>1, <1>2, <2>0, <2>2 DEF HomeInv
    <3>2. emb[t].row <= Len(meta)
      BY <1>1, <3>1, Types DEF AtHome
    <3>3. QED
      BY <1>10, <2>2, <3>1, <3>2
  <2>3. u # t
    BY <1>2, <2>0, <2>1, <2>2
  <2>4. AtHome(u)
    BY <1>1, <1>2, <2>0, <2>3 DEF HomeInv
  <2>5. kills => emb[u].row # emb[t].row
    <3> SUFFICES ASSUME kills, emb[u].row = emb[t].row PROVE FALSE
      OBVIOUS
    <3>1. emb[u].id = emb[t].id
      BY <2>2, <2>4 DEF AtHome
    <3>2. emb[u].id # 0
      BY <1>1, <2>0 DEF EmbInv
    <3>3. QED
      BY <1>1, <2>3, <3>1, <3>2 DEF EmbInv
  <2>6. QED
    BY <1>2, <1>11, <2>4, <2>5 DEF AtHome
<1>21. SearchInv'
  BY <1>1, <1>2, <1>5, <1>8, <1>9 DEF SearchInv
<1>22. QED
  BY <1>12, <1>13, <1>15, <1>16, <1>17, <1>18, <1>19, <1>20, <1>21 DEF IInv

(* A transaction reaches its next step, or ends. *)
LEMMA NextStep ==
  ASSUME TypeOK, NEW at \in {"append meta", "rename meta", "record"}, tx' = [tx EXCEPT !.at = at]
  PROVE  /\ tx' \in Transactions
         /\ tx'.at = at /\ tx'.op = tx.op /\ tx'.left = tx.left /\ tx'.doomed = tx.doomed
         /\ tx'.batch = tx.batch /\ tx'.first = tx.first /\ tx'.rows = tx.rows
         /\ tx'.dirty = tx.dirty /\ Busy' = Busy
<1>1. tx \in Transactions
  BY DEF TypeOK
<1>2. /\ tx'.at = at /\ tx'.op = tx.op /\ tx'.left = tx.left /\ tx'.doomed = tx.doomed
      /\ tx'.batch = tx.batch /\ tx'.first = tx.first /\ tx'.rows = tx.rows
      /\ tx'.dirty = tx.dirty
  BY <1>1 DEF Transactions
<1>3. tx' \in Transactions
  BY <1>1 DEF Transactions
<1>4. QED
  BY <1>2, <1>3 DEF Busy, Batch

(* No transaction. *)
LEMMA Ended ==
  ASSUME tx' = NoTx
  PROVE  /\ tx' \in Transactions
         /\ tx'.at = "none" /\ tx'.op = "none" /\ tx'.left = {} /\ tx'.doomed = {}
         /\ tx'.batch = <<>> /\ Len(tx'.batch) = 0 /\ tx'.dirty = FALSE /\ Busy' = {}
<1>1. /\ tx'.at = "none" /\ tx'.op = "none" /\ tx'.left = {} /\ tx'.doomed = {}
      /\ tx'.batch = <<>> /\ tx'.dirty = FALSE
  BY DEF NoTx
<1>2. tx' \in Transactions
  BY EmptySeq, FirstRow DEF NoTx, Transactions
<1>3. QED
  BY <1>1, <1>2, EmptySeq DEF Busy, Batch

(* The table forgets what the files have killed. *)
LEMMA CommitDropStep ==
  ASSUME IInv, CommitDrop
  PROVE  IInv'
<1>1. TypeOK /\ TxInv /\ FilesInv /\ IdsInv /\ EmbInv /\ LiveInv /\ HomeInv /\ SearchInv
  BY DEF IInv
<1>2. /\ tx.op = "drop" /\ tx.at = "commit" /\ tx' = NoTx
      /\ target' = [t \in Targets |-> IF t \in tx.doomed THEN "gone" ELSE target[t]]
      /\ emb' = [t \in Targets |-> IF t \in tx.doomed THEN NoEmb ELSE emb[t]]
      /\ vec' = vec /\ meta' = meta /\ count' = count /\ rcount' = rcount /\ made' = made
      /\ search' = search /\ harm' = harm /\ faults' = faults
  BY DEF CommitDrop, InTx
<1>3. Whole /\ Whole' /\ tx.batch = <<>> /\ tx.left = {}
  BY <1>1, <1>2 DEF TxInv, Whole
<1>4. Len(tx.batch) = 0 /\ Busy = tx.doomed
  BY <1>3, EmptySeq DEF Busy, Batch
<1>5. TypeOK'
  <2>1. target' \in [Targets -> {"new", "present", "gone"}]
    BY <1>1, <1>2 DEF TypeOK
  <2>2. emb' \in [Targets -> [id : 0..MaxVectors, row : 0..MaxVectors]]
    BY <1>1, <1>2, BoundsAssumption DEF TypeOK, NoEmb
  <2>3. QED
    BY <2>1, <2>2, <1>1, <1>2, Ended, Zenon DEF TypeOK
<1>6. TxInv'
  BY <1>2, <1>3, Ended DEF TxInv
<1>7. FilesInv' /\ IdsInv'
  BY <1>1, <1>2, <1>3, <1>4, Ended DEF FilesInv, IdsInv, Paired, Unwritten
<1>8. \A t \in Targets : emb'[t] = emb[t] \/ emb'[t] = NoEmb
  BY <1>2
<1>9. EmbInv'
  <2>1. NoEmb.id = 0 /\ made \in Nat
    BY <1>1, Types DEF NoEmb
  <2>2. Unsaved' = 0 /\ Unsaved = 0
    BY <1>2, <1>4, Ended DEF Unsaved
  <2>3. QED
    BY <1>1, <1>2, <1>8, <2>1, <2>2 DEF EmbInv
<1>10. LiveInv'
  <2>1. NoEmb.id = 0 /\ \A r \in 1..Len(meta) : meta[r].id # 0
    BY <1>1, Types DEF NoEmb
  <2>2. QED
    BY <1>1, <1>2, <1>3, <1>8, <2>1, Ended DEF LiveInv
<1>11. HomeInv'
  BY <1>1, <1>2, <1>3, <1>4, Ended DEF HomeInv, AtHome
<1>12. RowsInv' /\ StoredInv'
  BY <1>2, Ended DEF RowsInv, StoredInv
<1>13. SearchInv'
  BY <1>1, <1>2, <1>3, Ended DEF SearchInv
<1>14. QED
  BY <1>5, <1>6, <1>7, <1>9, <1>10, <1>11, <1>12, <1>13 DEF IInv

(* Arithmetic that the solver does not find among records and sequences. *)
LEMMA UpTo == ASSUME NEW max \in Nat, NEW m \in 0..max PROVE m \in Nat /\ m <= max
OBVIOUS

(* An old id is none of the new ones. *)
LEMMA Beyond ==
  ASSUME NEW n \in Nat, NEW m \in Nat, NEW i \in 1..n, NEW id \in Nat, id <= m - n
  PROVE  id # m - n + i
OBVIOUS

(* The new ids are distinct. *)
LEMMA SameNumber ==
  ASSUME NEW n \in Nat, NEW m \in Nat, NEW i \in 1..n, NEW j \in 1..n, m - n + i = m - n + j
  PROVE  i = j
OBVIOUS

(* Ranges of rows and ids are within the bound. *)
LEMMA Below ==
  ASSUME NEW l \in Nat, NEW m \in Nat, l <= m, NEW max \in Nat, m <= max
  PROVE  1..l \subseteq 0..max /\ 1..m \subseteq 0..max
OBVIOUS

(* A shorter range. *)
LEMMA Prefix == ASSUME NEW max \in Nat, NEW m \in 0..max PROVE 1..m \subseteq 1..max
OBVIOUS

(* A file that is longer has the rows of the shorter. *)
LEMMA AsLong ==
  ASSUME NEW l \in Nat, NEW n \in Nat, NEW v, v = l \/ v = l + n
  PROVE  1..l \subseteq 1..v
OBVIOUS

(* Rows in ascending order are distinct. *)
LEMMA Ascending ==
  ASSUME NEW n \in Nat, NEW rows, \A i \in 1..n : rows[i] \in Nat,
         \A i, j \in 1..n : i < j => rows[i] < rows[j]
  PROVE  \A i, j \in 1..n : rows[i] = rows[j] => i = j
<1> SUFFICES ASSUME NEW i \in 1..n, NEW j \in 1..n, rows[i] = rows[j], i # j PROVE FALSE
  OBVIOUS
<1>1. i < j \/ j < i
  OBVIOUS
<1>2. QED
  BY <1>1

(* A row is an old one or a new one. *)
LEMMA TwoParts ==
  ASSUME NEW l \in Nat, NEW n \in Nat, NEW r \in 1..(l + n)
  PROVE  r \in 1..l \/ \E i \in 1..n : r = l + i
<1>1. CASE r <= l
  BY <1>1
<1>2. CASE r > l
  <2>1. r - l \in 1..n /\ r = l + (r - l)
    BY <1>2
  <2>2. QED
    BY <2>1
<1>3. QED
  BY <1>1, <1>2

(* The new ids are within the bound. *)
LEMMA Numbering ==
  ASSUME NEW l \in Nat, NEW n \in Nat, NEW m \in Nat, NEW max \in Nat, l + n <= m, m <= max,
         NEW i \in 1..n
  PROVE  m - n + i \in 1..max
OBVIOUS

(* A put that has rows to write has room for them. *)
LEMMA Room ==
  ASSUME IInv, tx.op = "put", tx.at \in {"append vec", "append meta"}
  PROVE  /\ Whole /\ tx.left = {} /\ Unwritten = Len(tx.batch)
         /\ Len(tx.batch) \in Nat /\ Len(meta) \in Nat /\ made \in Nat
         /\ made <= MaxVectors /\ MaxVectors \in Nat
         /\ Len(meta) + Len(tx.batch) <= made
         /\ \A i \in 1..Len(tx.batch) : IdOf(i) \in 1..MaxVectors
<1>1. TypeOK /\ TxInv /\ FilesInv
  BY DEF IInv
<1>2. Whole /\ tx.left = {}
  BY <1>1 DEF TxInv
<1>3. Unwritten = Len(tx.batch)
  BY DEF Unwritten
<1>4. /\ Len(tx.batch) \in Nat /\ Len(meta) \in Nat /\ made \in Nat
      /\ made <= MaxVectors /\ MaxVectors \in Nat
  <2>1. made \in 0..MaxVectors
    BY <1>1 DEF TypeOK
  <2>2. Len(tx.batch) \in Nat /\ Len(meta) \in Nat
    BY <1>1, Types
  <2>3. QED
    BY <2>1, <2>2, BoundsAssumption, UpTo
<1>5. Len(meta) + Len(tx.batch) <= made
  BY <1>1, <1>2, <1>3 DEF FilesInv
<1>6. \A i \in 1..Len(tx.batch) : IdOf(i) \in 1..MaxVectors
  BY <1>4, <1>5, Numbering DEF IdOf
<1>7. QED
  BY <1>2, <1>3, <1>4, <1>5, <1>6

(* The vectors go behind the rows that both files have. *)
LEMMA AppendVecStep ==
  ASSUME IInv, AppendVec
  PROVE  IInv'
<1>1. /\ TypeOK /\ TxInv /\ FilesInv /\ IdsInv /\ EmbInv /\ LiveInv /\ HomeInv /\ SearchInv
  BY DEF IInv
<1>2. /\ tx.op = "put" /\ tx.at = "append vec" /\ tx' = [tx EXCEPT !.at = "append meta"]
      /\ vec' = vec \o NewIds /\ count' = Opened(count)
      /\ target' = target /\ emb' = emb /\ meta' = meta /\ rcount' = rcount /\ made' = made
      /\ search' = search /\ harm' = harm /\ faults' = faults
  BY DEF AppendVec, InTx
<1> DEFINE n == Len(tx.batch)
<1>3. /\ Whole /\ tx.left = {} /\ Unwritten = n /\ n \in Nat /\ Len(meta) \in Nat /\ made \in Nat
      /\ Len(meta) + n <= made /\ \A i \in 1..n : IdOf(i) \in 1..MaxVectors
  BY <1>2, Room
<1>4. /\ tx'.at = "append meta" /\ tx'.op = "put" /\ tx'.left = {} /\ tx'.doomed = tx.doomed
      /\ tx'.batch = tx.batch /\ tx'.dirty = tx.dirty /\ Busy' = Busy
      /\ tx' \in Transactions
  BY <1>1, <1>2, <1>3, NextStep
<1>5. Opened(count) = Len(meta) /\ Len(vec) = Len(meta) /\ Paired
  BY <1>1, <1>2, <1>3, OpenedAll DEF FilesInv
<1>6. NewIds \in Seq(1..MaxVectors) /\ Len(NewIds) = n /\ \A i \in 1..n : NewIds[i] = IdOf(i)
  <2>1. DOMAIN tx.batch = 1..n
    BY <1>1, Types
  <2>2. NewIds \in [1..n -> 1..MaxVectors]
    BY <1>3, <2>1 DEF NewIds
  <2>3. \A i \in 1..n : NewIds[i] = IdOf(i)
    BY <2>1 DEF NewIds
  <2>4. QED
    BY <1>3, <2>2, <2>3, SeqOf
<1>7. /\ vec' \in Seq(1..MaxVectors) /\ Len(vec') = Len(meta) + n
      /\ \A r \in 1..Len(meta) : vec'[r] = vec[r]
      /\ \A i \in 1..n : vec'[Len(meta) + i] = IdOf(i)
  <2>1. vec \in Seq(1..MaxVectors)
    BY <1>1 DEF TypeOK
  <2>2. PICK new \in Seq(1..MaxVectors) : new = NewIds
    BY <1>6
  <2>3. /\ vec \o new \in Seq(1..MaxVectors)
        /\ Len(vec \o new) = Len(vec) + Len(new)
        /\ \A k \in 1..Len(vec) : (vec \o new)[k] = vec[k]
        /\ \A k \in 1..Len(new) : (vec \o new)[Len(vec) + k] = new[k]
    BY <2>1, Concat
  <2>4. QED
    BY <2>2, <2>3, <1>2, <1>5, <1>6
<1>8. Whole' /\ Unwritten' = n /\ Unsaved' = Unsaved /\ \A i \in 1..n : IdOf(i)' = IdOf(i)
  BY <1>2, <1>3, <1>4 DEF Whole, Unwritten, Unsaved, IdOf
<1>9. TypeOK'
  <2>1. count' \in 0..MaxVectors \cup {Closed}
    BY <1>1, <1>2, OpenedBounds
  <2>2. QED
    BY <1>1, <1>2, <1>4, <1>7, <2>1, Zenon DEF TypeOK
<1>10. TxInv'
  <2>1. /\ tx.doomed = {} /\ n > 0 /\ n <= made
        /\ \A i, j \in 1..n : tx.batch[i] = tx.batch[j] => i = j
    BY <1>1, <1>2 DEF TxInv
  <2>2. /\ tx'.doomed = {} /\ Len(tx'.batch) > 0 /\ Len(tx'.batch) <= made'
        /\ \A i, j \in 1..Len(tx'.batch) : tx'.batch[i] = tx'.batch[j] => i = j
    <3>1. tx'.doomed = tx.doomed /\ tx'.batch = tx.batch /\ made' = made
      BY <1>2, <1>4
    <3>2. QED
      BY <2>1, <3>1
  <2>3. QED
    BY <1>4, <1>8, <2>2 DEF TxInv
<1>11. FilesInv'
  <2>1. Paired'
    BY <1>2, <1>5, <1>7 DEF Paired
  <2>2. count' = Len(meta) /\ Len(vec') <= made
    BY <1>2, <1>3, <1>5, <1>7
  <2>3. Len(meta') + Unwritten' <= made' /\ made' = made /\ Len(meta') = Len(meta)
    BY <1>2, <1>3, <1>8
  <2>4. \A i \in 1..Len(tx'.batch) : vec'[Len(meta') + i] = IdOf(i)'
    <3>1. tx'.batch = tx.batch /\ meta' = meta
      BY <1>2, <1>4
    <3>2. \A i \in 1..Len(tx.batch) : vec'[Len(meta) + i] = IdOf(i)'
      BY <1>7, <1>8
    <3>3. QED
      BY <3>1, <3>2
  <2>5. QED
    BY <1>4, <1>7, <2>1, <2>2, <2>3, <2>4 DEF FilesInv
<1>12. IdsInv' /\ EmbInv'
  BY <1>1, <1>2, <1>3, <1>8 DEF IdsInv, EmbInv
<1>13. LiveInv' /\ RowsInv' /\ StoredInv'
  BY <1>1, <1>2, <1>3, <1>4 DEF LiveInv, RowsInv, StoredInv
<1>14. HomeInv'
  BY <1>1, <1>2, <1>3, <1>4 DEF HomeInv, AtHome
<1>15. SearchInv'
  <2> SUFFICES ASSUME search.clean
               PROVE  /\ search.step = "opened" =>
                           /\ Len(search.v) <= Len(vec')
                           /\ \A r \in 1..Len(search.v) : search.v[r] = vec'[r]
                      /\ \A h \in search.hits : h.id = h.of
    BY <1>2, <1>4 DEF SearchInv
  <2>1. /\ search.step = "opened" =>
             /\ Len(search.v) <= Len(vec)
             /\ \A r \in 1..Len(search.v) : search.v[r] = vec[r]
        /\ \A h \in search.hits : h.id = h.of
    BY <1>1, <1>3 DEF SearchInv
  <2>2. Len(search.v) \in Nat
    BY <1>1 DEF TypeOK, Searches
  <2>3. QED
    BY <1>3, <1>5, <1>7, <2>1, <2>2
<1>16. QED
  BY <1>9, <1>10, <1>11, <1>12, <1>13, <1>14, <1>15 DEF IInv

(* The meta rows pair with the vectors, under ids that no older row has. *)
LEMMA AppendMetaStep ==
  ASSUME IInv, AppendMeta
  PROVE  IInv'
<1> DEFINE n == Len(tx.batch)
           new == [i \in DOMAIN tx.batch |-> [id |-> IdOf(i), alive |-> TRUE]]
<1>1. /\ TypeOK /\ TxInv /\ FilesInv /\ IdsInv /\ EmbInv /\ LiveInv /\ HomeInv /\ SearchInv
  BY DEF IInv
<1>2. /\ tx.op = "put" /\ tx.at = "append meta"
      /\ target' = target /\ emb' = emb /\ vec' = vec /\ rcount' = rcount /\ made' = made
      /\ search' = search /\ harm' = harm /\ faults' = faults
  BY DEF AppendMeta, InTx
<1>0. meta' = meta \o new /\ count' = count + n
  BY DEF AppendMeta
<1>3. /\ Whole /\ tx.left = {} /\ Unwritten = n /\ n \in Nat /\ Len(meta) \in Nat /\ made \in Nat
      /\ Len(meta) + n <= made /\ made <= MaxVectors /\ MaxVectors \in Nat
      /\ \A i \in 1..n : IdOf(i) \in 1..MaxVectors
  BY <1>2, Room
<1>4. /\ count = Len(meta) /\ Len(vec) = Len(meta) + n /\ Paired
      /\ \A i \in 1..n : vec[Len(meta) + i] = IdOf(i)
  BY <1>1, <1>2, <1>3 DEF FilesInv
<1>5. /\ tx'.at = "commit" /\ tx'.op = "put" /\ tx'.left = {} /\ tx'.doomed = tx.doomed
      /\ tx'.batch = tx.batch /\ tx'.dirty = tx.dirty /\ tx'.first = Len(meta) + 1
      /\ tx' \in Transactions
  <2>1. tx' = [tx EXCEPT !.at = "commit", !.first = count + 1]
    BY DEF AppendMeta
  <2>2. tx \in Transactions
    BY <1>1 DEF TypeOK
  <2>3. Len(meta) + 1 \in 0..(MaxVectors + 1)
    BY <1>3
  <2>4. tx' = [tx EXCEPT !.at = "commit", !.first = Len(meta) + 1]
    BY <2>1, <1>4
  <2>5. /\ tx'.at = "commit" /\ tx'.op = tx.op /\ tx'.left = tx.left
        /\ tx'.doomed = tx.doomed /\ tx'.batch = tx.batch /\ tx'.dirty = tx.dirty
        /\ tx'.first = Len(meta) + 1
    BY <2>2, <2>4 DEF Transactions
  <2>6. tx' \in Transactions
    BY <2>2, <2>3, <2>4 DEF Transactions
  <2>7. QED
    BY <1>2, <1>3, <2>5, <2>6
<1>6. Busy' = Busy /\ Whole'
  BY <1>2, <1>3, <1>5 DEF Busy, Batch, Whole
<1>7. new \in Seq(Metas) /\ Len(new) = n
      /\ \A i \in 1..n : new[i] = [id |-> IdOf(i), alive |-> TRUE]
  <2>1. DOMAIN tx.batch = 1..n
    BY <1>1, Types
  <2>2. \A i \in 1..n : [id |-> IdOf(i), alive |-> TRUE] \in Metas
    BY <1>3 DEF Metas
  <2>3. new \in [1..n -> Metas] /\ \A i \in 1..n : new[i] = [id |-> IdOf(i), alive |-> TRUE]
    BY <2>1, <2>2
  <2>4. QED
    BY <1>3, <2>3, SeqOf
<1>8. /\ meta' \in Seq(Metas) /\ Len(meta') = Len(meta) + n
      /\ \A r \in 1..Len(meta) : meta'[r] = meta[r]
      /\ \A i \in 1..n : meta'[Len(meta) + i] = [id |-> IdOf(i), alive |-> TRUE]
  <2>1. meta \in Seq(Metas)
    BY <1>1 DEF TypeOK, Metas
  <2>2. PICK more \in Seq(Metas) : more = new
    BY <1>7
  <2>3. /\ meta \o more \in Seq(Metas)
        /\ Len(meta \o more) = Len(meta) + Len(more)
        /\ \A k \in 1..Len(meta) : (meta \o more)[k] = meta[k]
        /\ \A k \in 1..Len(more) : (meta \o more)[Len(meta) + k] = more[k]
    BY <2>1, Concat
  <2>4. meta' = meta \o more
    BY <1>0, <2>2
  <2>5. QED
    BY <2>2, <2>3, <2>4, <1>7
<1>9. \A i \in 1..n : meta'[Len(meta) + i].id = IdOf(i) /\ meta'[Len(meta) + i].alive
  <2> SUFFICES ASSUME NEW i \in 1..n
               PROVE  meta'[Len(meta) + i].id = IdOf(i) /\ meta'[Len(meta) + i].alive
    OBVIOUS
  <2>1. meta'[Len(meta) + i] = [id |-> IdOf(i), alive |-> TRUE]
    BY <1>8
  <2>2. QED
    BY <2>1
<1>10. \A r \in 1..Len(meta') : r \in 1..Len(meta) \/ \E i \in 1..n : r = Len(meta) + i
  <2>1. \A r \in 1..(Len(meta) + n) : r \in 1..Len(meta) \/ \E i \in 1..n : r = Len(meta) + i
    BY <1>3, TwoParts
  <2>2. QED
    BY <1>8, <2>1
<1>11. \A i \in 1..n : IdOf(i)' = IdOf(i) /\ IdOf(i) = made - n + i
  BY <1>2, <1>5 DEF IdOf
<1>12. Unwritten' = 0 /\ Unsaved' = n /\ Unsaved = n
  BY <1>5 DEF Unwritten, Unsaved
<1>13. TypeOK'
  <2>1. count' \in 0..MaxVectors \cup {Closed}
    <3>1. count' = Len(meta) + n
      BY <1>0, <1>4
    <3>2. QED
      BY <1>3, <3>1
  <2>2. QED
    BY <1>1, <1>2, <1>5, <1>8, <2>1, Zenon DEF TypeOK, Metas
<1>14. TxInv'
  <2>1. /\ tx.doomed = {} /\ n > 0 /\ n <= made
        /\ \A i, j \in 1..n : tx.batch[i] = tx.batch[j] => i = j
    BY <1>1, <1>2 DEF TxInv
  <2>2. /\ tx'.doomed = {} /\ Len(tx'.batch) > 0 /\ Len(tx'.batch) <= made'
        /\ \A i, j \in 1..Len(tx'.batch) : tx'.batch[i] = tx'.batch[j] => i = j
    <3>1. tx'.doomed = tx.doomed /\ tx'.batch = tx.batch /\ made' = made
      BY <1>2, <1>5
    <3>2. QED
      BY <2>1, <3>1
  <2>3. QED
    BY <1>5, <1>6, <2>2 DEF TxInv
<1>15. FilesInv'
  <2>1. count' = Len(meta') /\ Len(vec') = Len(meta') /\ Len(vec') <= made'
        /\ Len(meta') + Unwritten' <= made'
    <3>1. /\ count' = Len(meta) + n /\ vec' = vec /\ made' = made /\ Unwritten' = 0
          /\ Len(meta') = Len(meta) + n
      BY <1>0, <1>2, <1>4, <1>8, <1>12
    <3>2. QED
      BY <1>3, <1>4, <3>1
  <2>2. Paired'
    <3> SUFFICES ASSUME NEW r \in 1..Len(meta') PROVE vec[r] = meta'[r].id
      BY <1>2 DEF Paired
    <3>1. CASE r \in 1..Len(meta)
      BY <1>4, <1>8, <3>1 DEF Paired
    <3>2. CASE \E i \in 1..n : r = Len(meta) + i
      BY <1>4, <1>9, <3>2
    <3>3. QED
      BY <1>10, <3>1, <3>2
  <2>3. QED
    BY <1>5, <2>1, <2>2 DEF FilesInv
<1>16. IdsInv'
  <2>1. \A r \in 1..Len(meta) : meta'[r].id = meta[r].id /\ meta[r].id \in Nat
                                /\ meta[r].id <= made - n
    BY <1>1, <1>3, <1>8, Types DEF IdsInv
  <2>2. \A i \in 1..n : meta'[Len(meta) + i].id = made - n + i
    BY <1>9, <1>11
  <2>3. \A r, s \in 1..Len(meta) : meta[r].id = meta[s].id => r = s
    BY <1>1, <1>3 DEF IdsInv
  <2>4. ASSUME NEW r \in 1..Len(meta') PROVE meta'[r].id <= made
    <3>1. CASE r \in 1..Len(meta)
      BY <1>3, <2>1, <3>1
    <3>2. CASE \E i \in 1..n : r = Len(meta) + i
      BY <1>3, <2>2, <3>2, SMTT(40)
    <3>3. QED
      BY <1>10, <3>1, <3>2
  <2>5. ASSUME NEW r \in 1..Len(meta'), NEW s \in 1..Len(meta'), meta'[r].id = meta'[s].id
        PROVE  r = s
    <3>1. CASE r \in 1..Len(meta) /\ s \in 1..Len(meta)
      BY <2>1, <2>3, <2>5, <3>1
    <3>2. CASE r \in 1..Len(meta) /\ \E i \in 1..n : s = Len(meta) + i
      <4>1. PICK i \in 1..n : s = Len(meta) + i
        BY <3>2
      <4>2. meta'[s].id = made - n + i /\ meta'[r].id <= made - n /\ meta'[r].id \in Nat
        BY <2>1, <2>2, <3>2, <4>1
      <4>3. QED
        BY <1>3, <2>5, <4>2, Beyond
    <3>3. CASE s \in 1..Len(meta) /\ \E i \in 1..n : r = Len(meta) + i
      <4>1. PICK i \in 1..n : r = Len(meta) + i
        BY <3>3
      <4>2. meta'[r].id = made - n + i /\ meta'[s].id <= made - n /\ meta'[s].id \in Nat
        BY <2>1, <2>2, <3>3, <4>1
      <4>3. QED
        BY <1>3, <2>5, <4>2, Beyond
    <3>4. CASE (\E i \in 1..n : r = Len(meta) + i) /\ (\E i \in 1..n : s = Len(meta) + i)
      <4>1. PICK i \in 1..n, j \in 1..n : r = Len(meta) + i /\ s = Len(meta) + j
        BY <3>4
      <4>2. meta'[r].id = made - n + i /\ meta'[s].id = made - n + j
        BY <2>2, <4>1
      <4>3. made - n + i = made - n + j
        BY <2>5, <4>2
      <4>4. i = j
        BY <1>3, <4>3, SameNumber
      <4>5. QED
        BY <4>1, <4>4
    <3>5. QED
      BY <1>10, <3>1, <3>2, <3>3, <3>4
  <2>6. made' - Unwritten' = made
    <3>1. made' = made /\ Unwritten' = 0
      BY <1>2, <1>12
    <3>2. QED
      BY <1>3, <3>1
  <2>7. QED
    BY <2>4, <2>5, <2>6 DEF IdsInv
<1>17. EmbInv'
  BY <1>1, <1>2, <1>12 DEF EmbInv
<1>18. LiveInv'
  <2> SUFFICES ASSUME NEW t \in Targets, NEW r \in 1..Len(meta'),
                      meta'[r].id = emb[t].id, meta'[r].alive
               PROVE  emb[t].row = r
    BY <1>2, <1>5 DEF LiveInv
  <2>1. CASE r \in 1..Len(meta)
    BY <1>1, <1>2, <1>3, <1>8, <2>1 DEF LiveInv
  <2>2. CASE \E i \in 1..n : r = Len(meta) + i
    <3>1. PICK i \in 1..n : r = Len(meta) + i
      BY <2>2
    <3>2. emb[t].id = made - n + i
      BY <1>9, <1>11, <3>1
    <3>3. emb[t].id <= made - n
      BY <1>1, <1>12 DEF EmbInv
    <3>4. QED
      BY <1>3, <3>2, <3>3
  <2>3. QED
    BY <1>10, <2>1, <2>2
<1>19. HomeInv'
  <2>1. ASSUME NEW t \in Targets, AtHome(t) PROVE AtHome(t)'
    <3>1. emb' = emb /\ emb[t].row \in 1..Len(meta)
      BY <1>2, <2>1 DEF AtHome
    <3>2. emb[t].row \in 1..Len(meta') /\ meta'[emb[t].row] = meta[emb[t].row]
      BY <1>3, <1>8, <3>1
    <3>3. QED
      BY <2>1, <3>1, <3>2 DEF AtHome
  <2>2. harm' = harm /\ emb' = emb /\ tx'.at = "commit" /\ tx.at # "record"
        /\ tx'.left = tx.left /\ tx'.dirty = tx.dirty
    BY <1>2, <1>3, <1>5
  <2>3. QED
    BY <1>1, <1>6, <2>1, <2>2, Zenon DEF HomeInv
<1>20. RowsInv'
  BY <1>5 DEF RowsInv
<1>21. StoredInv'
  <2> SUFFICES ASSUME NEW i \in 1..n
               PROVE  /\ tx'.first + i - 1 \in 1..Len(meta')
                      /\ meta'[tx'.first + i - 1] = [id |-> IdOf(i)', alive |-> TRUE]
    BY <1>5 DEF StoredInv
  <2>1. tx'.first + i - 1 = Len(meta) + i
    BY <1>3, <1>5
  <2>2. Len(meta) + i \in 1..Len(meta')
    BY <1>3, <1>8
  <2>3. QED
    BY <1>8, <1>11, <2>1, <2>2
<1>22. SearchInv'
  BY <1>1, <1>2, <1>3, <1>5 DEF SearchInv
<1>23. QED
  BY <1>13, <1>14, <1>15, <1>16, <1>17, <1>18, <1>19, <1>20, <1>21, <1>22 DEF IInv

(* A put that commits: its rows are there, numbered in order. *)
LEMMA PutReady ==
  ASSUME IInv, tx.op = "put", tx.at = "commit"
  PROVE  /\ Whole /\ tx.left = {} /\ tx.doomed = {}
         /\ Len(tx.batch) > 0 /\ Len(tx.batch) <= made
         /\ \A i, j \in 1..Len(tx.batch) : tx.batch[i] = tx.batch[j] => i = j
         /\ Len(tx.batch) \in Nat /\ Len(meta) \in Nat /\ made \in Nat /\ MaxVectors \in Nat
         /\ Len(meta) <= made /\ made <= MaxVectors /\ DOMAIN tx.batch = 1..Len(tx.batch)
         /\ \A i \in 1..Len(tx.batch) :
              /\ tx.first + i - 1 \in 1..Len(meta)
              /\ meta[tx.first + i - 1].id = IdOf(i)
              /\ meta[tx.first + i - 1].alive
              /\ IdOf(i) = made - Len(tx.batch) + i /\ IdOf(i) \in 1..made
         /\ Batch = {tx.batch[i] : i \in 1..Len(tx.batch)} /\ Busy = Batch
<1> DEFINE n == Len(tx.batch)
<1>1. TypeOK /\ TxInv /\ FilesInv /\ StoredInv
  BY DEF IInv
<1>4. /\ Whole /\ tx.left = {} /\ tx.doomed = {} /\ n > 0 /\ n <= made
      /\ \A i, j \in 1..n : tx.batch[i] = tx.batch[j] => i = j
  BY <1>1 DEF TxInv
<1>5. /\ n \in Nat /\ Len(meta) \in Nat /\ made \in Nat /\ MaxVectors \in Nat
      /\ Len(meta) <= made /\ made <= MaxVectors /\ DOMAIN tx.batch = 1..n
  <2>1. Unwritten = 0
    BY DEF Unwritten
  <2>2. n \in Nat /\ Len(meta) \in Nat /\ DOMAIN tx.batch = 1..n
    BY <1>1, Types
  <2>3. made \in 0..MaxVectors /\ Len(meta) + 0 <= made
    BY <1>1, <1>4, <2>1 DEF TypeOK, FilesInv
  <2>4. MaxVectors \in Nat /\ made \in Nat /\ made <= MaxVectors
    BY <2>3, BoundsAssumption, UpTo
  <2>5. Len(meta) <= made
    BY <2>2, <2>3, <2>4
  <2>6. QED
    BY <2>2, <2>4, <2>5
<1>6. \A i \in 1..n : /\ tx.first + i - 1 \in 1..Len(meta)
                      /\ meta[tx.first + i - 1].id = IdOf(i)
                      /\ meta[tx.first + i - 1].alive
  <2> SUFFICES ASSUME NEW i \in 1..n
               PROVE  /\ tx.first + i - 1 \in 1..Len(meta)
                      /\ meta[tx.first + i - 1].id = IdOf(i)
                      /\ meta[tx.first + i - 1].alive
    OBVIOUS
  <2>1. /\ tx.first + i - 1 \in 1..Len(meta)
        /\ meta[tx.first + i - 1] = [id |-> IdOf(i), alive |-> TRUE]
    BY <1>1 DEF StoredInv
  <2>2. QED
    BY <2>1
<1>7. \A i \in 1..n : IdOf(i) = made - n + i /\ IdOf(i) \in 1..made
  BY <1>4, <1>5 DEF IdOf
<1>8. Batch = {tx.batch[i] : i \in 1..n} /\ Busy = Batch
  BY <1>4, <1>5 DEF Busy, Batch
<1>9. QED
  BY <1>4, <1>5, <1>6, <1>7, <1>8

(* What the table is given for each target of the put. *)
LEMMA SavedRows ==
  ASSUME IInv, CommitPut, NEW t \in Targets, t \in Batch
  PROVE  /\ \E i \in 1..Len(tx.batch) :
              tx.batch[i] = t /\ emb'[t].id = made - Len(tx.batch) + i
         /\ emb'[t].id \in 1..made
         /\ emb'[t].row \in 1..Len(meta)
         /\ meta[emb'[t].row].id = emb'[t].id /\ meta[emb'[t].row].alive
         /\ emb'[t] \in [id : 0..MaxVectors, row : 0..MaxVectors]
<1> DEFINE n == Len(tx.batch)
<1>1. tx.op = "put" /\ tx.at = "commit"
  BY DEF CommitPut, InTx
<1>2. /\ Len(meta) \in Nat /\ made \in Nat /\ MaxVectors \in Nat
      /\ Len(meta) <= made /\ made <= MaxVectors /\ DOMAIN tx.batch = 1..n
      /\ Batch = {tx.batch[i] : i \in 1..n}
      /\ \A i \in 1..n :
           /\ tx.first + i - 1 \in 1..Len(meta)
           /\ meta[tx.first + i - 1].id = IdOf(i)
           /\ meta[tx.first + i - 1].alive
           /\ IdOf(i) = made - n + i /\ IdOf(i) \in 1..made
  BY <1>1, PutReady
<1>3. PICK i \in 1..n : /\ tx.batch[i] = t
                        /\ emb'[t] = [id |-> IdOf(i), row |-> tx.first + i - 1]
  <2>1. \E i \in 1..n : tx.batch[i] = t
    BY <1>2
  <2>2. PICK i \in 1..n : i = CHOOSE j \in 1..n : tx.batch[j] = t
    BY <2>1
  <2>3. tx.batch[i] = t
    BY <2>1, <2>2
  <2>4. emb'[t] = (IF \E j \in 1..n : tx.batch[j] = t
                   THEN LET k == CHOOSE j \in 1..n : tx.batch[j] = t
                        IN  [id |-> IdOf(k), row |-> tx.first + k - 1]
                   ELSE emb[t])
    BY <1>2 DEF CommitPut
  <2>5. emb'[t] = [id |-> IdOf(i), row |-> tx.first + i - 1]
    BY <2>1, <2>2, <2>4
  <2>6. QED
    BY <2>3, <2>5
<1>4. emb'[t].id = IdOf(i) /\ emb'[t].row = tx.first + i - 1
  BY <1>3
<1>5. IdOf(i) \in 0..MaxVectors /\ tx.first + i - 1 \in 0..MaxVectors
  <2>1. IdOf(i) \in 1..made /\ tx.first + i - 1 \in 1..Len(meta)
    BY <1>2
  <2>2. QED
    BY <1>2, <2>1, Below
<1>6. emb'[t] \in [id : 0..MaxVectors, row : 0..MaxVectors]
  BY <1>3, <1>5
<1>7. QED
  BY <1>2, <1>3, <1>4, <1>6

(* The table is given the rows of the put, which nobody else has. *)
LEMMA CommitPutStep ==
  ASSUME IInv, CommitPut
  PROVE  IInv'
<1> DEFINE n == Len(tx.batch)
<1>1. /\ TypeOK /\ TxInv /\ FilesInv /\ IdsInv /\ EmbInv /\ LiveInv /\ HomeInv
      /\ StoredInv /\ SearchInv
  BY DEF IInv
<1>2. /\ tx.op = "put" /\ tx.at = "commit"
      /\ target' = target /\ vec' = vec /\ meta' = meta /\ count' = count /\ rcount' = rcount
      /\ made' = made /\ search' = search /\ harm' = harm /\ faults' = faults
  BY DEF CommitPut, InTx
<1>3. tx' = NoTx
  BY DEF CommitPut
<1>4. /\ Whole /\ Whole' /\ tx.left = {} /\ tx.doomed = {} /\ n > 0 /\ n <= made
      /\ \A i, j \in 1..n : tx.batch[i] = tx.batch[j] => i = j
  BY <1>2, PutReady DEF Whole
<1>5. /\ n \in Nat /\ Len(meta) \in Nat /\ made \in Nat /\ MaxVectors \in Nat
      /\ Len(meta) <= made /\ made <= MaxVectors /\ DOMAIN tx.batch = 1..n
  BY <1>2, PutReady
<1>8. Busy = Batch
  BY <1>2, PutReady
<1>10. ASSUME NEW t \in Targets, t \notin Batch
       PROVE  emb'[t] = emb[t]
  <2>1. ~\E i \in DOMAIN tx.batch : tx.batch[i] = t
    BY <1>10 DEF Batch
  <2>2. QED
    BY <2>1 DEF CommitPut
<1>11. ASSUME NEW t \in Targets, t \in Batch
       PROVE  /\ \E i \in 1..n : tx.batch[i] = t /\ emb'[t].id = made - n + i
              /\ emb'[t].id \in 1..made
              /\ emb'[t].row \in 1..Len(meta)
              /\ meta[emb'[t].row].id = emb'[t].id /\ meta[emb'[t].row].alive
              /\ emb'[t] \in [id : 0..MaxVectors, row : 0..MaxVectors]
  BY <1>11, SavedRows
<1>12. TypeOK'
  <2>1. emb' \in [Targets -> [id : 0..MaxVectors, row : 0..MaxVectors]]
    <3>1. ASSUME NEW t \in Targets PROVE emb'[t] \in [id : 0..MaxVectors, row : 0..MaxVectors]
      <4>1. CASE t \in Batch
        BY <1>11, <4>1
      <4>2. CASE t \notin Batch
        BY <1>1, <1>10, <4>2 DEF TypeOK
      <4>3. QED
        BY <4>1, <4>2
    <3>2. emb' = [t \in Targets |-> emb'[t]]
      BY DEF CommitPut
    <3>3. QED
      BY <3>1, <3>2
  <2>2. QED
    BY <2>1, <1>1, <1>2, <1>3, Ended, Zenon DEF TypeOK
<1>13. TxInv'
  BY <1>3, <1>4, Ended DEF TxInv
<1>14. FilesInv' /\ IdsInv'
  <2>1. Unwritten = 0 /\ Unwritten' = 0
    BY <1>2, <1>3, Ended DEF Unwritten
  <2>2. tx'.at = "none"
    BY <1>3, Ended
  <2>3. FilesInv'
    BY <1>1, <1>2, <1>4, <2>1, <2>2 DEF FilesInv, Paired
  <2>4. IdsInv'
    BY <1>1, <1>2, <1>4, <2>1 DEF IdsInv
  <2>5. QED
    BY <2>3, <2>4
<1>15. EmbInv'
  <2>1. Unsaved' = 0 /\ Unsaved = n
    BY <1>3, Ended DEF Unsaved
  <2>2. \A t \in Targets : emb[t].id \in Nat /\ emb[t].id <= made - n
    BY <1>1, <2>1, Types DEF EmbInv
  <2>3. ASSUME NEW t \in Targets PROVE emb'[t].id <= made /\ (emb'[t].id = 0 => emb'[t] = NoEmb)
    <3>1. CASE t \in Batch
      <4>1. emb'[t].id \in 1..made
        BY <1>11, <3>1
      <4>2. QED
        BY <1>5, <4>1
    <3>2. CASE t \notin Batch
      <4>1. emb'[t] = emb[t] /\ emb[t].id \in Nat /\ emb[t].id <= made - n
        BY <1>10, <2>2, <3>2
      <4>2. emb[t].id = 0 => emb[t] = NoEmb
        BY <1>1 DEF EmbInv
      <4>3. QED
        BY <1>5, <4>1, <4>2
    <3>3. QED
      BY <3>1, <3>2
  <2>4. ASSUME NEW t \in Targets, NEW u \in Targets, emb'[t].id = emb'[u].id
        PROVE  t = u \/ emb'[t].id = 0
    <3>1. CASE t \in Batch /\ u \in Batch
      <4>1. PICK i \in 1..n : tx.batch[i] = t /\ emb'[t].id = made - n + i
        BY <1>11, <3>1
      <4>2. PICK j \in 1..n : tx.batch[j] = u /\ emb'[u].id = made - n + j
        BY <1>11, <3>1
      <4>3. made - n + i = made - n + j
        BY <2>4, <4>1, <4>2
      <4>4. i = j
        BY <1>5, <4>3, SameNumber
      <4>5. QED
        BY <4>1, <4>2, <4>4
    <3>2. CASE t \in Batch /\ u \notin Batch
      <4>1. PICK i \in 1..n : emb'[t].id = made - n + i
        BY <1>11, <3>2
      <4>2. emb'[u].id \in Nat /\ emb'[u].id <= made - n
        BY <1>10, <2>2, <3>2
      <4>3. QED
        BY <1>5, <2>4, <4>1, <4>2, Beyond
    <3>3. CASE t \notin Batch /\ u \in Batch
      <4>1. PICK i \in 1..n : emb'[u].id = made - n + i
        BY <1>11, <3>3
      <4>2. emb'[t].id \in Nat /\ emb'[t].id <= made - n
        BY <1>10, <2>2, <3>3
      <4>3. QED
        BY <1>5, <2>4, <4>1, <4>2, Beyond
    <3>4. CASE t \notin Batch /\ u \notin Batch
      BY <1>1, <1>10, <2>4, <3>4 DEF EmbInv
    <3>5. QED
      BY <3>1, <3>2, <3>3, <3>4
  <2>5. made' - Unsaved' = made
    BY <1>2, <1>5, <2>1
  <2>6. QED
    BY <2>3, <2>4, <2>5 DEF EmbInv
<1>16. LiveInv'
  <2> SUFFICES ASSUME NEW t \in Targets, NEW r \in 1..Len(meta),
                      meta[r].id = emb'[t].id, meta[r].alive
               PROVE  emb'[t].row = r
    <3>1. tx'.at = "none" /\ meta' = meta
      BY <1>2, <1>3, Ended
    <3>2. QED
      BY <3>1 DEF LiveInv
  <2>1. CASE t \in Batch
    <3>1. /\ emb'[t].row \in 1..Len(meta)
          /\ meta[emb'[t].row].id = emb'[t].id
      BY <1>11, <2>1
    <3>2. QED
      BY <1>1, <1>4, <3>1 DEF IdsInv
  <2>2. CASE t \notin Batch
    BY <1>1, <1>2, <1>4, <1>10, <2>2 DEF LiveInv
  <2>3. QED
    BY <2>1, <2>2
<1>17. HomeInv'
  <2> SUFFICES ASSUME harm = "none", NEW t \in Targets, emb'[t] # NoEmb
               PROVE  AtHome(t)'
    <3>1. tx'.at = "none" /\ harm' = harm
      BY <1>2, <1>3, Ended
    <3>2. QED
      BY <3>1 DEF HomeInv
  <2>1. CASE t \in Batch
    <3>1. /\ emb'[t].row \in 1..Len(meta)
          /\ meta[emb'[t].row].id = emb'[t].id
          /\ meta[emb'[t].row].alive
      BY <1>11, <2>1
    <3>2. QED
      BY <1>2, <3>1 DEF AtHome
  <2>2. CASE t \notin Batch
    <3>1. AtHome(t)
      BY <1>1, <1>2, <1>8, <1>10, <2>2 DEF HomeInv
    <3>2. QED
      BY <1>2, <1>10, <2>2, <3>1 DEF AtHome
  <2>3. QED
    BY <2>1, <2>2
<1>18. RowsInv' /\ StoredInv'
  BY <1>3, Ended DEF RowsInv, StoredInv
<1>19. SearchInv'
  <2>1. tx'.at = "none"
    BY <1>3, Ended
  <2>2. QED
    BY <1>1, <1>2, <1>4, <2>1 DEF SearchInv
<1>20. QED
  BY <1>12, <1>13, <1>14, <1>15, <1>16, <1>17, <1>18, <1>19 DEF IInv

-----------------------------------------------------------------------------
(* A compaction. *)
LEMMA BeginCompactStep ==
  ASSUME IInv, NEW n \in 0..Opened(count), NEW rows \in [1..n -> 1..Opened(count)],
         BeginCompact(rows)
  PROVE  IInv'
<1>1. TypeOK /\ TxInv /\ FilesInv /\ IdsInv /\ EmbInv /\ LiveInv /\ HomeInv /\ SearchInv
  BY DEF IInv
<1>2. /\ tx.op = "none" /\ Whole
      /\ LiveRows = {rows[i] : i \in DOMAIN rows}
      /\ \A i, j \in DOMAIN rows : i < j => rows[i] < rows[j]
      /\ count' = Opened(count)
      /\ emb' = emb /\ vec' = vec /\ meta' = meta /\ made' = made
      /\ harm' = harm /\ search' = search /\ target' = target /\ rcount' = rcount
      /\ faults' = faults
  BY DEF BeginCompact, Free, Whole
<1>3. tx' = [NoTx EXCEPT !.op = "compact", !.at = "rename vec", !.rows = rows]
  BY DEF BeginCompact
<1>4. /\ tx'.op = "compact" /\ tx'.at = "rename vec" /\ tx'.left = {} /\ tx'.doomed = {}
      /\ tx'.batch = <<>> /\ tx'.rows = rows /\ tx'.dirty = FALSE
  BY <1>3 DEF NoTx
<1>5. tx.at = "none" /\ tx.batch = <<>> /\ tx.doomed = {} /\ Busy = {}
  BY <1>1, <1>2 DEF TxInv, Busy, Batch
<1>6. Len(<<>>) = 0 /\ Len(meta) \in Nat /\ Whole' /\ Busy' = {}
  <2>1. Len(<<>>) = 0 /\ Len(meta) \in Nat
    BY <1>1, Types, EmptySeq
  <2>2. Whole' /\ Busy' = {}
    <3>1. tx'.doomed = {} /\ tx'.batch = <<>> /\ harm' = harm
      BY <1>2, <1>4
    <3>2. QED
      BY <1>2, <3>1 DEF Whole, Busy, Batch
  <2>3. QED
    BY <2>1, <2>2
<1>7. Opened(count) = Len(meta) /\ Opened(count) \in 0..MaxVectors
  BY <1>1, <1>2, <1>5, OpenedAll, OpenedBounds
<1>8. Len(meta) \in 0..MaxVectors /\ n \in 0..Len(meta) /\ rows \in [1..n -> 1..Len(meta)]
  BY <1>7
<1>9. /\ n \in Nat /\ n <= Len(meta) /\ rows \in [1..n -> 1..MaxVectors]
      /\ DOMAIN rows = 1..n /\ \A i \in 1..n : rows[i] \in 1..Len(meta)
  <2>1. n \in Nat /\ n <= Len(meta) /\ 1..Len(meta) \subseteq 1..MaxVectors
    BY <1>6, <1>8, BoundsAssumption, UpTo, Prefix
  <2>2. QED
    BY <1>8, <2>1
<1>10. rows \in Seq(1..MaxVectors) /\ Len(rows) = n
  BY <1>9, SeqOf
<1>11. TypeOK'
  <2>1. tx' \in Transactions
    <3>1. tx' = [op |-> "compact", at |-> "rename vec", left |-> {}, doomed |-> {},
                 batch |-> <<>>, first |-> 0, rows |-> rows, dirty |-> FALSE]
      BY <1>3 DEF NoTx
    <3>2. QED
      BY <3>1, <1>10, TxMade, EmptySeq
  <2>2. count' \in 0..MaxVectors \cup {Closed}
    BY <1>2, <1>7
  <2>3. QED
    BY <2>1, <2>2, <1>1, <1>2, Zenon DEF TypeOK
<1>12. TxInv'
  BY <1>4, <1>6 DEF TxInv
<1>13. FilesInv'
  <2>1. count' = Len(meta) /\ tx'.at = "rename vec"
    BY <1>2, <1>4, <1>7
  <2>2. Unwritten' = 0 /\ Unwritten = 0
    BY <1>4, <1>5 DEF Unwritten
  <2>3. QED
    BY <1>1, <1>2, <1>5, <2>1, <2>2 DEF FilesInv, Paired
<1>14. RowsInv'
  <2>1. LiveRows = {r \in 1..Len(meta) : meta[r].alive}
    BY <1>7 DEF LiveRows
  <2>2. \A i \in 1..n : rows[i] \in LiveRows
    BY <1>2, <1>9
  <2>3. \A r \in LiveRows : \E i \in 1..n : rows[i] = r
    BY <1>2, <1>9
  <2>4. /\ \A i \in 1..n : rows[i] \in 1..Len(meta) /\ meta[rows[i]].alive
        /\ \A r \in 1..Len(meta) : meta[r].alive => \E i \in 1..n : rows[i] = r
        /\ \A i, j \in 1..n : i < j => rows[i] < rows[j]
    BY <1>2, <1>9, <2>1, <2>2, <2>3
  <2>5. tx'.rows = rows /\ Len(tx'.rows) = n /\ meta' = meta /\ count' = Len(meta)
    BY <1>2, <1>4, <1>7, <1>10
  <2>6. QED
    BY <1>9, <2>4, <2>5 DEF RowsInv
<1>15. IdsInv' /\ EmbInv'
  <2>1. Unwritten' = 0 /\ Unwritten = 0 /\ Unsaved' = 0 /\ Unsaved = 0
    BY <1>4, <1>5, <1>6 DEF Unwritten, Unsaved
  <2>2. QED
    BY <1>1, <1>2, <2>1 DEF IdsInv, EmbInv, Whole
<1>16. LiveInv' /\ StoredInv'
  BY <1>1, <1>2, <1>4, <1>5 DEF LiveInv, StoredInv, Whole
<1>17. HomeInv'
  BY <1>1, <1>2, <1>4, <1>5, <1>6 DEF HomeInv, AtHome
<1>18. SearchInv'
  BY <1>1, <1>2, <1>4, <1>5 DEF SearchInv, Whole
<1>19. QED
  BY <1>11, <1>12, <1>13, <1>14, <1>15, <1>16, <1>17, <1>18 DEF IInv

(* The transaction of a compaction touches no target. *)
LEMMA Compacting ==
  ASSUME IInv, tx.op = "compact"
  PROVE  /\ Whole /\ tx.left = {} /\ tx.doomed = {} /\ tx.batch = <<>> /\ ~tx.dirty
         /\ Busy = {} /\ Unwritten = 0 /\ Unsaved = 0 /\ tx.at # "commit"
<1>1. /\ Whole /\ tx.left = {} /\ tx.doomed = {} /\ tx.batch = <<>> /\ ~tx.dirty
      /\ tx.at # "commit"
  BY DEF IInv, TxInv
<1>2. QED
  BY <1>1, EmptySeq DEF Busy, Batch, Unwritten, Unsaved

(* The copied rows are as many, in the order of the rows they copy.        *)
LEMMA Kept ==
  ASSUME NEW S, NEW file \in Seq(S), NEW rows \in Seq(1..MaxVectors),
         \A i \in 1..Len(rows) : rows[i] \in 1..Len(file)
  PROVE  /\ Keep(file, rows) \in Seq(S)
         /\ Len(Keep(file, rows)) = Len(rows)
         /\ \A i \in 1..Len(rows) : Keep(file, rows)[i] = file[rows[i]]
<1>1. Len(rows) \in Nat /\ DOMAIN rows = 1..Len(rows)
  OBVIOUS
<1>2. Keep(file, rows) = [i \in 1..Len(rows) |-> file[rows[i]]]
  BY <1>1 DEF Keep
<1>3. \A i \in 1..Len(rows) : file[rows[i]] \in S
  BY ElementOf
<1>4. Keep(file, rows) \in [1..Len(rows) -> S]
  BY <1>2, <1>3
<1>5. QED
  BY <1>1, <1>2, <1>4, SeqOf

(* The vector file is compacted and the meta file is not. *)
LEMMA RenameVecStep ==
  ASSUME IInv, RenameVec
  PROVE  IInv'
<1>1. /\ TypeOK /\ TxInv /\ FilesInv /\ RowsInv /\ IdsInv /\ EmbInv /\ LiveInv /\ HomeInv
  BY DEF IInv
<1>2. /\ tx.op = "compact" /\ tx.at = "rename vec" /\ tx' = [tx EXCEPT !.at = "rename meta"]
  BY DEF RenameVec, InTx
<1>3. /\ target' = target /\ emb' = emb /\ meta' = meta /\ count' = count /\ rcount' = rcount
      /\ made' = made /\ harm' = harm /\ faults' = faults
  BY DEF RenameVec
<1>4. vec' = Keep(vec, tx.rows)
  BY DEF RenameVec
<1>5. search' \in Searches /\ search'.clean = FALSE
  <2>1. search \in Searches /\ search' = [search EXCEPT !.clean = FALSE]
    BY <1>1 DEF TypeOK, RenameVec
  <2>2. QED
    BY <2>1 DEF Searches
<1>6. /\ tx' \in Transactions
      /\ tx'.at = "rename meta" /\ tx'.op = "compact" /\ tx'.left = {} /\ tx'.doomed = {}
      /\ tx'.batch = <<>> /\ tx'.rows = tx.rows /\ ~tx'.dirty /\ Busy' = {}
  BY <1>1, <1>2, NextStep, Compacting
<1>7. Whole /\ Whole' /\ Unwritten = 0 /\ Unwritten' = 0 /\ Unsaved = 0 /\ Unsaved' = 0
  BY <1>2, <1>3, <1>6, Compacting DEF Whole, Unwritten, Unsaved
<1>8. /\ count = Len(meta) /\ Len(vec) = Len(meta) /\ Paired /\ Len(vec) <= made
      /\ Len(meta) <= made
      /\ Len(tx.rows) <= Len(meta)
      /\ \A i \in 1..Len(tx.rows) : tx.rows[i] \in 1..Len(meta)
  BY <1>1, <1>2, <1>7 DEF FilesInv, RowsInv
<1>9. /\ vec' \in Seq(1..MaxVectors) /\ Len(vec') = Len(tx.rows)
      /\ \A i \in 1..Len(tx.rows) : vec'[i] = vec[tx.rows[i]]
  <2>1. vec \in Seq(1..MaxVectors) /\ tx.rows \in Seq(1..MaxVectors)
    BY <1>1 DEF TypeOK, Transactions
  <2>2. QED
    BY <1>4, <1>8, <2>1, Kept
<1>10. TypeOK'
  BY <1>1, <1>3, <1>5, <1>6, <1>9, Zenon DEF TypeOK
<1>11. TxInv'
  BY <1>6, <1>7 DEF TxInv
<1>12. FilesInv'
  <2>1. Len(vec') <= made
    BY <1>1, <1>8, <1>9, Types
  <2>2. \A i \in 1..Len(tx.rows) : vec'[i] = meta[tx.rows[i]].id
    BY <1>8, <1>9 DEF Paired
  <2>3. Len(meta') + Unwritten' <= made'
    BY <1>1, <1>3, <1>7 DEF FilesInv
  <2>4. QED
    BY <1>3, <1>6, <1>8, <1>9, <2>1, <2>2, <2>3 DEF FilesInv
<1>13. RowsInv'
  BY <1>1, <1>2, <1>3, <1>6, ZenonT(40) DEF RowsInv
<1>14. IdsInv' /\ EmbInv'
  BY <1>1, <1>3, <1>7 DEF IdsInv, EmbInv
<1>15. LiveInv' /\ StoredInv'
  BY <1>1, <1>2, <1>3, <1>6, <1>7 DEF LiveInv, StoredInv
<1>16. HomeInv'
  <2>1. Busy = {} /\ tx.at # "record" /\ tx'.at # "record"
    BY <1>2, <1>6, Compacting
  <2>2. QED
    BY <1>1, <1>3, <1>6, <2>1 DEF HomeInv, AtHome
<1>17. SearchInv'
  BY <1>5 DEF SearchInv
<1>18. QED
  BY <1>10, <1>11, <1>12, <1>13, <1>14, <1>15, <1>16, <1>17 DEF IInv

(* The files pair again; no live row is lost, and all rows are live. *)
LEMMA RenameMetaStep ==
  ASSUME IInv, RenameMeta
  PROVE  IInv'
<1>1. /\ TypeOK /\ TxInv /\ FilesInv /\ RowsInv /\ IdsInv /\ EmbInv /\ LiveInv /\ HomeInv
  BY DEF IInv
<1>2. /\ tx.op = "compact" /\ tx.at = "rename meta" /\ tx' = [tx EXCEPT !.at = "record"]
  BY DEF RenameMeta, InTx
<1>3. /\ target' = target /\ emb' = emb /\ vec' = vec /\ rcount' = rcount
      /\ made' = made /\ harm' = harm /\ faults' = faults
  BY DEF RenameMeta
<1>4. meta' = Keep(meta, tx.rows) /\ count' = Len(tx.rows)
  BY DEF RenameMeta
<1>5. search' \in Searches /\ search'.clean = FALSE
  <2>1. search \in Searches /\ search' = [search EXCEPT !.clean = FALSE]
    BY <1>1 DEF TypeOK, RenameMeta
  <2>2. QED
    BY <2>1 DEF Searches
<1>6. /\ tx' \in Transactions
      /\ tx'.at = "record" /\ tx'.op = "compact" /\ tx'.left = {} /\ tx'.doomed = {}
      /\ tx'.batch = <<>> /\ tx'.rows = tx.rows /\ ~tx'.dirty /\ Busy' = {}
  BY <1>1, <1>2, NextStep, Compacting
<1>7. Whole /\ Whole' /\ Unwritten = 0 /\ Unwritten' = 0 /\ Unsaved = 0 /\ Unsaved' = 0
      /\ Busy = {}
  BY <1>2, <1>3, <1>6, Compacting DEF Whole, Unwritten, Unsaved
<1> DEFINE n == Len(tx.rows)
<1>8. /\ Len(vec) = n /\ n <= Len(meta) /\ Len(meta) + 0 <= made
      /\ \A i \in 1..n : vec[i] = meta[tx.rows[i]].id
      /\ \A i \in 1..n : tx.rows[i] \in 1..Len(meta) /\ meta[tx.rows[i]].alive
      /\ \A r \in 1..Len(meta) : meta[r].alive => \E i \in 1..n : tx.rows[i] = r
      /\ \A i, j \in 1..n : i < j => tx.rows[i] < tx.rows[j]
  BY <1>1, <1>2, <1>7 DEF FilesInv, RowsInv
<1>9. n \in Nat /\ Len(meta) \in Nat /\ made \in Nat /\ n <= made /\ n \in 0..MaxVectors
  <2>1. n \in Nat /\ Len(meta) \in Nat
    BY <1>1, Types
  <2>2. made \in 0..MaxVectors
    BY <1>1 DEF TypeOK
  <2>3. made \in Nat /\ made <= MaxVectors /\ MaxVectors \in Nat
    BY <2>2, BoundsAssumption, UpTo
  <2>4. n <= made
    BY <1>8, <2>1, <2>3
  <2>5. QED
    BY <2>1, <2>3, <2>4
<1>10. /\ meta' \in Seq(Metas) /\ Len(meta') = n
       /\ \A i \in 1..n : meta'[i] = meta[tx.rows[i]]
  <2>1. meta \in Seq(Metas) /\ tx.rows \in Seq(1..MaxVectors)
    BY <1>1 DEF TypeOK, Transactions, Metas
  <2>2. QED
    BY <1>4, <1>8, <2>1, Kept
<1>11. TypeOK'
  <2>1. count' \in 0..MaxVectors \cup {Closed}
    BY <1>4, <1>9
  <2>2. QED
    BY <1>1, <1>3, <1>5, <1>6, <1>10, <2>1, Zenon DEF TypeOK, Metas
<1>12. TxInv'
  BY <1>6, <1>7 DEF TxInv
<1>13. FilesInv'
  <2>1. Paired'
    BY <1>3, <1>8, <1>10 DEF Paired
  <2>2. count' = Len(meta') /\ Len(vec') = Len(meta') /\ Len(vec') <= made'
        /\ Len(meta') + Unwritten' <= made'
    <3>1. /\ count' = n /\ Len(vec') = n /\ Len(meta') = n /\ made' = made /\ Unwritten' = 0
      BY <1>3, <1>4, <1>7, <1>8, <1>10
    <3>2. QED
      BY <1>9, <3>1
  <2>3. QED
    BY <1>6, <2>1, <2>2 DEF FilesInv
<1>14. RowsInv' /\ StoredInv'
  BY <1>6 DEF RowsInv, StoredInv
<1>15. IdsInv'
  <2>1. \A r \in 1..Len(meta) : meta[r].id <= made - 0
    BY <1>1, <1>7 DEF IdsInv
  <2>2. \A r, s \in 1..Len(meta) : meta[r].id = meta[s].id => r = s
    BY <1>1, <1>7 DEF IdsInv
  <2>3. \A i, j \in 1..n : tx.rows[i] = tx.rows[j] => i = j
    BY <1>8, <1>9, Ascending
  <2>4. \A i \in 1..n : meta'[i].id <= made - 0
    BY <1>8, <1>10, <2>1
  <2>5. \A i, j \in 1..n : meta'[i].id = meta'[j].id => i = j
    BY <1>8, <1>10, <2>2, <2>3, SMTT(40)
  <2>6. QED
    BY <1>3, <1>7, <1>10, <2>4, <2>5 DEF IdsInv
<1>16. EmbInv'
  BY <1>1, <1>3, <1>7 DEF EmbInv
<1>17. LiveInv'
  <2>1. \A i \in 1..n : meta'[i].alive
    BY <1>8, <1>10
  <2>2. QED
    BY <1>6, <1>10, <2>1 DEF LiveInv
<1>18. HomeInv'
  <2> SUFFICES ASSUME harm = "none", NEW t \in Targets, emb[t] # NoEmb
               PROVE  \E i \in 1..n : meta'[i].id = emb[t].id
    BY <1>3, <1>6, <1>10 DEF HomeInv
  <2>1. AtHome(t)
    BY <1>1, <1>2, <1>7 DEF HomeInv
  <2>2. PICK i \in 1..n : tx.rows[i] = emb[t].row
    BY <1>8, <2>1 DEF AtHome
  <2>3. meta'[i] = meta[emb[t].row]
    BY <1>10, <2>2
  <2>4. QED
    BY <2>1, <2>3 DEF AtHome
<1>19. SearchInv'
  BY <1>5 DEF SearchInv
<1>20. QED
  BY <1>11, <1>12, <1>13, <1>14, <1>15, <1>16, <1>17, <1>18, <1>19 DEF IInv

(* Ids are unique, so each embedding finds its own row. *)
LEMMA RecordRowsStep ==
  ASSUME IInv, RecordRows
  PROVE  IInv'
<1>1. /\ TypeOK /\ TxInv /\ FilesInv /\ IdsInv /\ EmbInv /\ LiveInv /\ HomeInv /\ SearchInv
  BY DEF IInv
<1>2. /\ tx.op = "compact" /\ tx.at = "record"
      /\ target' = target /\ vec' = vec /\ meta' = meta /\ count' = count /\ rcount' = rcount
      /\ made' = made /\ search' = search /\ harm' = harm /\ faults' = faults
  BY DEF RecordRows, InTx
<1>3. tx' = NoTx
  BY DEF RecordRows
<1>4. /\ Whole /\ Whole' /\ Unwritten = 0 /\ Unwritten' = 0 /\ Unsaved = 0 /\ Unsaved' = 0
      /\ Busy = {}
  BY <1>2, <1>3, Compacting, Ended DEF Whole, Unwritten, Unsaved
<1>5. Len(meta) \in 0..MaxVectors /\ DOMAIN meta = 1..Len(meta)
  <2>1. made \in 0..MaxVectors /\ Len(meta) + 0 <= made
    BY <1>1, <1>4 DEF TypeOK, FilesInv
  <2>2. Len(meta) \in Nat /\ DOMAIN meta = 1..Len(meta)
    BY <1>1, Types
  <2>3. made \in Nat /\ made <= MaxVectors /\ MaxVectors \in Nat
    BY <2>1, BoundsAssumption, UpTo
  <2>4. QED
    BY <2>1, <2>2, <2>3
<1>6. \A t \in Targets : PlaceOf(emb[t].id) = {r \in 1..Len(meta) : meta[r].id = emb[t].id}
  BY <1>5 DEF PlaceOf
<1>7. ASSUME NEW t \in Targets
      PROVE  /\ emb'[t].id = emb[t].id
             /\ emb'[t] \in [id : 0..MaxVectors, row : 0..MaxVectors]
             /\ emb[t] = NoEmb => emb'[t] = NoEmb
             /\ emb[t] # NoEmb => \A r \in 1..Len(meta) :
                  meta[r].id = emb[t].id => emb'[t].row = r
  <2>1. emb[t] \in [id : 0..MaxVectors, row : 0..MaxVectors]
    BY <1>1 DEF TypeOK
  <2>2. CASE emb[t] # NoEmb /\ PlaceOf(emb[t].id) # {}
    <3>1. PICK r \in PlaceOf(emb[t].id) : r = CHOOSE q \in PlaceOf(emb[t].id) : TRUE
      BY <2>2
    <3>2. emb'[t] = [emb[t] EXCEPT !.row = r]
      BY <2>2, <3>1 DEF RecordRows
    <3>3. r \in 1..Len(meta) /\ meta[r].id = emb[t].id
      BY <1>6, <3>1
    <3>4. r \in 0..MaxVectors
      BY <1>5, <3>3, BoundsAssumption, Below
    <3>5. /\ emb'[t].id = emb[t].id /\ emb'[t].row = r
          /\ emb'[t] \in [id : 0..MaxVectors, row : 0..MaxVectors]
      BY <2>1, <3>2, <3>4
    <3>6. \A q \in 1..Len(meta) : meta[q].id = emb[t].id => q = r
      BY <1>1, <1>4, <3>3 DEF IdsInv
    <3>7. QED
      BY <2>2, <3>5, <3>6
  <2>3. CASE emb[t] = NoEmb \/ PlaceOf(emb[t].id) = {}
    <3>1. emb'[t] = emb[t]
      BY <2>3 DEF RecordRows
    <3>2. emb[t] # NoEmb => ~\E r \in 1..Len(meta) : meta[r].id = emb[t].id
      BY <1>6, <2>3
    <3>3. QED
      BY <2>1, <3>1, <3>2
  <2>4. QED
    BY <2>2, <2>3
<1>8. TypeOK'
  <2>1. emb' = [t \in Targets |-> emb'[t]]
    BY DEF RecordRows
  <2>2. emb' \in [Targets -> [id : 0..MaxVectors, row : 0..MaxVectors]]
    BY <1>7, <2>1
  <2>3. QED
    BY <1>1, <1>2, <1>3, <2>2, Ended, Zenon DEF TypeOK
<1>9. TxInv'
  BY <1>3, <1>4, Ended DEF TxInv
<1>10. FilesInv' /\ IdsInv'
  <2>1. tx'.at = "none"
    BY <1>3, Ended
  <2>2. QED
    BY <1>1, <1>2, <1>4, <2>1 DEF FilesInv, IdsInv, Paired
<1>11. EmbInv'
  BY <1>1, <1>2, <1>4, <1>7 DEF EmbInv
<1>12. LiveInv'
  <2> SUFFICES ASSUME NEW t \in Targets, NEW r \in 1..Len(meta),
                      meta[r].id = emb'[t].id, meta[r].alive
               PROVE  emb'[t].row = r
    <3>1. tx'.at = "none" /\ meta' = meta
      BY <1>2, <1>3, Ended
    <3>2. QED
      BY <3>1 DEF LiveInv
  <2>1. emb[t] # NoEmb
    <3>1. meta[r].id # 0 /\ NoEmb.id = 0
      BY <1>1, Types DEF NoEmb
    <3>2. QED
      BY <1>7, <3>1
  <2>2. QED
    BY <1>7, <2>1
<1>13. HomeInv'
  <2> SUFFICES ASSUME harm = "none", NEW t \in Targets, emb'[t] # NoEmb
               PROVE  AtHome(t)'
    <3>1. tx'.at = "none" /\ harm' = harm
      BY <1>2, <1>3, Ended
    <3>2. QED
      BY <3>1 DEF HomeInv
  <2>1. emb[t] # NoEmb
    BY <1>7
  <2>2. PICK r \in 1..Len(meta) : meta[r].id = emb[t].id
    BY <1>1, <1>2, <1>4, <2>1 DEF HomeInv
  <2>3. meta[r].alive
    BY <1>1, <1>2, <1>4 DEF LiveInv
  <2>4. emb'[t].row = r /\ emb'[t].id = emb[t].id
    BY <1>7, <2>1, <2>2
  <2>5. QED
    BY <1>2, <2>2, <2>3, <2>4 DEF AtHome
<1>14. RowsInv' /\ StoredInv'
  BY <1>3, Ended DEF RowsInv, StoredInv
<1>15. SearchInv'
  <2>1. tx'.at = "none"
    BY <1>3, Ended
  <2>2. QED
    BY <1>1, <1>2, <1>4, <2>1 DEF SearchInv
<1>16. QED
  BY <1>8, <1>9, <1>10, <1>11, <1>12, <1>13, <1>14, <1>15 DEF IInv

-----------------------------------------------------------------------------
(* No search. *)
LEMMA IdleSearch == Idle \in Searches /\ [Idle EXCEPT !.step = "failed"] \in Searches
<1>1. 0 \in 0..MaxVectors
  BY BoundsAssumption
<1>2. Idle \in Searches
  BY <1>1, EmptySeq DEF Idle, Searches
<1>3. QED
  BY <1>2 DEF Searches

(* A transaction fails, or its process is killed. *)
LEMMA RollbackStep ==
  ASSUME IInv, Rollback, count' = count \/ count' = Closed,
         search' = search \/ search' = Idle
  PROVE  IInv'
<1>1. /\ TypeOK /\ TxInv /\ FilesInv /\ IdsInv /\ EmbInv /\ LiveInv /\ HomeInv /\ SearchInv
  BY DEF IInv
<1>2. /\ tx.op # "none" /\ tx' = NoTx /\ faults < MaxFaults /\ faults' = faults + 1
      /\ target' = target /\ emb' = emb /\ vec' = vec /\ meta' = meta /\ rcount' = rcount
      /\ made' = made
  BY DEF Rollback, Free
<1>3. harm' = Harm
  BY DEF Rollback
<1>4. /\ tx' \in Transactions /\ tx'.at = "none" /\ tx'.op = "none" /\ tx'.left = {}
      /\ tx'.doomed = {} /\ tx'.batch = <<>> /\ Len(tx'.batch) = 0 /\ tx'.dirty = FALSE
      /\ Busy' = {}
  BY <1>2, Ended
<1>5. Whole
  BY <1>1, <1>2 DEF TxInv
<1>6. /\ Whole' => tx.at \notin {"append meta", "rename meta", "record"}
      /\ harm' = "none" => harm = "none" /\ ~tx.dirty
      /\ harm' \in {"none", "lost", "torn"}
  <2>1. harm \in {"none", "lost", "torn"}
    BY <1>1 DEF TypeOK
  <2>2. QED
    BY <1>3, <2>1 DEF Harm, Whole
<1>7. /\ Unwritten' = 0 /\ Unsaved' = 0 /\ Unwritten \in Nat /\ Unsaved \in Nat
      /\ made \in Nat /\ Len(meta) \in Nat
  <2>1. Len(tx.batch) \in Nat /\ made \in Nat /\ Len(meta) \in Nat
    BY <1>1, Types
  <2>2. Unwritten \in Nat /\ Unsaved \in Nat
    BY <2>1 DEF Unwritten, Unsaved
  <2>3. Unwritten' = 0 /\ Unsaved' = 0
    BY <1>4 DEF Unwritten, Unsaved
  <2>4. QED
    BY <2>1, <2>2, <2>3
<1>8. TypeOK'
  <2>1. faults' \in 0..MaxFaults
    <3>1. faults \in 0..MaxFaults
      BY <1>1 DEF TypeOK
    <3>2. QED
      BY <1>2, <3>1, BoundsAssumption
  <2>2. count' \in 0..MaxVectors \cup {Closed}
    BY <1>1 DEF TypeOK
  <2>3. search' \in Searches
    BY <1>1, IdleSearch DEF TypeOK
  <2>4. QED
    BY <1>1, <1>2, <1>4, <1>6, <2>1, <2>2, <2>3, Zenon DEF TypeOK
<1>9. TxInv'
  BY <1>4 DEF TxInv
<1>10. FilesInv'
  <2>1. ASSUME Whole' PROVE /\ count' # Closed => count' = Len(meta)
                            /\ Len(vec) = Len(meta) /\ Paired
                            /\ Len(meta) + 0 <= made
    <3>1. tx.at \notin {"append meta", "rename meta"}
      BY <1>6, <2>1
    <3>2. /\ count # Closed => count = Len(meta)
          /\ Len(vec) = Len(meta) /\ Paired
          /\ Len(meta) + Unwritten <= made
      BY <1>1, <1>5, <3>1 DEF FilesInv
    <3>3. Len(meta) + 0 <= made
      BY <1>7, <3>2
    <3>4. QED
      BY <3>2, <3>3
  <2>2. Len(vec') <= made'
    BY <1>1, <1>2 DEF FilesInv
  <2>3. QED
    BY <1>2, <1>4, <1>7, <2>1, <2>2 DEF FilesInv, Paired
<1>11. IdsInv'
  <2>1. \A r \in 1..Len(meta) : meta[r].id <= made - Unwritten /\ meta[r].id \in Nat
    BY <1>1, <1>5, Types DEF IdsInv
  <2>2. \A r \in 1..Len(meta) : meta[r].id <= made - 0
    BY <1>7, <2>1
  <2>3. \A r, s \in 1..Len(meta) : meta[r].id = meta[s].id => r = s
    BY <1>1, <1>5 DEF IdsInv
  <2>4. QED
    BY <1>2, <1>7, <2>2, <2>3 DEF IdsInv
<1>12. EmbInv'
  <2>1. \A t \in Targets : emb[t].id <= made - Unsaved /\ emb[t].id \in Nat
    BY <1>1, Types DEF EmbInv
  <2>2. \A t \in Targets : emb[t].id <= made - 0
    BY <1>7, <2>1
  <2>3. QED
    BY <1>1, <1>2, <1>7, <2>2 DEF EmbInv
<1>13. LiveInv'
  BY <1>1, <1>2, <1>4, <1>5, <1>6 DEF LiveInv
<1>14. HomeInv'
  <2> SUFFICES ASSUME harm' = "none", NEW t \in Targets, emb[t] # NoEmb
               PROVE  AtHome(t)'
    BY <1>2, <1>4 DEF HomeInv
  <2>1. Whole' /\ tx.at # "record" /\ harm = "none" /\ ~tx.dirty
    BY <1>6 DEF Whole
  <2>2. AtHome(t)
    BY <1>1, <2>1 DEF HomeInv
  <2>3. QED
    BY <1>2, <2>2 DEF AtHome
<1>15. RowsInv' /\ StoredInv'
  BY <1>4 DEF RowsInv, StoredInv
<1>16. SearchInv'
  <2>1. CASE search' = search
    BY <1>1, <1>2, <1>4, <1>5, <2>1 DEF SearchInv
  <2>2. CASE search' = Idle
    BY <2>2 DEF SearchInv, Idle
  <2>3. QED
    BY <2>1, <2>2
<1>17. QED
  BY <1>8, <1>9, <1>10, <1>11, <1>12, <1>13, <1>14, <1>15, <1>16 DEF IInv

-----------------------------------------------------------------------------
(* A search. *)
LEMMA SearchTypes ==
  ASSUME TypeOK, search' \in Searches,
         UNCHANGED <<target, emb, vec, meta, made, tx, harm, faults>>,
         count' \in 0..MaxVectors \cup {Closed}, rcount' \in 0..MaxVectors \cup {Closed}
  PROVE  TypeOK'
<1>1. /\ target' = target /\ emb' = emb /\ vec' = vec /\ meta' = meta /\ made' = made
      /\ tx' = tx /\ harm' = harm /\ faults' = faults
  OBVIOUS
<1>2. QED
  BY <1>1, Zenon DEF TypeOK

(* A process that renames the meta file holds the lock its searches need. *)
LEMMA StartSearchStep ==
  ASSUME IInv, NEW from \in {"here", "elsewhere"}, StartSearch(from)
  PROVE  IInv'
<1>1. TypeOK /\ TxInv /\ FilesInv /\ SearchInv
  BY DEF IInv
<1> DEFINE cnt == Opened(IF from = "here" THEN count ELSE rcount)
<1>2. /\ target' = target /\ emb' = emb /\ vec' = vec /\ meta' = meta /\ made' = made
      /\ tx' = tx /\ harm' = harm /\ faults' = faults
      /\ from = "here" => /\ tx.at \notin {"append meta", "rename meta"}
                          /\ count' = Opened(count) /\ rcount' = rcount
      /\ from # "here" => rcount' = Opened(rcount) /\ count' = count
  BY DEF StartSearch
<1>3. search' = IF cnt = 0 THEN Idle
                ELSE [Idle EXCEPT !.step = "counted", !.from = from, !.cnt = cnt,
                                  !.clean = ~Renaming]
  BY DEF StartSearch
<1>4. Opened(count) \in 0..MaxVectors /\ Opened(rcount) \in 0..MaxVectors
  BY <1>1, OpenedBounds
<1>5. cnt \in 0..MaxVectors
  BY <1>4
<1>6. Idle \in Searches
  BY IdleSearch
<1>7. /\ search' \in Searches /\ search'.hits = {}
      /\ search'.step \in {"idle", "counted"}
      /\ search'.step = "counted" => search'.clean = ~Renaming
  <2>1. CASE cnt = 0
    <3>1. search' = Idle
      BY <1>3, <2>1
    <3>2. QED
      BY <1>6, <3>1 DEF Idle
  <2>2. CASE cnt # 0
    <3>1. search' = [step |-> "counted", from |-> from, cnt |-> cnt, v |-> <<>>, hits |-> {},
                     clean |-> ~Renaming]
      BY <1>3, <2>2 DEF Idle
    <3>2. from \in {"here", "elsewhere"} /\ (~Renaming) \in BOOLEAN
      OBVIOUS
    <3>3. search' \in Searches
      BY <1>5, <3>1, <3>2, EmptySeq, Zenon DEF Searches
    <3>4. search'.hits = {} /\ search'.step = "counted" /\ search'.clean = ~Renaming
      BY <3>1
    <3>5. QED
      BY <3>3, <3>4
  <2>3. QED
    BY <2>1, <2>2
<1>8. TypeOK'
  <2>1. count' \in 0..MaxVectors \cup {Closed} /\ rcount' \in 0..MaxVectors \cup {Closed}
    BY <1>1, <1>2, <1>4 DEF TypeOK
  <2>2. QED
    BY <1>1, <1>2, <1>7, <2>1, SearchTypes
<1>9. SearchInv'
  <2>1. Whole /\ tx.at = "rename meta" => tx.op = "compact"
    BY <1>1 DEF TxInv, TypeOK, Transactions
  <2>2. QED
    BY <1>2, <1>7, <2>1 DEF SearchInv, Renaming, InTx, Whole
<1>10. QED
  BY <1>2, <1>8, <1>9, SearchStep

(* Appends only add to what was read; a compaction marks the search. *)
LEMMA OpenVecStep ==
  ASSUME IInv, OpenVec
  PROVE  IInv'
<1>1. TypeOK /\ SearchInv
  BY DEF IInv
<1>2. /\ search.step = "counted"
      /\ target' = target /\ emb' = emb /\ vec' = vec /\ meta' = meta /\ made' = made
      /\ count' = count /\ rcount' = rcount /\ tx' = tx /\ harm' = harm /\ faults' = faults
  BY DEF OpenVec
<1>3. search' = [search EXCEPT !.step = "opened", !.v = vec]
  BY DEF OpenVec
<1>4. search \in Searches /\ vec \in Seq(1..MaxVectors)
  BY <1>1 DEF TypeOK
<1>5. /\ search'.step = "opened" /\ search'.v = vec /\ search'.hits = search.hits
      /\ search'.clean = search.clean
  BY <1>3, <1>4 DEF Searches
<1>6. search' \in Searches
  BY <1>3, <1>4 DEF Searches
<1>7. TypeOK'
  <2>1. count' \in 0..MaxVectors \cup {Closed} /\ rcount' \in 0..MaxVectors \cup {Closed}
    BY <1>1, <1>2 DEF TypeOK
  <2>2. QED
    BY <1>1, <1>2, <1>6, <2>1, SearchTypes
<1>8. SearchInv'
  <2> SUFFICES ASSUME Whole, search.clean
               PROVE  /\ tx.at # "rename meta"
                      /\ Len(vec) <= Len(vec) /\ \A r \in 1..Len(vec) : vec[r] = vec[r]
                      /\ \A h \in search.hits : h.id = h.of
    BY <1>2, <1>5, Zenon DEF SearchInv, Whole
  <2>1. Len(vec) \in Nat
    BY <1>4
  <2>2. tx.at # "rename meta" /\ \A h \in search.hits : h.id = h.of
    BY <1>1, <1>2 DEF SearchInv
  <2>3. Len(vec) <= Len(vec)
    BY <2>1
  <2>4. QED
    BY <2>2, <2>3, Zenon
<1>9. QED
  BY <1>2, <1>7, <1>8, SearchStep

(* A search looks at rows that are in both files. *)
LEMMA Least ==
  ASSUME NEW a \in Nat, NEW b \in Nat, NEW c \in Nat
  PROVE  \E n \in {a, b, c} : \A m \in {a, b, c} : n <= m
<1>1. CASE a <= b /\ a <= c
  BY <1>1
<1>2. CASE b <= a /\ b <= c
  BY <1>2
<1>3. CASE c <= a /\ c <= b
  BY <1>3
<1>4. QED
  BY <1>1, <1>2, <1>3

(* A search only scans rows that all it looks at have. *)
LEMMA UsableRows ==
  ASSUME TypeOK
  PROVE  /\ Usable \in Nat
         /\ Usable <= search.cnt /\ Usable <= Len(search.v) /\ Usable <= Len(meta)
<1>1. search \in Searches
  BY DEF TypeOK
<1>2. search.cnt \in Nat
  <2>1. search.cnt \in 0..MaxVectors
    BY <1>1 DEF Searches
  <2>2. QED
    BY <2>1, BoundsAssumption
<1>3. Len(search.v) \in Nat
  BY <1>1 DEF Searches
<1>4. Len(meta) \in Nat
  BY Types
<1>5. \E n \in {search.cnt, Len(search.v), Len(meta)} :
        \A m \in {search.cnt, Len(search.v), Len(meta)} : n <= m
  BY <1>2, <1>3, <1>4, Least
<1>6. /\ Usable \in {search.cnt, Len(search.v), Len(meta)}
      /\ \A m \in {search.cnt, Len(search.v), Len(meta)} : Usable <= m
  BY <1>5 DEF Usable
<1>7. QED
  BY <1>2, <1>3, <1>4, <1>6

(* The rows of what was read pair with those of the meta file. *)
LEMMA ScanStep ==
  ASSUME IInv, Scan
  PROVE  IInv'
<1>1. TypeOK /\ TxInv /\ FilesInv /\ SearchInv
  BY DEF IInv
<1>2. /\ search.step = "opened"
      /\ target' = target /\ emb' = emb /\ vec' = vec /\ meta' = meta /\ made' = made
      /\ count' = count /\ rcount' = rcount /\ tx' = tx /\ harm' = harm /\ faults' = faults
  BY DEF Scan
<1>3. PICK best \in SUBSET Alive :
        search' = [search EXCEPT
          !.step = "scanned", !.v = <<>>,
          !.hits = {[id |-> meta[r].id, of |-> search.v[r]] : r \in best}]
  BY DEF Scan
<1> DEFINE hits == {[id |-> meta[r].id, of |-> search.v[r]] : r \in best}
<1>4. search \in Searches
  BY <1>1 DEF TypeOK
<1>5. \A r \in best : r \in 1..Len(search.v) /\ r \in 1..Len(meta)
  <2>1. Len(search.v) \in Nat
    BY <1>4 DEF Searches
  <2>2. QED
    BY <1>1, <1>3, <2>1, UsableRows, Types DEF Alive
<1>6. hits \in SUBSET [id : 1..MaxVectors, of : 1..MaxVectors]
  <2>1. search.v \in Seq(1..MaxVectors)
    BY <1>4 DEF Searches
  <2>2. \A r \in best : search.v[r] \in 1..MaxVectors
    BY <1>5, <2>1, ElementOf
  <2>3. meta \in Seq(Metas)
    BY <1>1 DEF TypeOK, Metas
  <2>4. \A r \in best : meta[r] \in Metas
    BY <1>5, <2>3, ElementOf
  <2>5. \A r \in best : meta[r].id \in 1..MaxVectors
    BY <2>4 DEF Metas
  <2>6. QED
    BY <2>2, <2>5
<1>7. search' \in Searches
  <2>1. search' = [search EXCEPT !.step = "scanned", !.v = <<>>, !.hits = hits]
    BY <1>3
  <2> HIDE DEF hits
  <2>2. QED
    BY <1>4, <1>6, <2>1, EmptySeq DEF Searches
<1>8. search'.step = "scanned" /\ search'.hits = hits /\ search'.clean = search.clean
  BY <1>3, <1>4 DEF Searches
<1>9. TypeOK'
  <2>1. count' \in 0..MaxVectors \cup {Closed} /\ rcount' \in 0..MaxVectors \cup {Closed}
    BY <1>1, <1>2 DEF TypeOK
  <2>2. QED
    BY <1>1, <1>2, <1>7, <2>1, SearchTypes
<1>10. ASSUME Whole, search.clean, NEW r \in best PROVE meta[r].id = search.v[r]
  <2>1. /\ tx.at # "rename meta"
        /\ Len(search.v) <= Len(vec)
        /\ search.v[r] = vec[r]
    BY <1>1, <1>2, <1>5, <1>10 DEF SearchInv
  <2>2. Paired
    BY <1>1, <1>10, <2>1 DEF FilesInv
  <2>3. QED
    BY <1>5, <2>1, <2>2 DEF Paired
<1>11. SearchInv'
  <2> SUFFICES ASSUME Whole, search.clean, NEW h \in hits PROVE h.id = h.of
    BY <1>2, <1>8 DEF SearchInv, Whole
  <2>1. PICK r \in best : h = [id |-> meta[r].id, of |-> search.v[r]]
    OBVIOUS
  <2>2. QED
    BY <1>10, <2>1
<1>12. QED
  BY <1>2, <1>9, <1>11, SearchStep

(* A search ends. *)
LEMMA ResolveStep ==
  ASSUME IInv, ResolveHits \/ ResolveFails
  PROVE  IInv'
<1>1. TypeOK
  BY DEF IInv
<1>2. /\ target' = target /\ emb' = emb /\ vec' = vec /\ meta' = meta /\ made' = made
      /\ count' = count /\ rcount' = rcount /\ tx' = tx /\ harm' = harm /\ faults' = faults
  BY DEF ResolveHits, ResolveFails
<1>3. search' = Idle \/ search' = [Idle EXCEPT !.step = "failed"]
  BY DEF ResolveHits, ResolveFails
<1>4. search' \in Searches
  BY <1>3, IdleSearch
<1>5. search'.step \in {"idle", "failed"} /\ search'.hits = {}
  BY <1>3 DEF Idle
<1>6. TypeOK'
  <2>1. count' \in 0..MaxVectors \cup {Closed} /\ rcount' \in 0..MaxVectors \cup {Closed}
    BY <1>1, <1>2 DEF TypeOK
  <2>2. QED
    BY <1>1, <1>2, <1>4, <2>1, SearchTypes
<1>7. SearchInv'
  BY <1>5 DEF SearchInv
<1>8. QED
  BY <1>2, <1>6, <1>7, SearchStep

-----------------------------------------------------------------------------
(* Nothing happens. *)
LEMMA StutterStep ==
  ASSUME IInv, UNCHANGED vars
  PROVE  IInv'
<1>1. /\ target' = target /\ emb' = emb /\ vec' = vec /\ meta' = meta /\ count' = count
      /\ rcount' = rcount /\ made' = made /\ tx' = tx /\ search' = search
      /\ harm' = harm /\ faults' = faults
  BY DEF vars
<1>2. target' \in [Targets -> {"new", "present", "gone"}]
  BY <1>1 DEF IInv, TypeOK
<1>3. QED
  BY <1>1, <1>2, TargetsStep

(* Every step of the writer. *)
LEMMA WriteStep ==
  ASSUME IInv, Write
  PROVE  IInv'
<1>1. target \in [Targets -> {"new", "present", "gone"}]
  BY DEF IInv, TypeOK
<1>2. CASE \E t \in Targets : PutTarget(t)
  <2>1. target' \in [Targets -> {"new", "present", "gone"}]
    BY <1>1, <1>2 DEF PutTarget
  <2>2. UNCHANGED <<emb, vec, meta, count, rcount, made, tx, search, harm, faults>>
    BY <1>2 DEF PutTarget
  <2>3. QED
    BY <2>1, <2>2, TargetsStep
<1>3. CASE \E t \in Targets : Kill(t)
  BY <1>3, KillStep
<1>4. CASE \E S \in SUBSET Targets \ {{}} : DeletePlain(S)
  <2>1. target' \in [Targets -> {"new", "present", "gone"}]
    BY <1>1, <1>4 DEF DeletePlain
  <2>2. UNCHANGED <<emb, vec, meta, count, rcount, made, tx, search, harm, faults>>
    BY <1>4 DEF DeletePlain
  <2>3. QED
    BY <2>1, <2>2, TargetsStep
<1>5. CASE \E S \in SUBSET Targets \ {{}} : BeginDrop(S)
  BY <1>5, BeginDropStep
<1>6. CASE \E n \in 1..MaxBatch : \E batch \in [1..n -> Targets] : BeginPut(batch)
  <2>1. PICK n \in 1..MaxBatch : \E batch \in [1..n -> Targets] : BeginPut(batch)
    BY <1>6
  <2>2. n \in Nat \ {0}
    BY BoundsAssumption
  <2>3. QED
    BY <2>1, <2>2, BeginPutStep
<1>7. CASE \E n \in 0..Opened(count) : \E rows \in [1..n -> 1..Opened(count)] : BeginCompact(rows)
  BY <1>7, BeginCompactStep
<1>8. CASE CommitDrop \/ AppendVec \/ AppendMeta \/ CommitPut
  BY <1>8, CommitDropStep, AppendVecStep, AppendMetaStep, CommitPutStep
<1>9. CASE RenameVec \/ RenameMeta \/ RecordRows
  BY <1>9, RenameVecStep, RenameMetaStep, RecordRowsStep
<1>10. QED
  BY <1>2, <1>3, <1>4, <1>5, <1>6, <1>7, <1>8, <1>9, Zenon DEF Write

(* The invariant holds of every reachable state. *)
LEMMA Inductive == Spec => []IInv
<1>1. ASSUME IInv, [Next]_vars PROVE IInv'
  <2>1. CASE Write
    BY <1>1, <2>1, WriteStep
  <2>2. CASE Fail
    BY <1>1, <2>2, RollbackStep DEF Fail
  <2>3. CASE Crash
    BY <1>1, <2>3, RollbackStep DEF Crash
  <2>4. CASE Search
    BY <1>1, <2>4, StartSearchStep, OpenVecStep, ScanStep, ResolveStep DEF Search
  <2>5. CASE UNCHANGED vars
    BY <1>1, <2>5, StutterStep
  <2>6. QED
    BY <1>1, <2>1, <2>2, <2>3, <2>4, <2>5 DEF Next
<1>2. QED
  BY InitInvariant, <1>1, PTL DEF Spec

-----------------------------------------------------------------------------
(* The state keeps the shape the code gives it: transactions and searches  *)
(* of VectorStore and Db hold what their step needs.                       *)
THEOREM VectorsTypeCorrect == Spec => []TypeOK
<1>1. IInv => TypeOK
  BY DEF IInv
<1>2. QED
  BY <1>1, Inductive, PTL

(* A live row of either file is at the same place in the other, unless the *)
(* files are being renamed.                                                *)
LEMMA LiveRowIsHome ==
  ASSUME IInv, Whole, tx.op # "compact", NEW t \in Targets,
         NEW r \in 1..Len(meta), meta[r].id = emb[t].id
  PROVE  IsHome(emb[t], r)
<1>1. TypeOK /\ TxInv /\ FilesInv
  BY DEF IInv
<1>2. tx.op \in {"none", "put", "drop", "compact"}
  BY <1>1 DEF TypeOK, Transactions
<1>3. tx.at # "rename meta"
  BY <1>1, <1>2 DEF TxInv
<1>4. Paired /\ (Len(vec) = Len(meta) \/ Len(vec) = Len(meta) + Len(tx.batch))
  BY <1>1, <1>3 DEF FilesInv
<1>5. /\ Len(vec) \in Nat /\ Len(meta) \in Nat /\ Len(tx.batch) \in Nat
      /\ DOMAIN vec = 1..Len(vec) /\ DOMAIN meta = 1..Len(meta)
  BY <1>1, Types
<1>6. r \in DOMAIN vec /\ r \in DOMAIN meta
  BY <1>4, <1>5, AsLong
<1>7. QED
  BY <1>4, <1>6 DEF IsHome, Paired

(* The row the table has for an embedding is its own in both files, and    *)
(* alive, as long as no transaction of Db was rolled back after it called  *)
(* VectorStore::tombstone: whatever was appended, killed and compacted.    *)
THEOREM TableNamesLiveRows == Spec => []RowsPointHome
<1>1. IInv => RowsPointHome
  <2> SUFFICES ASSUME IInv, harm = "none", tx.op # "compact",
                      NEW t \in Targets \ Busy, emb[t] # NoEmb
               PROVE  IsHome(emb[t], emb[t].row) /\ meta[emb[t].row].alive
    BY DEF RowsPointHome
  <2>1. Whole /\ TypeOK /\ TxInv /\ HomeInv
    BY DEF IInv, Whole
  <2>2. tx.at # "record"
    BY <2>1 DEF TxInv, TypeOK, Transactions
  <2>3. AtHome(t)
    BY <2>1, <2>2 DEF HomeInv
  <2>4. QED
    BY <2>1, <2>3, LiveRowIsHome DEF AtHome
<1>2. QED
  BY <1>1, Inductive, PTL

(* Even after rollbacks, a row that is still alive is where the table says *)
(* it is, so get_embeddings reads right whatever a search can find.        *)
THEOREM LiveRowsStayHome == Spec => []LiveRowsPointHome
<1>1. IInv => LiveRowsPointHome
  <2> SUFFICES ASSUME IInv, Whole, tx.op # "compact", NEW t \in Targets,
                      NEW r \in DOMAIN meta,
                      meta[r].id = emb[t].id, meta[r].alive
               PROVE  emb[t].row = r /\ IsHome(emb[t], r)
    BY DEF LiveRowsPointHome, Whole
  <2>1. TypeOK /\ TxInv /\ LiveInv
    BY DEF IInv
  <2>2. r \in 1..Len(meta)
    BY <2>1, Types
  <2>3. tx.at # "record"
    BY <2>1 DEF TxInv, TypeOK, Transactions
  <2>4. emb[t].row = r
    BY <2>1, <2>2, <2>3 DEF LiveInv
  <2>5. QED
    BY <2>2, <2>4, LiveRowIsHome
<1>2. QED
  BY <1>1, Inductive, PTL

(* VectorStore::search scores each hit by the hit's own vector, unless a   *)
(* compaction ran into it: any interleaving with appends, tombstones,      *)
(* rollbacks and compactions, from any process, with any old row count.    *)
THEOREM SearchHitsAreRight == Spec => []HitsAreRight
<1>1. IInv => HitsAreRight
  BY DEF IInv, SearchInv, HitsAreRight, Whole
<1>2. QED
  BY <1>1, Inductive, PTL

(* Only a put that commits gives an embedding a new row in its             *)
(* transaction.                                                            *)
LEMMA OnlyCommitSaves ==
  ASSUME Next, tx.op = "put", emb' # emb
  PROVE  CommitPut
<1>1. CASE Write
  BY <1>1, Zenon DEF Write, PutTarget, Kill, DeletePlain, BeginDrop, BeginPut, CommitDrop,
     AppendVec, AppendMeta, BeginCompact, RenameVec, RenameMeta, RecordRows, InTx
<1>2. CASE Fail \/ Crash
  BY <1>2 DEF Fail, Crash, Rollback
<1>3. CASE Search
  BY <1>3 DEF Search, StartSearch, OpenVec, Scan, ResolveHits, ResolveFails
<1>4. QED
  BY <1>1, <1>2, <1>3 DEF Next

(* When put_embeddings commits, each of its targets gets an embedding of   *)
(* its own, whose row is in both files and alive.                          *)
THEOREM CommittedPutsAreStored == Spec => CommitStores
<1>1. ASSUME IInv, [Next]_vars, tx.op = "put", emb' # emb
      PROVE  \A t \in Batch : /\ emb'[t] # emb[t]
                              /\ IsHome(emb'[t], emb'[t].row)
                              /\ meta[emb'[t].row].alive
  <2>1. CommitPut
    BY <1>1, OnlyCommitSaves DEF vars
  <2>2. /\ TypeOK /\ FilesInv /\ EmbInv /\ tx.at = "commit" /\ Whole
        /\ Len(tx.batch) \in Nat /\ made \in Nat /\ Len(tx.batch) <= made
        /\ Batch = {tx.batch[i] : i \in 1..Len(tx.batch)}
    BY <1>1, <2>1, PutReady DEF IInv, CommitPut, InTx
  <2>3. Paired /\ Len(vec) = Len(meta) /\ DOMAIN vec = 1..Len(vec) /\ DOMAIN meta = 1..Len(meta)
    BY <2>2, Types DEF FilesInv
  <2>4. TAKE t \in Batch
  <2>5. t \in Targets
    <3>1. PICK i \in 1..Len(tx.batch) : t = tx.batch[i]
      BY <2>2
    <3>2. tx.batch \in Seq(Targets)
      BY <2>2 DEF TypeOK, Transactions
    <3>3. QED
      BY <3>1, <3>2, ElementOf
  <2>6. /\ \E i \in 1..Len(tx.batch) : emb'[t].id = made - Len(tx.batch) + i
        /\ emb'[t].row \in 1..Len(meta)
        /\ meta[emb'[t].row].id = emb'[t].id /\ meta[emb'[t].row].alive
    BY <1>1, <2>1, <2>5, SavedRows
  <2>7. emb[t].id \in Nat /\ emb[t].id <= made - Len(tx.batch)
    BY <2>2, <2>5, Types DEF EmbInv, Unsaved
  <2>8. emb'[t] # emb[t]
    BY <2>2, <2>6, <2>7, Beyond
  <2>9. IsHome(emb'[t], emb'[t].row)
    BY <2>3, <2>6 DEF IsHome, Paired
  <2>10. QED
    BY <2>6, <2>8, <2>9
<1>2. QED
  BY <1>1, Inductive, PTL DEF Spec, CommitStores

(* Type correctness and the two halves of the match of files and table, as *)
(* the one property the run checks, for any targets, batches and faults.   *)
THEOREM FilesKeepMatching == Spec => []FilesMatchTheTable
BY VectorsTypeCorrect, TableNamesLiveRows, LiveRowsStayHome, PTL DEF FilesMatchTheTable
=============================================================================
