------------------------------- MODULE KbIndex -------------------------------
(***************************************************************************)
(* The knowledge base of one tenant: `ai-sdr reindex-kb` (kb/indexer.py)   *)
(* against the files that people edit, against other runs of the command   *)
(* and against the turns that retrieve (kb/retriever.py).                  *)
(*                                                                         *)
(* A run is one READ COMMITTED transaction.  Its writes are kept apart     *)
(* until it commits; a row that it wrote is locked for the other runs, and *)
(* so is the key of a row that it inserted (uq_kb_documents_path).  A text *)
(* is named by the number of chunks that the chunker makes of it, and its  *)
(* digest is its name.  The order of the chunks that a query finds nearest *)
(* is left out.                                                            *)
(***************************************************************************)
EXTENDS Naturals, Sequences, FiniteSets, Functions, FiniteSetsExt

CONSTANTS
  Nil,        \* no row; no file; no limit to one KB
  Bad,        \* a file that is not UTF-8
  Doc,        \* paths of documents, numbers in the order of sorted()
  KbOf,       \* the KB of each path, its first component
  Text,       \* texts a file may have
  Indexed,    \* what earlier runs may have left: functions from Doc to a text or Nil
  Run,        \* invocations of the command
  MaxEdits,   \* bound on the changes of files
  MaxFaults   \* bound on embeddings that fail and processes that are killed

ASSUME KbAssumption ==
  /\ Doc \subseteq Nat /\ IsFiniteSet(Doc) /\ Text \subseteq Nat
  /\ Indexed \subseteq [Doc -> Text \cup {Nil}]
  /\ Nil \notin Nat \cup [id : Nat, text : Nat] /\ Bad \notin Nat /\ Nil # Bad

VARIABLES
  disk,    \* the file of each path: a text, Bad or Nil
  docs,    \* kb_documents: [id, text], or Nil
  chunks,  \* kb_chunks: [doc, text, idx]
  run,     \* the runs
  ids,     \* identifiers given out since the start
  fresh,   \* history: runs since whose listing nothing else has changed
  edits, faults

world == <<disk, edits>>
store == <<docs, chunks>>
vars == <<world, store, run, ids, fresh, faults>>

Kbs == {KbOf[d] : d \in Doc}
InScope(kb, d) == kb = Nil \/ KbOf[d] = kb

\* MarkdownChunker.split: a heading without a body, or no text, has no chunk.
Split(d, text) == {[doc |-> d, text |-> text, idx |-> i] : i \in 1..text}

ChunkRow == [doc : Doc, text : Text, idx : Nat]
Row == [id : Nat, text : Text]

-----------------------------------------------------------------------------
Edit(d) ==
  /\ edits < MaxEdits /\ edits' = edits + 1
  /\ \E file \in (Text \cup {Bad, Nil}) \ {disk[d]} : disk' = [disk EXCEPT ![d] = file]
  /\ fresh' = {}
  /\ UNCHANGED <<store, run, ids, faults>>

-----------------------------------------------------------------------------
(* One run *)

Files(kb) == {d \in Doc : disk[d] # Nil /\ InScope(kb, d)}

\* Mutant: the files come as the directory has them.
ListAsFound(kb) ==
  {s \in [1..Cardinality(Files(kb)) -> Files(kb)] : IsInjective(s)}

\* _list_md_files: sorted.
ListMdFiles(kb) ==
  {s \in [1..Cardinality(Files(kb)) -> Files(kb)] : \A i, j \in DOMAIN s : i < j => s[i] < s[j]}

NoWrites == [d \in {} |-> Nil]

RunRecord(pc, kb, prune, files) ==
  [pc |-> pc, kb |-> kb, prune |-> prune, files |-> files, listed |-> Range(files),
   content |-> Nil, seen |-> Nil, wrote |-> NoWrites, cut |-> {}, put |-> {}, victims |-> {}]

Started(kb, prune, files) == RunRecord("read", kb, prune, files)

\* Not started, or over.
AtRest(how) == RunRecord(how, Nil, FALSE, <<>>)

Set(r, new) == run' = [run EXCEPT ![r] = new]

\* reindex_tenant_kb begins: it lists the files once.
Start(r) ==
  /\ run[r].pc = "idle"
  /\ \E kb \in Kbs \cup {Nil}, prune \in BOOLEAN : \E files \in ListMdFiles(kb) :
       Set(r, Started(kb, prune, files))
  /\ fresh' = fresh \cup {r}
  /\ UNCHANGED <<world, store, ids, faults>>

At(r, pc) == run[r].pc = pc /\ run[r].files # <<>>
Path(r) == Head(run[r].files)
NextFile(r) == [run[r] EXCEPT !.pc = "read", !.files = Tail(@)]

\* read_text; a file that cannot be decoded is reported and passed over.
Read(r) ==
  /\ At(r, "read") /\ disk[Path(r)] # Nil
  /\ Set(r, IF disk[Path(r)] = Bad THEN NextFile(r)
            ELSE [run[r] EXCEPT !.pc = "select", !.content = disk[Path(r)]])
  /\ UNCHANGED <<world, store, ids, fresh, faults>>

\* Mutant: a document is indexed once.
UnchangedIfKnown(row, content) == row # Nil

Unchanged(row, content) == row # Nil /\ row.text = content

\* existing, and the comparison of the digests
Select(r) ==
  /\ At(r, "select")
  /\ Set(r, IF Unchanged(docs[Path(r)], run[r].content) THEN NextFile(r)
            ELSE [run[r] EXCEPT !.pc = "index1", !.seen = docs[Path(r)]])
  /\ UNCHANGED <<world, store, ids, fresh, faults>>

\* No other run holds the row, or its key.
Free(r, d) == \A s \in Run \ {r} : d \notin DOMAIN run[s].wrote

\* What a run saw of a document is what is committed: else its INSERT meets the
\* row of another (IntegrityError), or its UPDATE meets none (StaleDataError).
Confirmed(r) == LET row == docs[Path(r)] IN
  IF run[r].seen = Nil THEN row = Nil ELSE row # Nil /\ row.id = run[r].seen.id

Lock(r, d, row) == [x \in DOMAIN run[r].wrote \cup {d} |-> IF x = d THEN row ELSE run[r].wrote[x]]

\* Mutant: the old chunks go before the row is locked.
ChunksFirst == <<"chunks", "row">>

\* The changed row is flushed, by autoflush, ahead of the DELETE of its chunks.
Order == <<"row", "chunks">>

Doing(r, what) == \E i \in 1..2 : At(r, <<"index1", "index2">>[i]) /\ Order[i] = what
Then(r, new) == Set(r, IF run[r].pc = "index1" THEN [new EXCEPT !.pc = "index2"]
                       ELSE [new EXCEPT !.pc = "read", !.files = Tail(@)])

\* session.add and flush, or the UPDATE.
WriteRow(r) ==
  /\ Doing(r, "row") /\ Free(r, Path(r)) /\ Confirmed(r)
  /\ LET id == IF run[r].seen = Nil THEN ids + 1 ELSE run[r].seen.id IN
       Then(r, [run[r] EXCEPT !.wrote = Lock(r, Path(r), [id |-> id, text |-> run[r].content])])
  /\ ids' = IF run[r].seen = Nil THEN ids + 1 ELSE ids
  /\ UNCHANGED <<world, store, fresh, faults>>

ChunksOf(d) == {c \in chunks : c.doc = d}

\* The DELETE of what is committed by now, and the new chunks.
WriteChunks(r) ==
  /\ Doing(r, "chunks")
  /\ Then(r, [run[r] EXCEPT !.cut = @ \cup ChunksOf(Path(r)),
                            !.put = @ \cup Split(Path(r), run[r].content)])
  /\ UNCHANGED <<world, store, ids, fresh, faults>>

\* db_docs, less those that were listed.
StartPrune(r) ==
  /\ run[r].pc = "read" /\ run[r].files = <<>> /\ run[r].prune
  /\ Set(r, [run[r] EXCEPT !.pc = "prune",
                           !.victims = {<<d, docs[d].id>> : d \in {x \in Doc \ run[r].listed :
                                          docs[x] # Nil /\ InScope(run[r].kb, x)}}])
  /\ UNCHANGED <<world, store, ids, fresh, faults>>

\* DELETE by identifier, with the chunks (ON DELETE CASCADE); in no known order.
Prune(r) ==
  /\ run[r].pc = "prune"
  /\ \E v \in run[r].victims : LET d == v[1] IN
       /\ Free(r, d)
       /\ LET rest == [run[r] EXCEPT !.victims = @ \ {v}] IN
            Set(r, IF docs[d] = Nil \/ docs[d].id # v[2] THEN rest
                   ELSE [rest EXCEPT !.wrote = Lock(r, d, Nil), !.cut = @ \cup ChunksOf(d)])
  /\ UNCHANGED <<world, store, ids, fresh, faults>>

Finished(r) ==
  \/ run[r].pc = "read" /\ run[r].files = <<>> /\ ~run[r].prune
  \/ run[r].pc = "prune" /\ run[r].victims = {}

\* session.begin() commits.
Commit(r) ==
  /\ Finished(r)
  /\ docs' = [d \in Doc |-> IF d \in DOMAIN run[r].wrote THEN run[r].wrote[d] ELSE docs[d]]
  /\ chunks' = (chunks \ run[r].cut) \cup run[r].put
  /\ Set(r, AtRest("done")) /\ fresh' = {}
  /\ UNCHANGED <<world, ids, faults>>

-----------------------------------------------------------------------------
(* What ends a run without a commit: everything it wrote is rolled back *)

RollBack(r) == Set(r, AtRest("failed")) /\ UNCHANGED <<world, store, ids, fresh>>

\* A file has gone since the listing (FileNotFoundError), or another run has
\* inserted or deleted the row.
Raises(r) ==
  /\ \/ At(r, "read") /\ disk[Path(r)] = Nil
     \/ Doing(r, "row") /\ Free(r, Path(r)) /\ ~Confirmed(r)
  /\ RollBack(r) /\ UNCHANGED faults

\* embed_documents fails; the process is killed.
Dies(r) ==
  /\ run[r].pc \in {"index1", "index2", "prune"} /\ faults < MaxFaults /\ faults' = faults + 1
  /\ RollBack(r)

\* The paths whose locks a run needs for its next statement.
Wanted(r) ==
  IF Doing(r, "row") THEN {Path(r)}
  ELSE IF run[r].pc = "prune" THEN {v[1] : v \in run[r].victims} ELSE {}

\* Postgres lets a statement at hand wait; a DELETE of the prune is any of those left.
WaitsFor(r, s) == r # s /\ Wanted(r) \cap DOMAIN run[s].wrote # {}

\* It aborts one of two transactions that wait for each other.
DeadlockDetected(r) ==
  /\ \E s \in Run : WaitsFor(r, s) /\ WaitsFor(s, r)
  /\ RollBack(r) /\ UNCHANGED faults

-----------------------------------------------------------------------------
Init ==
  /\ disk \in [Doc -> Text \cup {Nil}]
  /\ \E text \in Indexed :
       /\ docs = [d \in Doc |-> IF text[d] = Nil THEN Nil ELSE [id |-> 0, text |-> text[d]]]
       /\ chunks = UNION {Split(d, text[d]) : d \in {x \in Doc : text[x] # Nil}}
  /\ run = [r \in Run |-> AtRest("idle")] /\ ids = 0
  /\ fresh = {} /\ edits = 0 /\ faults = 0

Step(r) ==
  \/ Start(r) \/ Read(r) \/ Select(r) \/ WriteRow(r) \/ WriteChunks(r)
  \/ StartPrune(r) \/ Prune(r) \/ Commit(r)
  \/ Raises(r) \/ Dies(r) \/ DeadlockDetected(r)

Rest == (\A r \in Run : run[r].pc \in {"done", "failed"}) /\ UNCHANGED vars

Next == (\E d \in Doc : Edit(d)) \/ (\E r \in Run : Step(r)) \/ Rest

Spec == Init /\ [][Next]_vars

-----------------------------------------------------------------------------
(* Properties *)

LocksExclude == \A r, s \in Run : r # s => DOMAIN run[r].wrote \cap DOMAIN run[s].wrote = {}

TypeOK ==
  /\ disk \in [Doc -> Text \cup {Bad, Nil}]
  /\ docs \in [Doc -> Row \cup {Nil}] /\ chunks \subseteq ChunkRow
  /\ \A r \in Run :
       /\ run[r].pc \in {"idle", "read", "select", "index1", "index2", "prune", "done", "failed"}
       /\ run[r].seen \in Row \cup {Nil} /\ run[r].content \in Text \cup {Nil}
       /\ DOMAIN run[r].wrote \subseteq Doc
       /\ run[r].put \subseteq ChunkRow
  /\ LocksExclude

\* retrieve: one SELECT of the chunks of the KBs that a node names.
Retrievable(kbs) == {c \in chunks : KbOf[c.doc] \in kbs}

\* Whatever runs overlap, fail or prune, a turn finds all the chunks of the text
\* that each document of its KBs has, and no chunk of another version or of a
\* document that is gone.
ReadsAreWhole ==
  \A kbs \in SUBSET Kbs :
    Retrievable(kbs) = UNION {Split(d, docs[d].text) :
                                d \in {x \in Doc : docs[x] # Nil /\ KbOf[x] \in kbs}}

\* Runs that do not prune never wait for each other: all of them write in the
\* order of sorted(), whatever KB they are limited to.
SortedRunsPass ==
  \A r, s \in Run : WaitsFor(r, s) /\ WaitsFor(s, r) => run[r].prune \/ run[s].prune

Completes(r) == run[r].pc # "done" /\ run'[r].pc = "done"

Settled(d, kb, prune) ==
  CASE ~InScope(kb, d) \/ disk[d] = Bad    -> docs'[d] = docs[d]
    [] InScope(kb, d) /\ disk[d] = Nil     -> docs'[d] = IF prune THEN Nil ELSE docs[d]
    [] InScope(kb, d) /\ disk[d] \in Text  -> docs'[d] # Nil /\ docs'[d].text = disk[d]

\* "Idempotent": a run that nothing changes under leaves in its scope exactly
\* what is on the disk, whatever state earlier runs, overlapped or rolled back,
\* have left, and nothing else touched.
FreshRunSettles ==
  [][\A r \in fresh : Completes(r) => \A d \in Doc : Settled(d, run[r].kb, run[r].prune)]_vars
=============================================================================
