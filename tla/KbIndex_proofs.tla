--------------------------- MODULE KbIndex_proofs ---------------------------
(***************************************************************************)
(* Theorems about KbIndex, for every set of documents, texts and runs:     *)
(* type correctness with the exclusion of the locks, ReadsAreWhole and     *)
(* SortedRunsPass from KbInv, and FreshRunSettles from KbInv and FreshInv, *)
(* which says how far along a run is that nothing has changed under.       *)
(***************************************************************************)
EXTENDS KbIndex, FiniteSetTheorems, SequenceTheorems, TLAPS

-----------------------------------------------------------------------------
(* The inductive invariant *)

Pcs == {"idle", "read", "select", "index1", "index2", "prune", "done", "failed"}

Writes == UNION {[D -> Row \cup {Nil}] : D \in SUBSET Doc}

RunType ==
  [pc : Pcs, kb : Kbs \cup {Nil}, prune : BOOLEAN, files : Seq(Doc), listed : SUBSET Doc,
   content : Text \cup {Nil}, seen : Row \cup {Nil}, wrote : Writes,
   cut : SUBSET ChunkRow, put : SUBSET ChunkRow, victims : SUBSET (Doc \X Nat)]

Types ==
  /\ disk \in [Doc -> Text \cup {Bad, Nil}]
  /\ docs \in [Doc -> Row \cup {Nil}] /\ chunks \in SUBSET ChunkRow
  /\ run \in [Run -> RunType] /\ ids \in Nat

\* The chunk is one that the row has.
Of(c, row) == row # Nil /\ c.text = row.text /\ c.idx \in 1..row.text

\* The committed chunks are those of the committed rows.
Match == \A c \in ChunkRow : c \in chunks <=> Of(c, docs[c.doc])

\* The run has written the row of a document, and not yet its chunks.
Half(r, d) == run[r].pc = "index2" /\ d = Head(run[r].files)

\* What a run will do to the chunks of a document is nothing before it has the
\* row, and then all that the row that it wrote asks for.
WholeWrites(r) ==
  \A c \in ChunkRow :
    /\ c.doc \notin DOMAIN run[r].wrote \/ Half(r, c.doc) => c \notin run[r].cut /\ c \notin run[r].put
    /\ c.doc \in DOMAIN run[r].wrote /\ ~Half(r, c.doc) =>
         /\ c \in run[r].put <=> Of(c, run[r].wrote[c.doc])
         /\ c \in chunks => c \in run[r].cut

\* What a run has yet to read is listed, in order, and not written yet.
Ahead(r) ==
  /\ \A i, j \in DOMAIN run[r].files : i < j => run[r].files[i] < run[r].files[j]
  /\ \A i \in DOMAIN run[r].files :
       /\ run[r].files[i] \in run[r].listed
       /\ run[r].files[i] \in DOMAIN run[r].wrote => i = 1 /\ run[r].pc = "index2"

\* What a run has written comes before what it has yet to read.
Passed(r) ==
  \A i \in DOMAIN run[r].files : \A d \in DOMAIN run[r].wrote :
    d < run[r].files[i] \/ (i = 1 /\ d = run[r].files[1] /\ run[r].pc = "index2")

\* Where a run is, and what it holds there.
Place(r) ==
  /\ run[r].pc \in {"select", "index1", "index2"} => run[r].files # <<>> /\ run[r].content \in Text
  /\ run[r].pc = "index2" =>
       /\ Head(run[r].files) \in DOMAIN run[r].wrote
       /\ run[r].wrote[Head(run[r].files)] # Nil
       /\ run[r].wrote[Head(run[r].files)].text = run[r].content
  /\ run[r].pc = "prune" =>
       /\ run[r].prune /\ run[r].files = <<>>
       /\ \A v \in run[r].victims : v[1] \notin DOMAIN run[r].wrote
       /\ \A v, w \in run[r].victims : v[1] = w[1] => v = w
  /\ run[r].pc # "prune" => DOMAIN run[r].wrote \subseteq run[r].listed

RunInv(r) == WholeWrites(r) /\ Ahead(r) /\ Passed(r) /\ Place(r)

KbInv == Types /\ Match /\ LocksExclude /\ \A r \in Run : RunInv(r)

-----------------------------------------------------------------------------
(* Operators *)

\* The row is written first, and its chunks after it (kb/indexer.py:137-157).
LEMMA RowThenChunks ==
  ASSUME NEW r
  PROVE  /\ Doing(r, "row") <=> At(r, "index1")
         /\ Doing(r, "chunks") <=> At(r, "index2")
  BY DEF Doing, Order, At

\* The chunks of a text are rows of kb_chunks, and those of that document and text.
LEMMA SplitRows ==
  ASSUME NEW d \in Doc, NEW text \in Text
  PROVE  /\ Split(d, text) \subseteq ChunkRow
         /\ \A c \in ChunkRow : c \in Split(d, text) <=> c.doc = d /\ c.text = text /\ c.idx \in 1..text
  <1>1. text \in Nat
    BY KbAssumption
  <1>2. Split(d, text) \subseteq ChunkRow
    BY <1>1 DEF Split, ChunkRow
  <1>3. ASSUME NEW c \in ChunkRow, c.doc = d, c.text = text, c.idx \in 1..text
        PROVE  c \in Split(d, text)
    <2>1. c = [doc |-> d, text |-> text, idx |-> c.idx]
      BY <1>3 DEF ChunkRow
    <2> QED  BY <1>3, <2>1 DEF Split
  <1>4. ASSUME NEW c \in ChunkRow, c \in Split(d, text)
        PROVE  c.doc = d /\ c.text = text /\ c.idx \in 1..text
    BY <1>4 DEF Split
  <1> QED  BY <1>2, <1>3, <1>4

\* Locking a row adds it to the writes of a run and changes no other.
LEMMA LockWrites ==
  ASSUME NEW r, NEW d \in Doc, NEW row \in Row \cup {Nil}, run[r].wrote \in Writes
  PROVE  /\ Lock(r, d, row) \in Writes
         /\ DOMAIN Lock(r, d, row) = DOMAIN run[r].wrote \cup {d}
         /\ Lock(r, d, row)[d] = row
         /\ \A x \in DOMAIN run[r].wrote : x # d => Lock(r, d, row)[x] = run[r].wrote[x]
  <1>1. PICK D \in SUBSET Doc : run[r].wrote \in [D -> Row \cup {Nil}]
    BY DEF Writes
  <1>2. Lock(r, d, row) \in [D \cup {d} -> Row \cup {Nil}]
    BY <1>1 DEF Lock
  <1>3. D \cup {d} \in SUBSET Doc
    OBVIOUS
  <1>4. Lock(r, d, row) \in Writes
    BY <1>2, <1>3 DEF Writes
  <1> QED  BY <1>1, <1>4 DEF Lock

LEMMA WritesDomain ==
  ASSUME NEW w \in Writes
  PROVE  DOMAIN w \subseteq Doc /\ \A d \in DOMAIN w : w[d] \in Row \cup {Nil}
  BY DEF Writes

LEMMA NoWritesType == NoWrites \in Writes /\ DOMAIN NoWrites = {}
  <1>1. NoWrites \in [{} -> Row \cup {Nil}] /\ DOMAIN NoWrites = {}
    BY DEF NoWrites
  <1>2. {} \in SUBSET Doc
    OBVIOUS
  <1> QED  BY <1>1, <1>2 DEF Writes

\* A listing is a sequence of documents in order.
LEMMA ListingType ==
  ASSUME NEW kb, NEW files \in ListMdFiles(kb)
  PROVE  /\ files \in Seq(Doc) /\ Range(files) \subseteq Doc
         /\ \A i, j \in DOMAIN files : i < j => files[i] < files[j]
         /\ \A i \in DOMAIN files : files[i] \in Range(files)
  <1>1. Files(kb) \subseteq Doc
    BY DEF Files
  <1>2. IsFiniteSet(Files(kb))
    BY <1>1, KbAssumption, FS_Subset
  <1>3. Cardinality(Files(kb)) \in Nat
    BY <1>2, FS_CardinalityType
  <1>4. files \in [1..Cardinality(Files(kb)) -> Files(kb)]
    BY DEF ListMdFiles
  <1>5. files \in Seq(Doc)
    BY <1>1, <1>3, <1>4
  <1> QED  BY <1>1, <1>4, <1>5 DEF ListMdFiles, Range

\* What is left of a listing after its first file.
LEMMA TailAhead ==
  ASSUME NEW s \in Seq(Doc), s # <<>>
  PROVE  /\ Tail(s) \in Seq(Doc) /\ Head(s) \in Doc /\ Head(s) = s[1] /\ 1 \in DOMAIN s
         /\ \A i \in DOMAIN Tail(s) : i + 1 \in DOMAIN s /\ Tail(s)[i] = s[i + 1] /\ i \in Nat /\ i >= 1
  OBVIOUS

\* A run that holds nothing and has nothing ahead.
LEMMA AtRestType ==
  ASSUME NEW how \in {"idle", "done", "failed"}
  PROVE  /\ AtRest(how) \in RunType
         /\ AtRest(how).pc = how /\ AtRest(how).files = <<>> /\ DOMAIN AtRest(how).wrote = {}
         /\ AtRest(how).cut = {} /\ AtRest(how).put = {}
  <1>1. AtRest(how) =
          [pc |-> how, kb |-> Nil, prune |-> FALSE, files |-> <<>>, listed |-> Range(<<>>),
           content |-> Nil, seen |-> Nil, wrote |-> NoWrites, cut |-> {}, put |-> {}, victims |-> {}]
    BY DEF AtRest, RunRecord
  <1>2. Range(<<>>) = {}
    BY DEF Range
  <1> QED  BY <1>1, <1>2, NoWritesType DEF RunType, Pcs

-----------------------------------------------------------------------------
(* Steps *)

\* A step of one run that commits nothing keeps the invariant if it does for
\* that run.
LEMMA Local ==
  ASSUME KbInv, NEW r \in Run, NEW new \in RunType, run' = [run EXCEPT ![r] = new],
         UNCHANGED store, disk' \in [Doc -> Text \cup {Bad, Nil}], ids' \in Nat,
         RunInv(r)',
         \A s \in Run \ {r} : DOMAIN new.wrote \cap DOMAIN run[s].wrote = {}
  PROVE  KbInv'
  <1>1. Types'
    BY DEF KbInv, Types, store
  <1>2. run'[r] = new /\ \A s \in Run \ {r} : run'[s] = run[s]
    BY DEF KbInv, Types
  <1>3. Match'
    BY DEF KbInv, Match, Of, store
  <1>4. LocksExclude'
    BY <1>2 DEF KbInv, LocksExclude
  <1>5. ASSUME NEW s \in Run, s # r PROVE RunInv(s)'
    <2>1. run'[s] = run[s] /\ chunks' = chunks /\ RunInv(s)
      BY <1>2, <1>5 DEF KbInv, store
    <2>2. WholeWrites(s)'
      BY <2>1 DEF RunInv, WholeWrites, Half, Of
    <2>3. Ahead(s)'
      BY <2>1 DEF RunInv, Ahead
    <2>4. Passed(s)'
      BY <2>1 DEF RunInv, Passed
    <2>5. Place(s)'
      BY <2>1 DEF RunInv, Place
    <2> QED  BY <2>2, <2>3, <2>4, <2>5 DEF RunInv
  <1> QED  BY <1>1, <1>3, <1>4, <1>5 DEF KbInv

\* What the invariant says of one run.
LEMMA RunFacts ==
  ASSUME KbInv, NEW r \in Run
  PROVE  /\ run[r] \in RunType /\ RunInv(r)
         /\ DOMAIN run[r].wrote \subseteq Doc
         /\ \A s \in Run \ {r} : DOMAIN run[r].wrote \cap DOMAIN run[s].wrote = {}
  <1>1. run[r] \in RunType /\ RunInv(r)
    BY DEF KbInv, Types
  <1>2. run[r].wrote \in Writes
    BY <1>1 DEF RunType
  <1> QED  BY <1>1, <1>2, WritesDomain DEF KbInv, LocksExclude

\* Going on to the next file, with what has been written so far whole.
LEMMA ToNextFile ==
  ASSUME KbInv, NEW r \in Run, run[r].pc \in {"read", "select"}, run[r].files # <<>>,
         run' = [run EXCEPT ![r] = NextFile(r)], UNCHANGED <<store, disk, ids>>
  PROVE  KbInv'
  <1>1. run[r] \in RunType /\ RunInv(r)
    BY RunFacts
  <1>2. /\ Tail(run[r].files) \in Seq(Doc)
        /\ \A i \in DOMAIN Tail(run[r].files) :
              i + 1 \in DOMAIN run[r].files /\ Tail(run[r].files)[i] = run[r].files[i + 1] /\ i \in Nat /\ i >= 1
    BY <1>1, TailAhead DEF RunType
  <1>3. NextFile(r) \in RunType
    BY <1>1, <1>2 DEF NextFile, RunType, Pcs
  <1>4. /\ run'[r].pc = "read" /\ run'[r].files = Tail(run[r].files)
        /\ run'[r].wrote = run[r].wrote /\ run'[r].listed = run[r].listed
        /\ run'[r].cut = run[r].cut /\ run'[r].put = run[r].put
    BY <1>1 DEF NextFile, RunType, KbInv, Types
  <1>5. WholeWrites(r)'
    BY <1>1, <1>4 DEF RunInv, WholeWrites, Half, Of, store
  <1>6. Ahead(r)'
    <2>1. Ahead(r)
      BY <1>1 DEF RunInv
    <2>2. ASSUME NEW i \in DOMAIN Tail(run[r].files), NEW j \in DOMAIN Tail(run[r].files), i < j
          PROVE  Tail(run[r].files)[i] < Tail(run[r].files)[j]
      BY <1>2, <2>1, <2>2 DEF Ahead
    <2>3. ASSUME NEW i \in DOMAIN Tail(run[r].files)
          PROVE  /\ Tail(run[r].files)[i] \in run[r].listed
                 /\ Tail(run[r].files)[i] \notin DOMAIN run[r].wrote
      <3>1. i + 1 \in DOMAIN run[r].files /\ Tail(run[r].files)[i] = run[r].files[i + 1] /\ i + 1 # 1
        BY <1>2
      <3> QED  BY <2>1, <3>1 DEF Ahead
    <2> QED  BY <1>4, <2>2, <2>3 DEF Ahead
  <1>0. Passed(r)'
    <2>1. Passed(r) /\ run[r].pc # "index2"
      BY <1>1 DEF RunInv
    <2>2. ASSUME NEW i \in DOMAIN Tail(run[r].files), NEW d \in DOMAIN run[r].wrote
          PROVE  d < Tail(run[r].files)[i]
      <3>1. i + 1 \in DOMAIN run[r].files /\ Tail(run[r].files)[i] = run[r].files[i + 1]
        BY <1>2
      <3>2. d < run[r].files[i + 1]
        BY <2>1, <3>1 DEF Passed
      <3> QED  BY <3>1, <3>2
    <2> QED  BY <1>4, <2>2 DEF Passed
  <1>7. Place(r)'
    BY <1>1, <1>4 DEF RunInv, Place
  <1>8. DOMAIN NextFile(r).wrote = DOMAIN run[r].wrote
    BY <1>1 DEF NextFile, RunType
  <1>9. RunInv(r)'
    BY <1>5, <1>6, <1>7, <1>0 DEF RunInv
  <1>10. disk' \in [Doc -> Text \cup {Bad, Nil}] /\ ids' \in Nat
    BY DEF KbInv, Types
  <1> QED  BY <1>3, <1>8, <1>9, <1>10, RunFacts, Local

LEMMA StepEdit ==
  ASSUME KbInv, NEW d \in Doc, Edit(d)
  PROVE  KbInv'
  <1>1. disk' \in [Doc -> Text \cup {Bad, Nil}] /\ UNCHANGED <<docs, chunks, run, ids>>
    BY DEF KbInv, Types, Edit, store
  <1> QED  BY <1>1 DEF KbInv, Types, Match, Of, LocksExclude, RunInv, WholeWrites, Half, Ahead, Passed, Place

\* A run that comes to rest without a commit.
LEMMA Rests ==
  ASSUME KbInv, NEW r \in Run, NEW how \in {"idle", "done", "failed"},
         run' = [run EXCEPT ![r] = AtRest(how)], UNCHANGED <<store, disk, ids>>
  PROVE  KbInv'
  <1>1. run'[r] = AtRest(how)
    BY DEF KbInv, Types
  <1>2. RunInv(r)'
    BY <1>1, AtRestType DEF RunInv, WholeWrites, Half, Ahead, Passed, Place
  <1>3. AtRest(how) \in RunType /\ DOMAIN AtRest(how).wrote = {}
    BY AtRestType
  <1>4. disk' \in [Doc -> Text \cup {Bad, Nil}] /\ ids' \in Nat
    BY DEF KbInv, Types
  <1>5. \A s \in Run \ {r} : DOMAIN AtRest(how).wrote \cap DOMAIN run[s].wrote = {}
    BY <1>3
  <1> QED  BY <1>2, <1>3, <1>4, <1>5, Local

LEMMA StepStart ==
  ASSUME KbInv, NEW r \in Run, Start(r)
  PROVE  KbInv'
  <1>1. PICK kb \in Kbs \cup {Nil}, prune \in BOOLEAN : \E files \in ListMdFiles(kb) :
               run' = [run EXCEPT ![r] = Started(kb, prune, files)]
    BY DEF Start, Set
  <1>2. PICK files \in ListMdFiles(kb) : run' = [run EXCEPT ![r] = Started(kb, prune, files)]
    BY <1>1
  <1> DEFINE new == Started(kb, prune, files)
  <1>3. /\ files \in Seq(Doc) /\ Range(files) \subseteq Doc
        /\ \A i, j \in DOMAIN files : i < j => files[i] < files[j]
        /\ \A i \in DOMAIN files : files[i] \in Range(files)
    BY ListingType
  <1>4. new \in RunType
    BY <1>3, NoWritesType DEF Started, RunRecord, RunType, Pcs
  <1>5. run'[r] = new
    BY <1>2 DEF KbInv, Types
  <1>6. RunInv(r)'
    BY <1>3, <1>5, NoWritesType DEF Started, RunRecord, RunInv, WholeWrites, Half, Ahead, Passed, Place
  <1>7. DOMAIN new.wrote = {}
    BY NoWritesType DEF Started, RunRecord
  <1>8. UNCHANGED <<store, disk, ids>>
    BY DEF Start, world
  <1> QED  BY <1>2, <1>4, <1>6, <1>7, <1>8, Local DEF KbInv, Types

LEMMA StepRead ==
  ASSUME KbInv, NEW r \in Run, Read(r)
  PROVE  KbInv'
  <1>1. run[r].pc = "read" /\ run[r].files # <<>> /\ UNCHANGED <<store, disk, ids>>
    BY DEF Read, At, world
  <1>2. CASE disk[Path(r)] = Bad
    BY <1>1, <1>2, ToNextFile DEF Read, Set
  <1>3. CASE disk[Path(r)] # Bad
    <2> DEFINE new == [run[r] EXCEPT !.pc = "select", !.content = disk[Path(r)]]
    <2>1. run' = [run EXCEPT ![r] = new]
      BY <1>3 DEF Read, Set
    <2>2. run[r] \in RunType /\ RunInv(r)
      BY RunFacts
    <2>3. Path(r) \in Doc
      BY <1>1, <2>2, TailAhead DEF Path, RunType
    <2>4. disk[Path(r)] \in Text
      BY <1>3, <2>3 DEF KbInv, Types, Read
    <2>5. new \in RunType
      BY <2>2, <2>4 DEF RunType, Pcs
    <2>6. /\ run'[r].pc = "select" /\ run'[r].files = run[r].files /\ run'[r].content = disk[Path(r)]
          /\ run'[r].wrote = run[r].wrote /\ run'[r].listed = run[r].listed
          /\ run'[r].cut = run[r].cut /\ run'[r].put = run[r].put
      BY <2>1, <2>2 DEF RunType, KbInv, Types
    <2>7. WholeWrites(r)'
      BY <1>1, <2>2, <2>6 DEF RunInv, WholeWrites, Half, Of, store
    <2>8. Ahead(r)' /\ Passed(r)'
      BY <1>1, <2>2, <2>6 DEF RunInv, Ahead, Passed
    <2>9. Place(r)'
      BY <1>1, <2>2, <2>4, <2>6 DEF RunInv, Place
    <2>10. RunInv(r)'
      BY <2>7, <2>8, <2>9 DEF RunInv
    <2>11. DOMAIN new.wrote = DOMAIN run[r].wrote
      BY <2>2 DEF RunType
    <2>12. disk' \in [Doc -> Text \cup {Bad, Nil}] /\ ids' \in Nat
      BY <1>1 DEF KbInv, Types
    <2> QED  BY <1>1, <2>1, <2>5, <2>10, <2>11, <2>12, RunFacts, Local
  <1> QED  BY <1>2, <1>3

LEMMA StepSelect ==
  ASSUME KbInv, NEW r \in Run, Select(r)
  PROVE  KbInv'
  <1>1. run[r].pc = "select" /\ run[r].files # <<>> /\ UNCHANGED <<store, disk, ids>>
    BY DEF Select, At, world
  <1>2. CASE Unchanged(docs[Path(r)], run[r].content)
    BY <1>1, <1>2, ToNextFile DEF Select, Set
  <1>3. CASE ~Unchanged(docs[Path(r)], run[r].content)
    <2> DEFINE new == [run[r] EXCEPT !.pc = "index1", !.seen = docs[Path(r)]]
    <2>1. run' = [run EXCEPT ![r] = new]
      BY <1>3 DEF Select, Set
    <2>2. run[r] \in RunType /\ RunInv(r)
      BY RunFacts
    <2>3. docs[Path(r)] \in Row \cup {Nil}
      BY <1>1, <2>2, TailAhead DEF Path, RunType, KbInv, Types
    <2>5. new \in RunType
      BY <2>2, <2>3 DEF RunType, Pcs
    <2>6. /\ run'[r].pc = "index1" /\ run'[r].files = run[r].files /\ run'[r].content = run[r].content
          /\ run'[r].wrote = run[r].wrote /\ run'[r].listed = run[r].listed
          /\ run'[r].cut = run[r].cut /\ run'[r].put = run[r].put
      BY <2>1, <2>2 DEF RunType, KbInv, Types
    <2>7. WholeWrites(r)'
      BY <1>1, <2>2, <2>6 DEF RunInv, WholeWrites, Half, Of, store
    <2>8. Ahead(r)' /\ Passed(r)'
      BY <1>1, <2>2, <2>6 DEF RunInv, Ahead, Passed
    <2>9. Place(r)'
      BY <1>1, <2>2, <2>6 DEF RunInv, Place
    <2>10. RunInv(r)'
      BY <2>7, <2>8, <2>9 DEF RunInv
    <2>11. DOMAIN new.wrote = DOMAIN run[r].wrote
      BY <2>2 DEF RunType
    <2>12. disk' \in [Doc -> Text \cup {Bad, Nil}] /\ ids' \in Nat
      BY <1>1 DEF KbInv, Types
    <2> QED  BY <1>1, <2>1, <2>5, <2>10, <2>11, <2>12, RunFacts, Local
  <1> QED  BY <1>2, <1>3

\* The row is locked, and nothing of the document is written yet but the row.
LEMMA RowWritten ==
  ASSUME KbInv, NEW r \in Run, At(r, "index1"), UNCHANGED <<store, disk>>, ids' \in Nat,
         NEW d \in Doc, d = Path(r), Free(r, d), NEW row \in Row, row.text = run[r].content,
         run' = [run EXCEPT ![r] = [[run[r] EXCEPT !.wrote = Lock(r, d, row)] EXCEPT !.pc = "index2"]]
  PROVE  KbInv'
  <1> DEFINE new == [[run[r] EXCEPT !.wrote = Lock(r, d, row)] EXCEPT !.pc = "index2"]
  <1>1. run[r].pc = "index1" /\ run[r].files # <<>>
    BY DEF At
  <1>2. run[r] \in RunType /\ RunInv(r)
    BY RunFacts
  <1>3. d = run[r].files[1] /\ 1 \in DOMAIN run[r].files /\ d = Head(run[r].files)
    BY <1>1, <1>2, TailAhead DEF Path, RunType
  <1>4. /\ Lock(r, d, row) \in Writes
        /\ DOMAIN Lock(r, d, row) = DOMAIN run[r].wrote \cup {d}
        /\ Lock(r, d, row)[d] = row
        /\ \A x \in DOMAIN run[r].wrote : x # d => Lock(r, d, row)[x] = run[r].wrote[x]
    <2>1. run[r].wrote \in Writes /\ row \in Row \cup {Nil}
      BY <1>2 DEF RunType
    <2> QED  BY <2>1, LockWrites, Zenon
  <1>5. new \in RunType
    BY <1>2, <1>4 DEF RunType, Pcs
  <1>6. /\ run'[r].pc = "index2" /\ run'[r].files = run[r].files /\ run'[r].content = run[r].content
        /\ run'[r].wrote = Lock(r, d, row) /\ run'[r].listed = run[r].listed
        /\ run'[r].cut = run[r].cut /\ run'[r].put = run[r].put
    BY <1>2 DEF RunType, KbInv, Types
  <1>7. d \notin DOMAIN run[r].wrote /\ d \in run[r].listed
    BY <1>1, <1>2, <1>3 DEF RunInv, Ahead
  <1>8. WholeWrites(r)'
    <2> SUFFICES ASSUME NEW c \in ChunkRow
        PROVE /\ c.doc \notin DOMAIN run'[r].wrote \/ c.doc = d => c \notin run[r].cut /\ c \notin run[r].put
              /\ c.doc \in DOMAIN run'[r].wrote /\ c.doc # d =>
                   /\ c \in run[r].put <=> Of(c, run'[r].wrote[c.doc])
                   /\ c \in chunks => c \in run[r].cut
      BY <1>1, <1>3, <1>6 DEF WholeWrites, Half, store, Of
    <2>1. WholeWrites(r) /\ run[r].pc # "index2"
      BY <1>1, <1>2 DEF RunInv
    <2> QED  BY <1>4, <1>6, <1>7, <2>1 DEF WholeWrites, Half, Of
  <1>9. Ahead(r)'
    <2>1. Ahead(r) /\ run[r].pc # "index2"
      BY <1>1, <1>2 DEF RunInv
    <2>2. \A i \in DOMAIN run[r].files : run[r].files[i] = d => i = 1
      <3>1. \A i \in DOMAIN run[r].files : i \in Nat /\ i >= 1 /\ run[r].files[i] \in Doc
        BY <1>2 DEF RunType
      <3>2. \A i \in DOMAIN run[r].files : i > 1 => run[r].files[1] < run[r].files[i]
        BY <1>3, <2>1, <3>1 DEF Ahead
      <3>3. run[r].files[1] \in Nat
        BY <1>3, <3>1, KbAssumption
      <3> QED  BY <1>3, <3>1, <3>2, <3>3
    <2> QED  BY <1>4, <1>6, <2>1, <2>2 DEF Ahead
  <1>0. Passed(r)'
    <2>1. Ahead(r) /\ Passed(r) /\ run[r].pc # "index2"
      BY <1>1, <1>2 DEF RunInv
    <2>2. \A i \in DOMAIN run[r].files : i # 1 => d < run[r].files[i]
      <3>1. \A i \in DOMAIN run[r].files : i \in Nat /\ i >= 1
        BY <1>2 DEF RunType
      <3> QED  BY <1>3, <2>1, <3>1 DEF Ahead
    <2> QED  BY <1>3, <1>4, <1>6, <2>1, <2>2 DEF Passed
  <1>10. Place(r)'
    <2>1. row # Nil
      BY KbAssumption DEF Row
    <2>2. run[r].content \in Text /\ DOMAIN run[r].wrote \subseteq run[r].listed
      BY <1>1, <1>2 DEF RunInv, Place
    <2> QED  BY <1>1, <1>3, <1>4, <1>6, <1>7, <2>1, <2>2 DEF Place
  <1>11. RunInv(r)'
    BY <1>8, <1>9, <1>10, <1>0 DEF RunInv
  <1>12. \A s \in Run \ {r} : DOMAIN new.wrote \cap DOMAIN run[s].wrote = {}
    <2>1. DOMAIN new.wrote = DOMAIN run[r].wrote \cup {d}
      BY <1>2, <1>4 DEF RunType
    <2> QED  BY <2>1, RunFacts DEF Free
  <1>13. disk' \in [Doc -> Text \cup {Bad, Nil}]
    BY DEF KbInv, Types
  <1> QED  BY <1>5, <1>11, <1>12, <1>13, Local

LEMMA StepWriteRow ==
  ASSUME KbInv, NEW r \in Run, WriteRow(r)
  PROVE  KbInv'
  <1> DEFINE id == IF run[r].seen = Nil THEN ids + 1 ELSE run[r].seen.id
             row == [id |-> id, text |-> run[r].content]
  <1>1. At(r, "index1") /\ UNCHANGED <<store, disk>> /\ Free(r, Path(r))
    BY RowThenChunks DEF WriteRow, world
  <1>2. run[r] \in RunType /\ RunInv(r)
    BY RunFacts
  <1>3. run' = [run EXCEPT ![r] = [[run[r] EXCEPT !.wrote = Lock(r, Path(r), row)] EXCEPT !.pc = "index2"]]
    BY <1>1 DEF WriteRow, Then, Set, At
  <1>4. Path(r) \in Doc
    BY <1>1, <1>2, TailAhead DEF Path, RunType, At
  <1>5. run[r].content \in Text
    BY <1>1, <1>2 DEF RunInv, Place, At
  <1>6. id \in Nat /\ ids' \in Nat
    BY <1>2 DEF RunType, Row, KbInv, Types, WriteRow
  <1>7. row \in Row /\ row.text = run[r].content
    BY <1>5, <1>6 DEF Row
  <1> HIDE DEF row
  <1> QED  BY <1>1, <1>3, <1>4, <1>6, <1>7, RowWritten

\* The chunks that were committed go, and those of the text that was read come.
LEMMA StepWriteChunks ==
  ASSUME KbInv, NEW r \in Run, WriteChunks(r)
  PROVE  KbInv'
  <1> DEFINE d == Path(r)
             text == run[r].content
             new == [[run[r] EXCEPT !.cut = @ \cup ChunksOf(d), !.put = @ \cup Split(d, text)]
                        EXCEPT !.pc = "read", !.files = Tail(@)]
  <1>1. At(r, "index2") /\ run[r].pc = "index2" /\ UNCHANGED <<store, disk, ids>>
    BY RowThenChunks DEF WriteChunks, world, At
  <1>2. run[r] \in RunType /\ RunInv(r)
    BY RunFacts
  <1>3. run' = [run EXCEPT ![r] = new]
    BY <1>1 DEF WriteChunks, Then, Set
  <1>4. /\ d \in Doc /\ d = run[r].files[1] /\ 1 \in DOMAIN run[r].files /\ d = Head(run[r].files)
        /\ Tail(run[r].files) \in Seq(Doc)
        /\ \A i \in DOMAIN Tail(run[r].files) :
              i + 1 \in DOMAIN run[r].files /\ Tail(run[r].files)[i] = run[r].files[i + 1] /\ i \in Nat /\ i >= 1
    BY <1>1, <1>2, TailAhead DEF Path, RunType, At
  <1>5. /\ text \in Text /\ d \in DOMAIN run[r].wrote /\ run[r].wrote[d] # Nil
        /\ run[r].wrote[d].text = text
    BY <1>1, <1>2, <1>4 DEF RunInv, Place
  <1>6. /\ Split(d, text) \subseteq ChunkRow
        /\ \A c \in ChunkRow : c \in Split(d, text) <=> c.doc = d /\ c.text = text /\ c.idx \in 1..text
    BY <1>4, <1>5, SplitRows
  <1>7. ChunksOf(d) \subseteq ChunkRow
    BY DEF ChunksOf, KbInv, Types
  <1>8. /\ new.pc = "read" /\ new.files = Tail(run[r].files) /\ new.content = text
        /\ new.wrote = run[r].wrote /\ new.listed = run[r].listed
        /\ new.cut = run[r].cut \cup ChunksOf(d) /\ new.put = run[r].put \cup Split(d, text)
        /\ new \in RunType
    <2> HIDE DEF d, text
    <2>1. run[r].cut \cup ChunksOf(d) \in SUBSET ChunkRow /\ run[r].put \cup Split(d, text) \in SUBSET ChunkRow
      BY <1>2, <1>6, <1>7 DEF RunType
    <2>2. /\ new.pc = "read" /\ new.files = Tail(run[r].files)
          /\ new.cut = run[r].cut \cup ChunksOf(d) /\ new.put = run[r].put \cup Split(d, text)
          /\ new.kb = run[r].kb /\ new.prune = run[r].prune /\ new.listed = run[r].listed
          /\ new.content = run[r].content /\ new.seen = run[r].seen
          /\ new.wrote = run[r].wrote /\ new.victims = run[r].victims
      BY <1>2 DEF RunType
    <2>4. text = run[r].content
      BY DEF text
    <2>5. new \in RunType
      <3> DEFINE x == [run[r] EXCEPT !.cut = @ \cup ChunksOf(d), !.put = @ \cup Split(d, text)]
      <3>1. x \in RunType /\ x.files = run[r].files
        BY <1>2, <2>1 DEF RunType
      <3>2. new = [x EXCEPT !.pc = "read", !.files = Tail(@)]
        OBVIOUS
      <3> HIDE DEF x, new
      <3>3. Tail(x.files) \in Seq(Doc)
        BY <1>4, <3>1
      <3>4. ASSUME NEW t \in Seq(Doc) PROVE [x EXCEPT !.pc = "read", !.files = t] \in RunType
        BY <3>1 DEF RunType, Pcs
      <3> QED  BY <3>2, <3>3, <3>4
    <2> QED  BY <2>2, <2>4, <2>5
  <1>9. run'[r] = new
    BY <1>3 DEF KbInv, Types
  <1> HIDE DEF new
  <1>10. WholeWrites(r)'
    <2> SUFFICES ASSUME NEW c \in ChunkRow
        PROVE /\ c.doc \notin DOMAIN new.wrote => c \notin new.cut /\ c \notin new.put
              /\ c.doc \in DOMAIN new.wrote =>
                   /\ c \in new.put <=> Of(c, new.wrote[c.doc])
                   /\ c \in chunks => c \in new.cut
      BY <1>1, <1>8, <1>9 DEF WholeWrites, Half, store, Of
    <2>1. WholeWrites(r) /\ (Half(r, c.doc) <=> c.doc = d)
      BY <1>1, <1>2, <1>4 DEF RunInv, Half
    <2>2. CASE c.doc = d
      <3>1. c \notin run[r].put
        BY <2>1, <2>2 DEF WholeWrites
      <3>2. c \in new.put <=> Of(c, new.wrote[c.doc])
        BY <1>5, <1>6, <1>8, <2>2, <3>1 DEF Of
      <3>3. c \in chunks => c \in ChunksOf(d)
        BY <2>2 DEF ChunksOf
      <3>4. new.cut = run[r].cut \cup ChunksOf(d) /\ c.doc \in DOMAIN new.wrote
        BY <1>5, <1>8, <2>2
      <3> QED  BY <3>2, <3>3, <3>4
    <2>3. CASE c.doc # d
      <3>1. c \notin ChunksOf(d) /\ c \notin Split(d, text)
        BY <1>6, <2>3 DEF ChunksOf
      <3> QED  BY <1>8, <2>1, <2>3, <3>1 DEF WholeWrites
    <2> QED  BY <2>2, <2>3
  <1>11. Ahead(r)'
    <2>1. Ahead(r)
      BY <1>2 DEF RunInv
    <2>2. ASSUME NEW i \in DOMAIN Tail(run[r].files), NEW j \in DOMAIN Tail(run[r].files), i < j
          PROVE  Tail(run[r].files)[i] < Tail(run[r].files)[j]
      BY <1>4, <2>1, <2>2 DEF Ahead
    <2>3. ASSUME NEW i \in DOMAIN Tail(run[r].files)
          PROVE  /\ Tail(run[r].files)[i] \in run[r].listed
                 /\ Tail(run[r].files)[i] \notin DOMAIN run[r].wrote
      <3>1. i + 1 \in DOMAIN run[r].files /\ Tail(run[r].files)[i] = run[r].files[i + 1] /\ i + 1 # 1
        BY <1>4
      <3> QED  BY <2>1, <3>1 DEF Ahead
    <2> QED  BY <1>8, <1>9, <2>2, <2>3 DEF Ahead
  <1>0. Passed(r)'
    <2>1. Passed(r)
      BY <1>2 DEF RunInv
    <2>2. ASSUME NEW i \in DOMAIN Tail(run[r].files), NEW x \in DOMAIN run[r].wrote
          PROVE  x < Tail(run[r].files)[i]
      <3>1. /\ i + 1 \in DOMAIN run[r].files /\ Tail(run[r].files)[i] = run[r].files[i + 1]
            /\ i + 1 # 1
        BY <1>4
      <3> QED  BY <2>1, <3>1 DEF Passed
    <2> QED  BY <1>8, <1>9, <2>2 DEF Passed
  <1>12. Place(r)'
    BY <1>1, <1>2, <1>8, <1>9 DEF RunInv, Place
  <1>13. RunInv(r)'
    BY <1>10, <1>11, <1>12, <1>0 DEF RunInv
  <1>14. disk' \in [Doc -> Text \cup {Bad, Nil}] /\ ids' \in Nat
    BY <1>1 DEF KbInv, Types
  <1> QED  BY <1>1, <1>3, <1>8, <1>13, <1>14, RunFacts, Local

\* Nothing that a run has written is among the rows that it means to delete.
LEMMA StepStartPrune ==
  ASSUME KbInv, NEW r \in Run, StartPrune(r)
  PROVE  KbInv'
  <1> DEFINE gone == {x \in Doc \ run[r].listed : docs[x] # Nil /\ InScope(run[r].kb, x)}
             victims == {<<d, docs[d].id>> : d \in gone}
             new == [run[r] EXCEPT !.pc = "prune", !.victims = victims]
  <1>1. run[r].pc = "read" /\ run[r].files = <<>> /\ UNCHANGED <<store, disk, ids>>
    BY DEF StartPrune, world
  <1>2. run[r] \in RunType /\ RunInv(r)
    BY RunFacts
  <1>3. run' = [run EXCEPT ![r] = new]
    BY DEF StartPrune, Set
  <1>4. \A d \in gone : d \in Doc /\ docs[d].id \in Nat
    BY DEF KbInv, Types, Row
  <1>5. victims \in SUBSET (Doc \X Nat)
    BY <1>4
  <1>6. \A v \in victims : v[1] \notin run[r].listed /\ v = <<v[1], docs[v[1]].id>>
    OBVIOUS
  <1> HIDE DEF victims
  <1>7. new \in RunType
    BY <1>2, <1>5 DEF RunType, Pcs
  <1>8. /\ run'[r].pc = "prune" /\ run'[r].files = <<>> /\ run'[r].victims = victims
        /\ run'[r].wrote = run[r].wrote /\ run'[r].cut = run[r].cut /\ run'[r].put = run[r].put
    BY <1>1, <1>2, <1>3 DEF RunType, KbInv, Types
  <1>9. WholeWrites(r)'
    BY <1>1, <1>2, <1>8 DEF RunInv, WholeWrites, Half, Of, store
  <1>10. Ahead(r)' /\ Passed(r)'
    BY <1>8 DEF Ahead, Passed
  <1>11. Place(r)'
    <2>1. DOMAIN run[r].wrote \subseteq run[r].listed
      BY <1>1, <1>2 DEF RunInv, Place
    <2>2. \A v \in victims : v[1] \notin DOMAIN run[r].wrote
      BY <1>6, <2>1
    <2>3. \A v, w \in victims : v[1] = w[1] => v = w
      BY <1>6
    <2>4. run'[r].prune
      BY <1>2, <1>3 DEF StartPrune, RunType, KbInv, Types
    <2> QED  BY <1>8, <2>2, <2>3, <2>4 DEF Place
  <1>12. RunInv(r)'
    BY <1>9, <1>10, <1>11 DEF RunInv
  <1>13. DOMAIN new.wrote = DOMAIN run[r].wrote
    BY <1>2 DEF RunType
  <1>14. disk' \in [Doc -> Text \cup {Bad, Nil}] /\ ids' \in Nat
    BY <1>1 DEF KbInv, Types
  <1>15. \A s \in Run \ {r} : DOMAIN new.wrote \cap DOMAIN run[s].wrote = {}
    BY <1>13, RunFacts
  <1> HIDE DEF new
  <1> QED  BY <1>1, <1>3, <1>7, <1>12, <1>14, <1>15, Local

\* A victim that is gone, or is another row by now, is passed over.
LEMMA VictimPassed ==
  ASSUME KbInv, NEW r \in Run, run[r].pc = "prune", NEW v \in run[r].victims,
         run' = [run EXCEPT ![r] = [run[r] EXCEPT !.victims = @ \ {v}]],
         UNCHANGED <<store, disk, ids>>
  PROVE  KbInv'
  <1> DEFINE new == [run[r] EXCEPT !.victims = @ \ {v}]
  <1>1. run[r] \in RunType /\ RunInv(r)
    BY RunFacts
  <1>2. new \in RunType /\ DOMAIN new.wrote = DOMAIN run[r].wrote
    BY <1>1 DEF RunType
  <1>3. /\ run'[r].pc = "prune" /\ run'[r].files = run[r].files /\ run'[r].victims = run[r].victims \ {v}
        /\ run'[r].wrote = run[r].wrote /\ run'[r].cut = run[r].cut /\ run'[r].put = run[r].put
        /\ run'[r].listed = run[r].listed /\ run'[r].prune = run[r].prune
    BY <1>1 DEF RunType, KbInv, Types
  <1>4. WholeWrites(r)'
    BY <1>1, <1>3 DEF RunInv, WholeWrites, Half, Of, store
  <1>5. Ahead(r)' /\ Passed(r)'
    BY <1>1, <1>3 DEF RunInv, Ahead, Passed
  <1>6. Place(r)'
    BY <1>1, <1>3 DEF RunInv, Place
  <1>7. RunInv(r)'
    BY <1>4, <1>5, <1>6 DEF RunInv
  <1>8. disk' \in [Doc -> Text \cup {Bad, Nil}] /\ ids' \in Nat
    BY DEF KbInv, Types
  <1>9. \A s \in Run \ {r} : DOMAIN new.wrote \cap DOMAIN run[s].wrote = {}
    BY <1>2, RunFacts
  <1>10. run' = [run EXCEPT ![r] = new]
    OBVIOUS
  <1> HIDE DEF new
  <1> QED  BY <1>2, <1>7, <1>8, <1>9, <1>10, Local

\* A row that is deleted goes with all the chunks that are committed.
LEMMA VictimDeleted ==
  ASSUME KbInv, NEW r \in Run, run[r].pc = "prune", NEW v \in run[r].victims,
         NEW d \in Doc, d = v[1], Free(r, d), UNCHANGED <<store, disk, ids>>,
         run' = [run EXCEPT ![r] = [run[r] EXCEPT !.victims = @ \ {v}, !.wrote = Lock(r, d, Nil),
                                                  !.cut = @ \cup ChunksOf(d)]]
  PROVE  KbInv'
  <1> DEFINE new == [run[r] EXCEPT !.victims = @ \ {v}, !.wrote = Lock(r, d, Nil),
                                   !.cut = @ \cup ChunksOf(d)]
  <1>1. run[r] \in RunType /\ RunInv(r)
    BY RunFacts
  <1>2. /\ Lock(r, d, Nil) \in Writes
        /\ DOMAIN Lock(r, d, Nil) = DOMAIN run[r].wrote \cup {d}
        /\ Lock(r, d, Nil)[d] = Nil
        /\ \A x \in DOMAIN run[r].wrote : x # d => Lock(r, d, Nil)[x] = run[r].wrote[x]
    <2>1. run[r].wrote \in Writes
      BY <1>1 DEF RunType
    <2>2. Nil \in Row \cup {Nil}
      OBVIOUS
    <2> HIDE DEF new
    <2> QED  BY ONLY <2>1, <2>2, d \in Doc, LockWrites, ZenonT(30)
  <1>3. run[r].cut \cup ChunksOf(d) \in SUBSET ChunkRow
    BY <1>1 DEF ChunksOf, KbInv, Types, RunType
  <1>4. new \in RunType /\ DOMAIN new.wrote = DOMAIN run[r].wrote \cup {d}
    BY <1>1, <1>2, <1>3 DEF RunType
  <1>5. /\ run'[r].pc = "prune" /\ run'[r].files = run[r].files /\ run'[r].victims = run[r].victims \ {v}
        /\ run'[r].wrote = Lock(r, d, Nil) /\ run'[r].put = run[r].put
        /\ run'[r].cut = run[r].cut \cup ChunksOf(d)
        /\ run'[r].listed = run[r].listed /\ run'[r].prune = run[r].prune
    BY <1>1 DEF RunType, KbInv, Types
  <1>6. /\ run[r].files = <<>> /\ run[r].prune /\ d \notin DOMAIN run[r].wrote
        /\ \A u \in run[r].victims : u[1] \notin DOMAIN run[r].wrote
        /\ \A u, w \in run[r].victims : u[1] = w[1] => u = w
    BY <1>1 DEF RunInv, Place
  <1>7. WholeWrites(r)'
    <2> SUFFICES ASSUME NEW c \in ChunkRow
        PROVE /\ c.doc \notin DOMAIN run'[r].wrote => c \notin run'[r].cut /\ c \notin run'[r].put
              /\ c.doc \in DOMAIN run'[r].wrote =>
                   /\ c \in run'[r].put <=> Of(c, run'[r].wrote[c.doc])
                   /\ c \in chunks => c \in run'[r].cut
      BY <1>5 DEF WholeWrites, Half, store, Of
    <2>1. WholeWrites(r) /\ run[r].pc # "index2"
      BY <1>1 DEF RunInv
    <2>2. c \in ChunksOf(d) <=> c \in chunks /\ c.doc = d
      BY DEF ChunksOf
    <2>3. CASE c.doc = d
      BY <1>2, <1>5, <1>6, <2>1, <2>2, <2>3 DEF WholeWrites, Half, Of
    <2>4. CASE c.doc # d
      BY <1>2, <1>5, <2>1, <2>2, <2>4 DEF WholeWrites, Half
    <2> QED  BY <2>3, <2>4
  <1>8. Ahead(r)' /\ Passed(r)'
    BY <1>5, <1>6 DEF Ahead, Passed
  <1>9. Place(r)'
    <2>1. \A u \in run[r].victims \ {v} : u[1] # d
      BY <1>6
    <2> QED  BY <1>2, <1>5, <1>6, <2>1 DEF Place
  <1>10. RunInv(r)'
    BY <1>7, <1>8, <1>9 DEF RunInv
  <1>11. \A s \in Run \ {r} : DOMAIN new.wrote \cap DOMAIN run[s].wrote = {}
    BY <1>4, RunFacts DEF Free
  <1>12. disk' \in [Doc -> Text \cup {Bad, Nil}] /\ ids' \in Nat
    BY DEF KbInv, Types
  <1> QED  BY <1>4, <1>10, <1>11, <1>12, Local

LEMMA StepPrune ==
  ASSUME KbInv, NEW r \in Run, Prune(r)
  PROVE  KbInv'
  <1>1. run[r].pc = "prune" /\ UNCHANGED <<store, disk, ids>>
    BY DEF Prune, world
  <1>2. PICK v \in run[r].victims :
          /\ Free(r, v[1])
          /\ \/ run' = [run EXCEPT ![r] = [run[r] EXCEPT !.victims = @ \ {v}]]
             \/ run' = [run EXCEPT ![r] = [[run[r] EXCEPT !.victims = @ \ {v}] EXCEPT
                           !.wrote = Lock(r, v[1], Nil), !.cut = @ \cup ChunksOf(v[1])]]
    BY DEF Prune, Set
  <1>3. run[r] \in RunType
    BY RunFacts
  <1>4. PICK d \in Doc : d = v[1]
    BY <1>3 DEF RunType
  <1>5. CASE run' = [run EXCEPT ![r] = [run[r] EXCEPT !.victims = @ \ {v}]]
    BY <1>1, <1>5, VictimPassed
  <1>6. CASE run' = [run EXCEPT ![r] = [[run[r] EXCEPT !.victims = @ \ {v}] EXCEPT
                         !.wrote = Lock(r, v[1], Nil), !.cut = @ \cup ChunksOf(v[1])]]
    <2>1. run' = [run EXCEPT ![r] = [run[r] EXCEPT !.victims = @ \ {v}, !.wrote = Lock(r, d, Nil),
                                                   !.cut = @ \cup ChunksOf(d)]]
      BY <1>4, <1>6
    <2> QED  BY <1>1, <1>2, <1>4, <2>1, VictimDeleted
  <1> QED  BY <1>2, <1>5, <1>6

\* The rows and the chunks of a run appear together.  No other run has written
\* what this one has: what it means to do to its chunks is untouched.
LEMMA StepCommit ==
  ASSUME KbInv, NEW r \in Run, Commit(r)
  PROVE  KbInv'
  <1> DEFINE W == DOMAIN run[r].wrote
  <1>1. /\ run[r].pc # "index2" /\ UNCHANGED <<disk, ids>>
        /\ docs' = [d \in Doc |-> IF d \in W THEN run[r].wrote[d] ELSE docs[d]]
        /\ chunks' = (chunks \ run[r].cut) \cup run[r].put
        /\ run' = [run EXCEPT ![r] = AtRest("done")]
    BY DEF Commit, Finished, Set, world
  <1>2. /\ run[r] \in RunType /\ WholeWrites(r) /\ run[r].wrote \in Writes
        /\ \A s \in Run \ {r} : W \cap DOMAIN run[s].wrote = {}
    BY RunFacts DEF RunInv, RunType
  <1>3. \A d \in W : d \in Doc /\ run[r].wrote[d] \in Row \cup {Nil}
    BY <1>2, WritesDomain
  <1>4. docs' \in [Doc -> Row \cup {Nil}] /\ chunks' \in SUBSET ChunkRow
    BY <1>1, <1>2, <1>3 DEF KbInv, Types, RunType
  <1>5. ASSUME NEW c \in ChunkRow
        PROVE  /\ c.doc \in W    => (c \in chunks' <=> Of(c, run[r].wrote[c.doc]))
               /\ c.doc \notin W => (c \in chunks' <=> c \in chunks)
    BY <1>1, <1>2 DEF WholeWrites, Half
  <1>6. Match'
    <2> SUFFICES ASSUME NEW c \in ChunkRow PROVE c \in chunks' <=> Of(c, docs'[c.doc])
      BY DEF Match, Of
    <2>1. c.doc \in Doc /\ (c \in chunks <=> Of(c, docs[c.doc]))
      BY DEF ChunkRow, KbInv, Match
    <2>2. docs'[c.doc] = IF c.doc \in W THEN run[r].wrote[c.doc] ELSE docs[c.doc]
      BY <1>1, <2>1
    <2> QED  BY <1>5, <2>1, <2>2
  <1>7. /\ AtRest("done") \in RunType
        /\ AtRest("done").pc = "done" /\ AtRest("done").files = <<>> /\ DOMAIN AtRest("done").wrote = {}
        /\ AtRest("done").cut = {} /\ AtRest("done").put = {}
    BY AtRestType
  <1>9. run'[r] = AtRest("done") /\ \A s \in Run \ {r} : run'[s] = run[s]
    BY <1>1 DEF KbInv, Types
  <1>10. Types'
    BY <1>1, <1>4, <1>7 DEF KbInv, Types
  <1>11. LocksExclude'
    <2>1. DOMAIN run'[r].wrote = {}
      BY <1>7, <1>9
    <2> QED  BY <1>9, <2>1 DEF KbInv, LocksExclude
  <1>12. RunInv(r)'
    BY <1>7, <1>9 DEF RunInv, WholeWrites, Half, Ahead, Passed, Place
  <1>13. ASSUME NEW s \in Run, s # r PROVE RunInv(s)'
    <2>1. run'[s] = run[s] /\ RunInv(s)
      BY <1>9, <1>13, RunFacts
    <2>2. WholeWrites(s)'
      <3>1. \A c \in ChunkRow : c.doc \in DOMAIN run[s].wrote /\ c \in chunks' => c \in chunks
        BY <1>2, <1>5, <1>13
      <3> QED  BY <2>1, <3>1 DEF RunInv, WholeWrites, Half, Of
    <2>3. Ahead(s)' /\ Passed(s)' /\ Place(s)'
      BY <2>1 DEF RunInv, Ahead, Passed, Place
    <2> QED  BY <2>2, <2>3 DEF RunInv
  <1> QED  BY <1>6, <1>10, <1>11, <1>12, <1>13 DEF KbInv

\* A run that ends without a commit leaves nothing of what it wrote.
LEMMA StepRollBack ==
  ASSUME KbInv, NEW r \in Run, Raises(r) \/ Dies(r) \/ DeadlockDetected(r)
  PROVE  KbInv'
  <1>1. RollBack(r)
    BY DEF Raises, Dies, DeadlockDetected
  <1> QED  BY <1>1, Rests DEF RollBack, Set, world

-----------------------------------------------------------------------------
(* Theorems *)

\* What earlier runs left is whole.
LEMMA Starts == Init => KbInv
  <1> SUFFICES ASSUME Init PROVE KbInv
    OBVIOUS
  <1>1. PICK text \in Indexed :
          /\ docs = [d \in Doc |-> IF text[d] = Nil THEN Nil ELSE [id |-> 0, text |-> text[d]]]
          /\ chunks = UNION {Split(d, text[d]) : d \in {x \in Doc : text[x] # Nil}}
    BY DEF Init
  <1>2. /\ text \in [Doc -> Text \cup {Nil}] /\ Text \subseteq Nat
        /\ \A row \in Row : row # Nil
    BY KbAssumption DEF Row
  <1>3. docs \in [Doc -> Row \cup {Nil}]
    BY <1>1, <1>2 DEF Row
  <1>4. \A d \in Doc : text[d] # Nil => text[d] \in Text
    BY <1>2
  <1>5. chunks \in SUBSET ChunkRow
    <2>1. ASSUME NEW d \in Doc, text[d] # Nil PROVE Split(d, text[d]) \subseteq ChunkRow
      BY <1>4, <2>1, SplitRows
    <2> QED  BY <1>1, <2>1
  <1>6. Match
    <2> SUFFICES ASSUME NEW c \in ChunkRow PROVE c \in chunks <=> Of(c, docs[c.doc])
      BY DEF Match
    <2>1. c.doc \in Doc
      BY DEF ChunkRow
    <2>2. ASSUME NEW d \in Doc, text[d] # Nil
          PROVE  c \in Split(d, text[d]) <=> c.doc = d /\ c.text = text[d] /\ c.idx \in 1..text[d]
      BY <1>4, <2>2, SplitRows
    <2>3. c \in chunks <=> text[c.doc] # Nil /\ c.text = text[c.doc] /\ c.idx \in 1..text[c.doc]
      BY <1>1, <2>1, <2>2
    <2>4. CASE text[c.doc] = Nil
      BY <1>1, <2>1, <2>3, <2>4 DEF Of
    <2>5. CASE text[c.doc] # Nil
      <3>1. docs[c.doc] = [id |-> 0, text |-> text[c.doc]] /\ docs[c.doc] \in Row
        BY <1>1, <1>4, <1>2, <2>1, <2>5 DEF Row
      <3> QED  BY <1>2, <2>3, <2>5, <3>1 DEF Of
    <2> QED  BY <2>4, <2>5
  <1>7. /\ AtRest("idle") \in RunType
        /\ AtRest("idle").pc = "idle" /\ AtRest("idle").files = <<>> /\ DOMAIN AtRest("idle").wrote = {}
        /\ AtRest("idle").cut = {} /\ AtRest("idle").put = {}
    BY AtRestType
  <1>9. run = [r \in Run |-> AtRest("idle")]
    BY DEF Init
  <1>10. Types
    <2>1. disk \in [Doc -> Text \cup {Bad, Nil}] /\ ids \in Nat
      BY DEF Init
    <2> QED  BY <1>3, <1>5, <1>7, <1>9, <2>1 DEF Types
  <1>11. LocksExclude
    BY <1>7, <1>9 DEF LocksExclude
  <1>12. \A r \in Run : RunInv(r)
    BY <1>7, <1>9 DEF RunInv, WholeWrites, Half, Ahead, Passed, Place
  <1> QED  BY <1>6, <1>10, <1>11, <1>12 DEF KbInv

LEMMA Steps == KbInv /\ [Next]_vars => KbInv'
  <1>1. ASSUME KbInv, NEW d \in Doc, Edit(d) PROVE KbInv'
    BY <1>1, StepEdit
  <1>2. ASSUME KbInv, NEW r \in Run, Step(r) PROVE KbInv'
    <2>1. CASE Start(r)        BY <1>2, <2>1, StepStart
    <2>2. CASE Read(r)         BY <1>2, <2>2, StepRead
    <2>3. CASE Select(r)       BY <1>2, <2>3, StepSelect
    <2>4. CASE WriteRow(r)     BY <1>2, <2>4, StepWriteRow
    <2>5. CASE WriteChunks(r)  BY <1>2, <2>5, StepWriteChunks
    <2>6. CASE StartPrune(r)   BY <1>2, <2>6, StepStartPrune
    <2>7. CASE Prune(r)        BY <1>2, <2>7, StepPrune
    <2>8. CASE Commit(r)       BY <1>2, <2>8, StepCommit
    <2>9. CASE Raises(r) \/ Dies(r) \/ DeadlockDetected(r)
      BY <1>2, <2>9, StepRollBack
    <2> QED  BY <1>2, <2>1, <2>2, <2>3, <2>4, <2>5, <2>6, <2>7, <2>8, <2>9 DEF Step
  <1>3. ASSUME KbInv, UNCHANGED vars PROVE KbInv'
    BY <1>3 DEF vars, world, store, KbInv, Types, Match, Of, LocksExclude, RunInv, WholeWrites,
                Half, Ahead, Passed, Place
  <1> QED  BY <1>1, <1>2, <1>3 DEF Next, Rest

THEOREM KbInvariant == Spec => []KbInv
  BY Starts, Steps, PTL DEF Spec

\* Type correctness; and no two runs have a row, or the key of a row, locked at
\* a time (the unique key of kb_documents, models/kb_document.py).
THEOREM KbTypes == Spec => []TypeOK
  <1>1. KbInv => TypeOK
    <2> SUFFICES ASSUME KbInv PROVE TypeOK
      OBVIOUS
    <2>1. ASSUME NEW r \in Run
          PROVE  /\ run[r].pc \in Pcs
                 /\ run[r].seen \in Row \cup {Nil} /\ run[r].content \in Text \cup {Nil}
                 /\ DOMAIN run[r].wrote \subseteq Doc /\ run[r].put \subseteq ChunkRow
      BY RunFacts DEF RunType
    <2>2. /\ disk \in [Doc -> Text \cup {Bad, Nil}]
          /\ docs \in [Doc -> Row \cup {Nil}] /\ chunks \subseteq ChunkRow /\ LocksExclude
      BY DEF KbInv, Types
    <2> QED  BY <2>1, <2>2 DEF TypeOK, Pcs
  <1> QED  BY <1>1, KbInvariant, PTL

\* Whatever runs overlap, fail or prune, a turn finds all the chunks of the
\* text that each document has, and no others (kb/retriever.py:45-80).
THEOREM ReadsWhole == Spec => []ReadsAreWhole
  <1>1. KbInv => ReadsAreWhole
    <2> SUFFICES ASSUME KbInv, NEW kbs \in SUBSET Kbs
                 PROVE  Retrievable(kbs) = UNION {Split(d, docs[d].text) :
                                             d \in {x \in Doc : docs[x] # Nil /\ KbOf[x] \in kbs}}
      BY DEF ReadsAreWhole
    <2>1. ASSUME NEW d \in Doc, docs[d] # Nil
          PROVE  docs[d].text \in Text
      BY <2>1, KbAssumption DEF KbInv, Types, Row
    <2>2. ASSUME NEW c PROVE c \in Retrievable(kbs) <=>
              c \in ChunkRow /\ Of(c, docs[c.doc]) /\ KbOf[c.doc] \in kbs
      BY DEF Retrievable, KbInv, Types, Match
    <2>3. ASSUME NEW c, NEW d \in Doc, docs[d] # Nil
          PROVE  c \in Split(d, docs[d].text) <=> c \in ChunkRow /\ c.doc = d /\ Of(c, docs[d])
      BY <2>1, <2>3, SplitRows DEF Of
    <2>4. \A c \in ChunkRow : c.doc \in Doc /\ (Of(c, docs[c.doc]) => docs[c.doc] # Nil)
      BY DEF ChunkRow, Of
    <2> QED  BY <2>2, <2>3, <2>4
  <1> QED  BY <1>1, KbInvariant, PTL

\* Runs that do not prune never wait for each other, whatever KB each is limited
\* to: a run waits for a path after all those that it holds (kb/indexer.py:85).
THEOREM RunsPass == Spec => []SortedRunsPass
  <1>1. ASSUME KbInv, NEW r \in Run, NEW s \in Run, WaitsFor(r, s), ~run[r].prune
        PROVE  /\ Path(r) \in DOMAIN run[s].wrote /\ Path(r) \in Nat /\ run[r].pc = "index1"
               /\ \A d \in DOMAIN run[r].wrote : d < Path(r)
    <2>1. run[r] \in RunType /\ Place(r) /\ Passed(r)
      BY <1>1, RunFacts DEF RunInv
    <2>2. At(r, "index1") /\ Path(r) \in DOMAIN run[s].wrote
      BY <1>1, <2>1, RowThenChunks DEF WaitsFor, Wanted, Place
    <2>3. Path(r) \in Doc /\ Path(r) = run[r].files[1] /\ 1 \in DOMAIN run[r].files
      BY <2>1, <2>2, TailAhead DEF Path, At, RunType
    <2> QED  BY <2>1, <2>2, <2>3, KbAssumption DEF At, Passed
  <1>2. KbInv => SortedRunsPass
    <2> SUFFICES ASSUME KbInv, NEW r \in Run, NEW s \in Run, WaitsFor(r, s), WaitsFor(s, r),
                        ~run[r].prune, ~run[s].prune
                 PROVE  FALSE
      BY DEF SortedRunsPass
    <2>1. Path(r) < Path(s) /\ Path(s) < Path(r) /\ Path(r) \in Nat /\ Path(s) \in Nat
      BY <1>1
    <2> QED  BY <2>1
  <1> QED  BY <1>2, KbInvariant, PTL

-----------------------------------------------------------------------------
(* A run that nothing changes under *)

\* The run is done with the document: it cannot be decoded, its row is written,
\* or the row that is committed has the text on the disk.
Handled(x, d) ==
  disk[d] = Bad \/ d \in DOMAIN x.wrote \/ (docs[d] # Nil /\ docs[d].text = disk[d])

\* What the run has written of a document is what the disk asks for.
Due(x, d) ==
  IF d \in x.listed THEN disk[d] \in Text /\ x.wrote[d] # Nil /\ x.wrote[d].text = disk[d]
  ELSE x.wrote[d] = Nil /\ InScope(x.kb, d) /\ x.prune

\* The victims are the rows, in the scope, of documents that are not on the disk.
Victims(x) ==
  /\ \A d \in Doc \ x.listed : InScope(x.kb, d) /\ docs[d] # Nil =>
       <<d, docs[d].id>> \in x.victims \/ d \in DOMAIN x.wrote
  /\ \A v \in x.victims :
       /\ v[1] \in Doc \ x.listed /\ InScope(x.kb, v[1])
       /\ docs[v[1]] # Nil /\ docs[v[1]].id = v[2]

OnTrack(x) ==
  x.pc \in {"read", "select", "index1", "index2", "prune"} =>
    /\ x.listed = Files(x.kb)
    /\ x.pc \in {"select", "index1", "index2"} => disk[Head(x.files)] = x.content
    /\ \A d \in x.listed : d \in Range(x.files) \/ Handled(x, d)
    /\ \A d \in DOMAIN x.wrote : Due(x, d)
    /\ x.pc = "prune" => Victims(x)

FreshInv == fresh \subseteq Run /\ \A r \in fresh : OnTrack(run[r])

\* A listing has every file in the scope.
LEMMA ListingWhole ==
  ASSUME NEW kb, NEW files \in ListMdFiles(kb)
  PROVE  Range(files) = Files(kb)
  <1> DEFINE n == Cardinality(Files(kb))
  <1>1. IsFiniteSet(Files(kb)) /\ Files(kb) \subseteq Doc
    BY KbAssumption, FS_Subset DEF Files
  <1>2. n \in Nat
    BY <1>1, FS_CardinalityType
  <1>3. files \in [1..n -> Files(kb)] /\ \A i, j \in 1..n : i < j => files[i] < files[j]
    BY DEF ListMdFiles
  <1>4. IsFiniteSet(1..n) /\ Cardinality(1..n) = n
    <2> HIDE DEF n
    <2>1. n \in Int /\ 1 \in Int /\ (1 > n => n = 0)
      BY <1>2
    <2>2. IsFiniteSet(1..n) /\ Cardinality(1..n) = IF 1 > n THEN 0 ELSE n - 1 + 1
      BY <2>1, FS_Interval
    <2> QED  BY <1>2, <2>1, <2>2
  <1> HIDE DEF n
  <1>5. IsInjective(files)
    <2> SUFFICES ASSUME NEW i \in 1..n, NEW j \in 1..n, files[i] = files[j], i # j PROVE FALSE
      BY <1>3 DEF IsInjective
    <2>1. i < j \/ j < i
      BY <1>2
    <2>2. files[i] \in Nat /\ files[j] \in Nat
      BY <1>1, <1>3, KbAssumption
    <2>3. files[i] < files[j] \/ files[j] < files[i]
      BY <1>3, <2>1
    <2> QED  BY <2>2, <2>3
  <1>6. files \in Injection(1..n, Files(kb))
    BY <1>3, <1>5 DEF Injection
  <1>7. files \in Surjection(1..n, Files(kb))
    BY <1>1, <1>4, <1>6, FS_Injection DEF n
  <1>8. \A d \in Files(kb) : \E i \in 1..n : files[i] = d
    BY <1>7 DEF Surjection
  <1> QED  BY <1>3, <1>8 DEF Range

\* The files that a run has still to read, its first one taken away.
LEMMA TailRange ==
  ASSUME NEW s \in Seq(Doc), s # <<>>
  PROVE  \A d \in Range(s) : d = Head(s) \/ d \in Range(Tail(s))
  <1> SUFFICES ASSUME NEW i \in DOMAIN s, i # 1 PROVE s[i] \in Range(Tail(s))
    BY DEF Range
  <1>1. i \in Nat /\ i - 1 \in DOMAIN Tail(s) /\ Tail(s)[i - 1] = s[i]
    OBVIOUS
  <1> QED  BY <1>1 DEF Range

\* A step of one run that commits nothing.
LEMMA FreshLocal ==
  ASSUME KbInv, FreshInv, NEW r \in Run, NEW new, run' = [run EXCEPT ![r] = new],
         UNCHANGED <<disk, docs>>, fresh' \subseteq fresh \cup {r},
         r \in fresh' => OnTrack(new)
  PROVE  FreshInv'
  <1>1. run'[r] = new /\ \A s \in Run \ {r} : run'[s] = run[s]
    BY DEF KbInv, Types
  <1>2. fresh' \subseteq Run
    BY DEF FreshInv
  <1>3. ASSUME NEW s \in fresh' PROVE OnTrack(run'[s])
    BY <1>1, <1>2 DEF FreshInv
  <1> QED  BY <1>2, <1>3 DEF FreshInv, OnTrack, Files, Handled, Due, Victims

\* What the invariants say of a fresh run.
LEMMA FreshFacts ==
  ASSUME KbInv, FreshInv, NEW r \in fresh
  PROVE  r \in Run /\ OnTrack(run[r]) /\ run[r] \in RunType /\ RunInv(r)
  BY RunFacts DEF FreshInv

\* The run goes on to the next file with this one handled.
LEMMA FreshNextFile ==
  ASSUME NEW x \in RunType, NEW y \in RunType, OnTrack(x),
         x.pc \in {"read", "select", "index2"}, x.files # <<>>, Handled(x, Head(x.files)),
         y.pc = "read", y.kb = x.kb, y.prune = x.prune, y.files = Tail(x.files),
         y.listed = x.listed, y.wrote = x.wrote
  PROVE  OnTrack(y)
  <1>1. \A d \in Range(x.files) : d = Head(x.files) \/ d \in Range(Tail(x.files))
    BY TailRange DEF RunType
  <1>2. \A d \in x.listed : d \in Range(y.files) \/ Handled(y, d)
    BY <1>1 DEF OnTrack, Handled
  <1>3. \A d \in DOMAIN y.wrote : Due(y, d)
    BY DEF OnTrack, Due
  <1> QED  BY <1>2, <1>3 DEF OnTrack

\* Everything that is left to read is listed, and the listing is the whole scope.
LEMMA FreshStart ==
  ASSUME KbInv, FreshInv, NEW r \in Run, Start(r)
  PROVE  FreshInv'
  <1>1. PICK kb \in Kbs \cup {Nil}, prune \in BOOLEAN : \E files \in ListMdFiles(kb) :
               run' = [run EXCEPT ![r] = Started(kb, prune, files)]
    BY DEF Start, Set
  <1>2. PICK files \in ListMdFiles(kb) : run' = [run EXCEPT ![r] = Started(kb, prune, files)]
    BY <1>1
  <1> DEFINE new == Started(kb, prune, files)
  <1>3. /\ new.pc = "read" /\ new.kb = kb /\ new.files = files
        /\ new.listed = Range(files) /\ DOMAIN new.wrote = {}
    BY NoWritesType DEF Started, RunRecord
  <1>4. Range(files) = Files(kb)
    BY ListingWhole
  <1> HIDE DEF new
  <1>5. OnTrack(new)
    BY <1>3, <1>4 DEF OnTrack
  <1>6. UNCHANGED <<disk, docs>> /\ fresh' = fresh \cup {r}
    BY DEF Start, world, store
  <1> QED  BY <1>2, <1>5, <1>6, FreshLocal DEF new

\* A file that cannot be decoded is done with.
LEMMA FreshRead ==
  ASSUME KbInv, FreshInv, NEW r \in Run, Read(r)
  PROVE  FreshInv'
  <1>1. /\ run[r].pc = "read" /\ run[r].files # <<>> /\ UNCHANGED <<disk, docs>> /\ fresh' = fresh
        /\ run[r] \in RunType
    BY RunFacts DEF Read, At, world, store
  <1>2. CASE disk[Path(r)] = Bad
    <2>1. run' = [run EXCEPT ![r] = NextFile(r)]
      BY <1>2 DEF Read, Set
    <2>2. ASSUME r \in fresh PROVE OnTrack(NextFile(r))
      <3>1. OnTrack(run[r]) /\ Handled(run[r], Head(run[r].files))
        BY <1>2, <2>2, FreshFacts DEF Handled, Path
      <3>2. Tail(run[r].files) \in Seq(Doc)
        BY <1>1, TailAhead DEF RunType
      <3>3. /\ NextFile(r) \in RunType /\ NextFile(r).pc = "read" /\ NextFile(r).kb = run[r].kb
            /\ NextFile(r).prune = run[r].prune /\ NextFile(r).files = Tail(run[r].files)
            /\ NextFile(r).listed = run[r].listed /\ NextFile(r).wrote = run[r].wrote
        BY <1>1, <3>2 DEF NextFile, RunType, Pcs
      <3> QED  BY <1>1, <3>1, <3>3, FreshNextFile
    <2> QED  BY <1>1, <2>1, <2>2, FreshLocal
  <1>3. CASE disk[Path(r)] # Bad
    <2> DEFINE new == [run[r] EXCEPT !.pc = "select", !.content = disk[Path(r)]]
    <2>1. run' = [run EXCEPT ![r] = new]
      BY <1>3 DEF Read, Set
    <2>2. /\ new.pc = "select" /\ new.kb = run[r].kb /\ new.prune = run[r].prune
          /\ new.files = run[r].files /\ new.content = disk[Head(run[r].files)]
          /\ new.listed = run[r].listed /\ new.wrote = run[r].wrote
      BY <1>1 DEF RunType, Path
    <2> HIDE DEF new
    <2>3. ASSUME r \in fresh PROVE OnTrack(new)
      <3>1. OnTrack(run[r])
        BY <2>3, FreshFacts
      <3> QED  BY <1>1, <2>2, <3>1 DEF OnTrack, Handled, Due
    <2> QED  BY <1>1, <2>1, <2>3, FreshLocal
  <1> QED  BY <1>2, <1>3

\* A document whose row has the text that was read is done with.
LEMMA FreshSelect ==
  ASSUME KbInv, FreshInv, NEW r \in Run, Select(r)
  PROVE  FreshInv'
  <1>1. /\ run[r].pc = "select" /\ run[r].files # <<>> /\ UNCHANGED <<disk, docs>> /\ fresh' = fresh
        /\ run[r] \in RunType
    BY RunFacts DEF Select, At, world, store
  <1>2. CASE Unchanged(docs[Path(r)], run[r].content)
    <2>1. run' = [run EXCEPT ![r] = NextFile(r)]
      BY <1>2 DEF Select, Set
    <2>2. ASSUME r \in fresh PROVE OnTrack(NextFile(r))
      <3>1. OnTrack(run[r])
        BY <2>2, FreshFacts
      <3>2. Handled(run[r], Head(run[r].files))
        BY <1>1, <1>2, <3>1 DEF OnTrack, Handled, Path, Unchanged
      <3>3. Tail(run[r].files) \in Seq(Doc)
        BY <1>1, TailAhead DEF RunType
      <3>4. /\ NextFile(r) \in RunType /\ NextFile(r).pc = "read" /\ NextFile(r).kb = run[r].kb
            /\ NextFile(r).prune = run[r].prune /\ NextFile(r).files = Tail(run[r].files)
            /\ NextFile(r).listed = run[r].listed /\ NextFile(r).wrote = run[r].wrote
        BY <1>1, <3>3 DEF NextFile, RunType, Pcs
      <3> QED  BY <1>1, <3>1, <3>2, <3>4, FreshNextFile
    <2> QED  BY <1>1, <2>1, <2>2, FreshLocal
  <1>3. CASE ~Unchanged(docs[Path(r)], run[r].content)
    <2> DEFINE new == [run[r] EXCEPT !.pc = "index1", !.seen = docs[Path(r)]]
    <2>1. run' = [run EXCEPT ![r] = new]
      BY <1>3 DEF Select, Set
    <2>2. /\ new.pc = "index1" /\ new.kb = run[r].kb /\ new.prune = run[r].prune
          /\ new.files = run[r].files /\ new.content = run[r].content
          /\ new.listed = run[r].listed /\ new.wrote = run[r].wrote
      BY <1>1 DEF RunType
    <2> HIDE DEF new
    <2>3. ASSUME r \in fresh PROVE OnTrack(new)
      <3>1. OnTrack(run[r])
        BY <2>3, FreshFacts
      <3> QED  BY <1>1, <2>2, <3>1 DEF OnTrack, Handled, Due
    <2> QED  BY <1>1, <2>1, <2>3, FreshLocal
  <1> QED  BY <1>2, <1>3

\* The row that is written has the text on the disk.
LEMMA FreshWriteRow ==
  ASSUME KbInv, FreshInv, NEW r \in Run, WriteRow(r)
  PROVE  FreshInv'
  <1> DEFINE id == IF run[r].seen = Nil THEN ids + 1 ELSE run[r].seen.id
             row == [id |-> id, text |-> run[r].content]
             new == [[run[r] EXCEPT !.wrote = Lock(r, Path(r), row)] EXCEPT !.pc = "index2"]
  <1>1. /\ run[r].pc = "index1" /\ run[r].files # <<>> /\ UNCHANGED <<disk, docs>> /\ fresh' = fresh
        /\ run[r] \in RunType /\ RunInv(r)
    BY RunFacts, RowThenChunks DEF WriteRow, At, world, store
  <1>2. run' = [run EXCEPT ![r] = new]
    BY <1>1 DEF WriteRow, Then, Set
  <1>3. Path(r) \in Doc /\ Path(r) = Head(run[r].files) /\ Path(r) = run[r].files[1] /\ 1 \in DOMAIN run[r].files
    BY <1>1, TailAhead DEF Path, RunType
  <1>4. run[r].content \in Text /\ Path(r) \in run[r].listed
    BY <1>1, <1>3 DEF RunInv, Place, Ahead
  <1>5. id \in Nat
    BY <1>1 DEF RunType, Row, KbInv, Types
  <1>6. row \in Row /\ row.text = run[r].content /\ row # Nil
    <2>1. row \in Row /\ row.text = run[r].content
      BY <1>4, <1>5 DEF Row
    <2>2. \A x \in Row : x # Nil
      BY KbAssumption DEF Row
    <2> QED  BY <2>1, <2>2
  <1> HIDE DEF row, id
  <1>7. /\ Lock(r, Path(r), row) \in Writes
        /\ DOMAIN Lock(r, Path(r), row) = DOMAIN run[r].wrote \cup {Path(r)}
        /\ Lock(r, Path(r), row)[Path(r)] = row
        /\ \A x \in DOMAIN run[r].wrote : x # Path(r) => Lock(r, Path(r), row)[x] = run[r].wrote[x]
    <2> HIDE DEF new
    <2>1. run[r].wrote \in Writes /\ row \in Row \cup {Nil}
      BY <1>1, <1>6 DEF RunType
    <2>2. Path(r) \in Doc
      BY <1>3
    <2> QED  BY ONLY <2>1, <2>2, LockWrites, ZenonT(30)
  <1>8. /\ new.pc = "index2" /\ new.kb = run[r].kb /\ new.prune = run[r].prune
        /\ new.files = run[r].files /\ new.content = run[r].content
        /\ new.listed = run[r].listed /\ new.wrote = Lock(r, Path(r), row)
    BY <1>1 DEF RunType
  <1> HIDE DEF new
  <1>9. ASSUME r \in fresh PROVE OnTrack(new)
    <2>1. OnTrack(run[r])
      BY <1>9, FreshFacts
    <2>2. disk[Path(r)] = run[r].content
      BY <1>1, <1>3, <2>1 DEF OnTrack
    <2>3. ASSUME NEW d \in DOMAIN new.wrote PROVE Due(new, d)
      <3>1. CASE d = Path(r)
        BY <1>4, <1>6, <1>7, <1>8, <2>2, <3>1 DEF Due
      <3>2. CASE d # Path(r)
        BY <1>1, <1>7, <1>8, <2>1, <3>2 DEF OnTrack, Due
      <3> QED  BY <3>1, <3>2
    <2>4. \A d \in new.listed : d \in Range(new.files) \/ Handled(new, d)
      BY <1>1, <1>7, <1>8, <2>1 DEF OnTrack, Handled
    <2> QED  BY <1>1, <1>8, <2>1, <2>3, <2>4 DEF OnTrack
  <1> QED  BY <1>1, <1>2, <1>9, FreshLocal

\* The document is done with: its row is written.
LEMMA FreshWriteChunks ==
  ASSUME KbInv, FreshInv, NEW r \in Run, WriteChunks(r), KbInv'
  PROVE  FreshInv'
  <1> DEFINE new == [[run[r] EXCEPT !.cut = @ \cup ChunksOf(Path(r)),
                                    !.put = @ \cup Split(Path(r), run[r].content)]
                        EXCEPT !.pc = "read", !.files = Tail(@)]
  <1>1. /\ run[r].pc = "index2" /\ run[r].files # <<>> /\ UNCHANGED <<disk, docs>> /\ fresh' = fresh
        /\ run[r] \in RunType /\ RunInv(r)
    BY RunFacts, RowThenChunks DEF WriteChunks, At, world, store
  <1>2. run' = [run EXCEPT ![r] = new]
    BY <1>1 DEF WriteChunks, Then, Set
  <1>3. new \in RunType
    <2>1. run'[r] = new
      BY <1>2 DEF KbInv, Types
    <2> QED  BY <2>1 DEF KbInv, Types
  <1>4. /\ new.pc = "read" /\ new.kb = run[r].kb /\ new.prune = run[r].prune
        /\ new.files = Tail(run[r].files)
        /\ new.listed = run[r].listed /\ new.wrote = run[r].wrote
    BY <1>1 DEF RunType
  <1> HIDE DEF new
  <1>5. Handled(run[r], Head(run[r].files))
    BY <1>1 DEF Handled, RunInv, Place
  <1>6. ASSUME r \in fresh PROVE OnTrack(new)
    <2>1. OnTrack(run[r])
      BY <1>6, FreshFacts
    <2> QED  BY <1>1, <1>3, <1>4, <1>5, <2>1, FreshNextFile
  <1> QED  BY <1>1, <1>2, <1>6, FreshLocal

\* All the rows that the run means to delete are of documents that are not there.
LEMMA FreshStartPrune ==
  ASSUME KbInv, FreshInv, NEW r \in Run, StartPrune(r)
  PROVE  FreshInv'
  <1> DEFINE gone == {x \in Doc \ run[r].listed : docs[x] # Nil /\ InScope(run[r].kb, x)}
             victims == {<<d, docs[d].id>> : d \in gone}
             new == [run[r] EXCEPT !.pc = "prune", !.victims = victims]
  <1>1. /\ run[r].pc = "read" /\ UNCHANGED <<disk, docs>> /\ fresh' = fresh
        /\ run[r] \in RunType
    BY RunFacts DEF StartPrune, world, store
  <1>2. run' = [run EXCEPT ![r] = new]
    BY DEF StartPrune, Set
  <1>3. \A d \in gone : <<d, docs[d].id>> \in victims
    OBVIOUS
  <1>4. \A v \in victims : v[1] \in gone /\ docs[v[1]].id = v[2]
    OBVIOUS
  <1> HIDE DEF victims
  <1>5. /\ new.pc = "prune" /\ new.kb = run[r].kb /\ new.prune = run[r].prune
        /\ new.files = run[r].files /\ new.victims = victims
        /\ new.listed = run[r].listed /\ new.wrote = run[r].wrote
    BY <1>1 DEF RunType
  <1> HIDE DEF new
  <1>6. Victims(new)
    BY <1>3, <1>4, <1>5 DEF Victims
  <1>7. ASSUME r \in fresh PROVE OnTrack(new)
    <2>1. OnTrack(run[r])
      BY <1>7, FreshFacts
    <2> QED  BY <1>1, <1>5, <1>6, <2>1 DEF OnTrack, Handled, Due
  <1> QED  BY <1>1, <1>2, <1>7, FreshLocal

\* The victim is still the row that the run saw, and its deletion is written.
LEMMA FreshPrune ==
  ASSUME KbInv, FreshInv, NEW r \in Run, Prune(r)
  PROVE  FreshInv'
  <1>1. /\ run[r].pc = "prune" /\ UNCHANGED <<disk, docs>> /\ fresh' = fresh
        /\ run[r] \in RunType /\ RunInv(r)
    BY RunFacts DEF Prune, world, store
  <1>2. PICK v \in run[r].victims :
          run' = [run EXCEPT ![r] =
                    IF docs[v[1]] = Nil \/ docs[v[1]].id # v[2] THEN [run[r] EXCEPT !.victims = @ \ {v}]
                    ELSE [[run[r] EXCEPT !.victims = @ \ {v}] EXCEPT
                            !.wrote = Lock(r, v[1], Nil), !.cut = @ \cup ChunksOf(v[1])]]
    BY DEF Prune, Set
  <1>3. PICK d \in Doc : d = v[1]
    BY <1>1 DEF RunType
  <1>4. CASE r \notin fresh
    BY <1>1, <1>2, <1>4, FreshLocal
  <1>5. CASE r \in fresh
    <2> DEFINE new == [[run[r] EXCEPT !.victims = @ \ {v}] EXCEPT
                         !.wrote = Lock(r, v[1], Nil), !.cut = @ \cup ChunksOf(v[1])]
    <2>1. OnTrack(run[r])
      BY <1>5, FreshFacts
    <2>2. Victims(run[r])
      BY <1>1, <2>1 DEF OnTrack
    <2>3. docs[v[1]] # Nil /\ docs[v[1]].id = v[2]
      BY <2>2 DEF Victims
    <2>4. run' = [run EXCEPT ![r] = new]
      BY <1>2, <2>3
    <2>5. /\ DOMAIN Lock(r, d, Nil) = DOMAIN run[r].wrote \cup {d}
          /\ Lock(r, d, Nil)[d] = Nil
          /\ \A x \in DOMAIN run[r].wrote : x # d => Lock(r, d, Nil)[x] = run[r].wrote[x]
      <3>1. run[r].wrote \in Writes
        BY <1>1 DEF RunType
      <3>2. Nil \in Row \cup {Nil}
        OBVIOUS
      <3> HIDE DEF new
      <3> QED  BY ONLY <3>1, <3>2, d \in Doc, LockWrites, ZenonT(30)
    <2>6. /\ new.pc = "prune" /\ new.kb = run[r].kb /\ new.prune = run[r].prune
          /\ new.files = run[r].files /\ new.victims = run[r].victims \ {v}
          /\ new.listed = run[r].listed /\ new.wrote = Lock(r, d, Nil)
      BY <1>1, <1>3 DEF RunType
    <2> HIDE DEF new
    <2>7. run[r].prune /\ d \notin run[r].listed /\ InScope(run[r].kb, d)
      BY <1>1, <1>3, <2>2 DEF RunInv, Place, Victims
    <2>8. \A x \in DOMAIN new.wrote : Due(new, x)
      BY <1>1, <2>1, <2>5, <2>6, <2>7 DEF OnTrack, Due
    <2>9. Victims(new)
      <3>1. ASSUME NEW x \in Doc \ new.listed, InScope(new.kb, x), docs[x] # Nil
            PROVE  <<x, docs[x].id>> \in new.victims \/ x \in DOMAIN new.wrote
        <4>1. <<x, docs[x].id>> \in run[r].victims \/ x \in DOMAIN run[r].wrote
          BY <2>2, <2>6, <3>1 DEF Victims
        <4>2. x # d => <<x, docs[x].id>> # v
          BY <1>3
        <4> QED  BY <2>5, <2>6, <4>1, <4>2
      <3>2. \A u \in new.victims : u \in run[r].victims
        BY <2>6
      <3> QED  BY <2>2, <2>6, <3>1, <3>2 DEF Victims
    <2>10. \A x \in new.listed : x \in Range(new.files) \/ Handled(new, x)
      BY <1>1, <2>1, <2>5, <2>6 DEF OnTrack, Handled
    <2>11. OnTrack(new)
      BY <1>1, <2>1, <2>6, <2>8, <2>9, <2>10 DEF OnTrack
    <2> QED  BY <1>1, <2>4, <2>11, FreshLocal
  <1> QED  BY <1>4, <1>5

LEMMA FreshRollBack ==
  ASSUME KbInv, FreshInv, NEW r \in Run, RollBack(r)
  PROVE  FreshInv'
  <1>1. run' = [run EXCEPT ![r] = AtRest("failed")] /\ UNCHANGED <<disk, docs>> /\ fresh' = fresh
    BY DEF RollBack, Set, world, store
  <1>2. AtRest("failed").pc = "failed"
    BY AtRestType
  <1> HIDE DEF AtRest
  <1>3. OnTrack(AtRest("failed"))
    BY <1>2 DEF OnTrack
  <1> QED  BY <1>1, <1>3, FreshLocal

LEMMA FreshSteps == KbInv /\ KbInv' /\ FreshInv /\ [Next]_vars => FreshInv'
  <1> SUFFICES ASSUME KbInv, KbInv', FreshInv, [Next]_vars PROVE FreshInv'
    OBVIOUS
  <1>1. ASSUME NEW d \in Doc, Edit(d) PROVE FreshInv'
    BY <1>1 DEF Edit, FreshInv
  <1>2. ASSUME NEW r \in Run, Step(r) PROVE FreshInv'
    <2>1. CASE Start(r)        BY <2>1, FreshStart
    <2>2. CASE Read(r)         BY <2>2, FreshRead
    <2>3. CASE Select(r)       BY <2>3, FreshSelect
    <2>4. CASE WriteRow(r)     BY <2>4, FreshWriteRow
    <2>5. CASE WriteChunks(r)  BY <2>5, FreshWriteChunks
    <2>6. CASE StartPrune(r)   BY <2>6, FreshStartPrune
    <2>7. CASE Prune(r)        BY <2>7, FreshPrune
    <2>8. CASE Commit(r)       BY <2>8 DEF Commit, FreshInv
    <2>9. CASE Raises(r) \/ Dies(r) \/ DeadlockDetected(r)
      BY <2>9, FreshRollBack DEF Raises, Dies, DeadlockDetected
    <2> QED  BY <1>2, <2>1, <2>2, <2>3, <2>4, <2>5, <2>6, <2>7, <2>8, <2>9 DEF Step
  <1>3. ASSUME UNCHANGED vars PROVE FreshInv'
    BY <1>3 DEF vars, world, store, FreshInv, OnTrack, Files, Handled, Due, Victims
  <1> QED  BY <1>1, <1>2, <1>3 DEF Next, Rest

\* A fresh run that is finished has settled every document of its scope.
LEMMA Settles ==
  ASSUME KbInv, FreshInv, NEW r \in fresh, Commit(r), NEW d \in Doc
  PROVE  Settled(d, run[r].kb, run[r].prune)
  <1> DEFINE W == DOMAIN run[r].wrote
  <1>1. OnTrack(run[r]) /\ run[r] \in RunType /\ Place(r)
    BY FreshFacts DEF RunInv
  <1>2. docs'[d] = IF d \in W THEN run[r].wrote[d] ELSE docs[d]
    BY DEF Commit
  <1>3. /\ run[r].pc \in {"read", "prune"} /\ run[r].files = <<>>
        /\ run[r].prune => run[r].pc = "prune" /\ run[r].victims = {}
    BY <1>1 DEF Commit, Finished, Place
  <1>4. Range(run[r].files) = {}
    BY <1>3 DEF Range
  <1>5. d \in run[r].listed <=> disk[d] # Nil /\ InScope(run[r].kb, d)
    BY <1>1, <1>3 DEF OnTrack, Files
  <1>6. d \in W => Due(run[r], d)
    BY <1>1, <1>3 DEF OnTrack
  <1>7. d \in run[r].listed => Handled(run[r], d)
    BY <1>1, <1>3, <1>4 DEF OnTrack
  <1>8. Nil \notin Text /\ Bad \notin Text /\ Nil # Bad /\ disk[d] \in Text \cup {Bad, Nil}
    BY KbAssumption DEF KbInv, Types
  <1>9. ~InScope(run[r].kb, d) \/ disk[d] = Bad => docs'[d] = docs[d]
    BY <1>2, <1>5, <1>6, <1>8 DEF Due
  <1>10. InScope(run[r].kb, d) /\ disk[d] = Nil =>
           docs'[d] = IF run[r].prune THEN Nil ELSE docs[d]
    <2> SUFFICES ASSUME InScope(run[r].kb, d), disk[d] = Nil
                 PROVE  docs'[d] = IF run[r].prune THEN Nil ELSE docs[d]
      OBVIOUS
    <2>1. d \in W => run[r].wrote[d] = Nil /\ run[r].prune
      BY <1>5, <1>6 DEF Due
    <2>2. run[r].prune => d \in W \/ docs[d] = Nil
      BY <1>1, <1>3, <1>5 DEF OnTrack, Victims
    <2> QED  BY <1>2, <2>1, <2>2
  <1>11. InScope(run[r].kb, d) /\ disk[d] \in Text => docs'[d] # Nil /\ docs'[d].text = disk[d]
    <2> SUFFICES ASSUME InScope(run[r].kb, d), disk[d] \in Text
                 PROVE  docs'[d] # Nil /\ docs'[d].text = disk[d]
      OBVIOUS
    <2>1. d \in run[r].listed
      BY <1>5, <1>8
    <2>2. d \in W => run[r].wrote[d] # Nil /\ run[r].wrote[d].text = disk[d]
      BY <1>6, <2>1 DEF Due
    <2>3. d \notin W => docs[d] # Nil /\ docs[d].text = disk[d]
      BY <1>7, <1>8, <2>1 DEF Handled
    <2> QED  BY <1>2, <2>2, <2>3
  <1> QED  BY <1>8, <1>9, <1>10, <1>11 DEF Settled

\* Only its commit completes a run.
LEMMA OnlyCommitCompletes ==
  ASSUME KbInv, Next, NEW r \in Run, run[r].pc # "done", run'[r].pc = "done"
  PROVE  Commit(r)
  <1> DEFINE Moves(s, new) == run' = [run EXCEPT ![s] = new] /\ new.pc # "done"
  <1>1. ASSUME NEW s \in Run, NEW new, Moves(s, new) PROVE FALSE
    BY <1>1 DEF KbInv, Types
  <1>2. ASSUME NEW s \in Run, Step(s), ~Commit(s) PROVE \E new : Moves(s, new)
    <2>1. run[s] \in RunType /\ NextFile(s).pc = "read"
      BY RunFacts DEF RunType, NextFile
    <2>2. CASE Start(s)
      BY <2>2 DEF Start, Set, Started, RunRecord
    <2>3. CASE Read(s)
      BY <2>1, <2>3 DEF Read, Set, RunType
    <2>4. CASE Select(s)
      BY <2>1, <2>4 DEF Select, Set, RunType
    <2>5. CASE WriteRow(s)
      <3>1. PICK w : Then(s, [run[s] EXCEPT !.wrote = w])
        BY <2>5 DEF WriteRow
      <3> QED  BY <2>1, <3>1 DEF Then, Set, RunType
    <2>9. CASE WriteChunks(s)
      <3>1. Then(s, [run[s] EXCEPT !.cut = @ \cup ChunksOf(Path(s)),
                                   !.put = @ \cup Split(Path(s), run[s].content)])
        BY <2>9 DEF WriteChunks
      <3> QED  BY <2>1, <3>1 DEF Then, Set, RunType
    <2>6. CASE StartPrune(s)
      <3>1. PICK v : run' = [run EXCEPT ![s] = [run[s] EXCEPT !.pc = "prune", !.victims = v]]
        BY <2>6 DEF StartPrune, Set
      <3> QED  BY <2>1, <3>1 DEF RunType
    <2>7. CASE Prune(s)
      BY <2>1, <2>7 DEF Prune, Set, RunType
    <2>8. CASE Raises(s) \/ Dies(s) \/ DeadlockDetected(s)
      BY <2>8, AtRestType DEF Raises, Dies, DeadlockDetected, RollBack, Set
    <2> QED  BY <1>2, <2>2, <2>3, <2>4, <2>5, <2>6, <2>7, <2>8, <2>9 DEF Step
  <1> HIDE DEF Moves
  <1>3. ASSUME NEW s \in Run, Step(s) PROVE Commit(r)
    <2>1. Commit(s)
      BY <1>1, <1>2, <1>3
    <2>2. run' = [run EXCEPT ![s] = AtRest("done")]
      BY <2>1 DEF Commit, Set
    <2>3. s = r
      BY <2>2 DEF KbInv, Types
    <2> QED  BY <2>1, <2>3
  <1>4. ASSUME NEW d \in Doc, Edit(d) PROVE FALSE
    BY <1>4 DEF Edit
  <1>5. ASSUME Rest PROVE FALSE
    BY <1>5 DEF Rest, vars
  <1> QED  BY <1>3, <1>4, <1>5 DEF Next

\* "Idempotent" (kb/indexer.py): a run that nothing changes under leaves in its
\* scope exactly what is on the disk, whatever runs overlapped with it or failed
\* before it, and touches nothing else.
THEOREM FreshRunsSettle == Spec => FreshRunSettles
  <1>1. Init => FreshInv
    BY DEF Init, FreshInv
  <1>2. KbInv /\ KbInv' /\ FreshInv /\ [Next]_vars => FreshInv'
    BY FreshSteps
  <1>3. KbInv /\ FreshInv /\ [Next]_vars =>
          [\A r \in fresh : Completes(r) => \A d \in Doc : Settled(d, run[r].kb, run[r].prune)]_vars
    <2> SUFFICES ASSUME KbInv, FreshInv, Next, NEW r \in fresh, Completes(r), NEW d \in Doc
                 PROVE  Settled(d, run[r].kb, run[r].prune)
      OBVIOUS
    <2>1. r \in Run /\ run[r].pc # "done" /\ run'[r].pc = "done"
      BY DEF FreshInv, Completes
    <2>2. Commit(r)
      BY <2>1, OnlyCommitCompletes
    <2> QED  BY <2>2, Settles
  <1> QED  BY <1>1, <1>2, <1>3, KbInvariant, PTL DEF Spec, FreshRunSettles
=============================================================================
