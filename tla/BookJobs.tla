------------------------------ MODULE BookJobs ------------------------------
(***************************************************************************)
(* The jobs that fill the tables the services read: the vectors of the     *)
(* books (app/jobs/embed_books.py), made batch by batch and taken up again *)
(* after a crash, and the classes of the books (load_book_classes.py),     *)
(* replaced as a whole. The catalogue is replicated from elsewhere and     *)
(* changes meanwhile. A text stands for its hash as well.                  *)
(***************************************************************************)
EXTENDS Integers, Sequences, FiniteSets, Orders

CONSTANTS
  LastBook,          \* the books are 1 .. LastBook
  ScanSize, BatchSize,
  Models,            \* embedding models
  Files,             \* files of classes: [header, lines]; a line: [isbn, class, good]
  SkipPercent,       \* MAX_SKIP_RATIO
  MaxEdits, MaxRuns  \* bounds: changes of the catalogue, starts of each job

ASSUME JobsAssumption ==
  /\ LastBook \in Nat /\ ScanSize \in Nat \ {0} /\ BatchSize \in Nat \ {0}
  /\ SkipPercent \in 0 .. 100 /\ MaxEdits \in Nat /\ MaxRuns \in Nat
  /\ \A f \in Files : f.lines \in Seq({f.lines[i] : i \in DOMAIN f.lines})

Books == 1 .. LastBook

VARIABLES
  text,   \* v_books: what would be embedded of each book; 0: no description
  edits,
  vector, \* book_embeddings: [of, model, sure]; sure: its hash was written with it
  hash,   \* book_embedding_docs.doc_sha1
  hashed, \* the setting embed_doc_hash
  run,    \* the embedding job
  table,  \* book_classes, as it is committed
  load,   \* the job that replaces it
  from    \* history: the file that table is of

embedVars == <<text, edits, vector, hash, hashed, run>>
classVars == <<table, load, from>>
jobsVars == <<embedVars, classVars>>

Empty == [x \in {} |-> 0]

\* at: off, scan, compare, batch, drop, check, ended; model: its setting; last: last_id; books: the
\* rows of the last scan; todo: those to embed; touched: history, the books changed since.
NoRun == [at |-> "off", n |-> 0, model |-> CHOOSE m \in Models : TRUE, last |-> 0,
          books |-> <<>>, todo |-> <<>>, touched |-> {}]

\* Vectors from before the hashes were kept are of a text nobody knows.
EmbedInit ==
  /\ text \in [Books -> 0 .. 1] /\ edits = 0 /\ hash = Empty /\ hashed \in BOOLEAN
  /\ \E old \in SUBSET Books : \E of \in 1 .. 2 :
       vector = [b \in old |-> [of |-> of, model |-> NoRun.model, sure |-> FALSE]]
  /\ run = NoRun

ClassInit ==
  /\ table = Empty /\ from = <<>>
  /\ load = [at |-> "off", n |-> 0, file |-> <<>>, read |-> 0, skipped |-> 0, rows |-> Empty]

-----------------------------------------------------------------------------
(* The catalogue.                                                          *)

\* A book gets another text, or loses or gets its description.
Edit(b) ==
  /\ edits < MaxEdits /\ edits' = edits + 1
  /\ \E new \in 0 .. 2 : new # text[b] /\ text' = [text EXCEPT ![b] = new]
  /\ run' = [run EXCEPT !.touched = @ \cup {b}]
  /\ UNCHANGED <<vector, hash, hashed, classVars>>

-----------------------------------------------------------------------------
(* embed_books.run.                                                        *)

AtWork == run.at \notin {"off", "ended"}
Has(f, b) == b \in DOMAIN f

StartRun(model) ==
  /\ ~AtWork /\ run.n < MaxRuns
  /\ run' = [NoRun EXCEPT !.at = "scan", !.n = run.n + 1, !.model = model]
  /\ UNCHANGED <<text, edits, vector, hash, hashed, classVars>>

\* _SCAN: the next books with a description, as they are now; the end if there is none.
Scan ==
  LET next == {b \in Books : b > run.last /\ text[b] # 0}
      row == Take(Ordered(next, LAMBDA b : <<b>>), ScanSize)
  IN /\ run.at = "scan"
     /\ run' = IF next = {} THEN [run EXCEPT !.at = IF hashed THEN "drop" ELSE "ended"]
               ELSE [run EXCEPT !.at = "compare",
                       !.books = [i \in 1 .. Len(row) |-> [id |-> row[i], text |-> text[row[i]]]]]
     /\ UNCHANGED <<text, edits, vector, hash, hashed, classVars>>

Done(b) == Has(vector, b) /\ vector[b].model = run.model

\* _DONE, or _DONE_HASH and _split_by_hash.
Todo(book) == ~Done(book.id) \/ (hashed /\ Has(hash, book.id) /\ hash[book.id] # book.text)

\* _FILL_HASH: a vector of an unknown text counts as one of the present text.
Compare ==
  LET fill == {i \in DOMAIN run.books :
                 hashed /\ Done(run.books[i].id) /\ ~Has(hash, run.books[i].id)}
      ids == {run.books[i].id : i \in fill}
  IN /\ run.at = "compare"
     /\ hash' = [b \in DOMAIN hash \cup ids |->
                   IF Has(hash, b) THEN hash[b]
                   ELSE run.books[CHOOSE i \in fill : run.books[i].id = b].text]
     /\ run' = [run EXCEPT !.at = "batch", !.todo = Only(run.books, {book \in ToSet(run.books) : Todo(book)}),
                           !.last = run.books[Len(run.books)].id]
     /\ UNCHANGED <<text, edits, vector, hashed, classVars>>

\* Mutant: the hash of the text that the book has by now.
HashedNow(book) == text[book.id]

\* The hash that goes with a vector: of the text that it was made of.
Hashed(book) == book.text

\* embed_batch: vectors and hashes in one transaction, after the model has answered.
Batch ==
  LET batch == Take(run.todo, BatchSize)
      ids == {batch[i].id : i \in DOMAIN batch}
      the(b) == batch[CHOOSE i \in DOMAIN batch : batch[i].id = b]
  IN /\ run.at = "batch"
     /\ vector' = [b \in DOMAIN vector \cup ids |->
          IF b \in ids THEN [of |-> the(b).text, model |-> run.model, sure |-> hashed] ELSE vector[b]]
     /\ hash' = IF ~hashed THEN hash
                ELSE [b \in DOMAIN hash \cup ids |-> IF b \in ids THEN Hashed(the(b)) ELSE hash[b]]
     /\ run' = [run EXCEPT !.todo = SubSeq(@, Len(batch) + 1, Len(@)),
                           !.at = IF Len(batch) = Len(run.todo) THEN "scan" ELSE "batch"]
     /\ UNCHANGED <<text, edits, hashed, classVars>>

\* _DROP_NO_DESCRIPTION; a foreign key takes the hashes along.
Drop ==
  LET kept == {b \in DOMAIN vector : text[b] # 0}
  IN /\ run.at = "drop"
     /\ vector' = [b \in kept |-> vector[b]] /\ hash' = [b \in kept \cap DOMAIN hash |-> hash[b]]
     /\ run' = [run EXCEPT !.at = "check"]
     /\ UNCHANGED <<text, edits, hashed, classVars>>

\* _MISSING: a book that has a description by now and no vector with a hash is an error.
Missing == {b \in Books : text[b] # 0 /\ ~(Done(b) /\ Has(hash, b))}
Check ==
  /\ run.at = "check"
  /\ run' = IF Missing = {} THEN [run EXCEPT !.at = "ended"] ELSE [NoRun EXCEPT !.n = run.n]
  /\ UNCHANGED <<text, edits, vector, hash, hashed, classVars>>

\* The process is killed, or the model or the database fails: what is committed stays.
RunDies ==
  /\ AtWork /\ run' = [NoRun EXCEPT !.n = run.n]
  /\ UNCHANGED <<text, edits, vector, hash, hashed, classVars>>

EmbedNext == \/ \E b \in Books : Edit(b)
             \/ \E model \in Models : StartRun(model)
             \/ Scan \/ Compare \/ Batch \/ Drop \/ Check \/ RunDies

-----------------------------------------------------------------------------
(* load_book_classes.replace.                                              *)

\* Mutant: the table is emptied before the transaction.
EmptiedAtOnce == Empty

\* What others see while the file is read: the rows as they were (they wait for the lock).
WhileLoading == table

\* A file with another header is refused before anything is read.
StartLoad(file) ==
  /\ load.at = "off" /\ load.n < MaxRuns
  /\ load' = IF file.header
             THEN [at |-> "copy", n |-> load.n + 1, file |-> file.lines, read |-> 0, skipped |-> 0, rows |-> Empty]
             ELSE [load EXCEPT !.n = @ + 1]
  /\ table' = IF file.header THEN WhileLoading ELSE table
  /\ UNCHANGED <<embedVars, from>>

\* iter_rows: a line with a wrong field, or with an ISBN that was there before, is skipped.
CopyLine ==
  LET line == load.file[load.read + 1]
      skip == ~line.good \/ Has(load.rows, line.isbn)
  IN /\ load.at = "copy" /\ load.read < Len(load.file)
     /\ load' = [load EXCEPT !.read = @ + 1, !.skipped = @ + (IF skip THEN 1 ELSE 0),
          !.rows = IF skip THEN @
                   ELSE [k \in DOMAIN @ \cup {line.isbn} |-> IF k = line.isbn THEN line.class ELSE @[k]]]
     /\ UNCHANGED <<embedVars, table, from>>

\* check.
Refused == load.read = load.skipped \/ load.skipped * 100 > load.read * SkipPercent

Commit ==
  /\ load.at = "copy" /\ load.read = Len(load.file)
  /\ load' = [load EXCEPT !.at = "off", !.file = <<>>, !.rows = Empty]
  /\ table' = IF Refused THEN table ELSE load.rows
  /\ from' = IF Refused THEN from ELSE load.file
  /\ UNCHANGED embedVars

LoadDies ==
  /\ load.at = "copy" /\ load' = [load EXCEPT !.at = "off", !.file = <<>>, !.rows = Empty]
  /\ UNCHANGED <<embedVars, table, from>>

ClassNext == (\E file \in Files : StartLoad(file)) \/ CopyLine \/ Commit \/ LoadDies

\* The jobs run side by side.
JobsSpec == EmbedInit /\ ClassInit /\ [][EmbedNext \/ ClassNext]_jobsVars

-----------------------------------------------------------------------------
(* Properties.                                                             *)

\* A job that ends well, after any number of runs that did not, leaves no book behind: each
\* with a description that did not change meanwhile has a vector of this model, and with
\* hashes kept one of its present text, and none without a description can be found by one
\* (embed_books.py:7-11). A hash never speaks for another text than its vector's.
EmbedResumes ==
  /\ \A b \in DOMAIN hash : hashed /\ Has(vector, b) /\ (vector[b].sure => hash[b] = vector[b].of)
  /\ run.at = "ended" => \A b \in Books \ run.touched :
       /\ text[b] # 0 => Done(b) /\ (vector[b].sure => vector[b].of = text[b])
       /\ hashed => (text[b] # 0) = Has(vector, b) /\ (Has(vector, b) => hash[b] = text[b])

\* Whoever reads the classes sees one whole file: of every ISBN its first good line and
\* nothing else, and no file of which more was skipped than may be, whatever files were
\* refused and whatever loads died since (load_book_classes.py:13-16).
ClassesWhole ==
  LET firstGood(k) == {i \in DOMAIN from : from[i].isbn = k /\ from[i].good} IN
  /\ DOMAIN table = {from[i].isbn : i \in {j \in DOMAIN from : from[j].good}}
  /\ \A k \in DOMAIN table : \E i \in firstGood(k) :
       table[k] = from[i].class /\ \A j \in firstGood(k) : i <= j
  /\ from # <<>> => /\ table # Empty
                    /\ (Len(from) - Cardinality(DOMAIN table)) * 100 <= Len(from) * SkipPercent
=============================================================================
