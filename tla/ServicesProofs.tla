--------------------------- MODULE ServicesProofs ---------------------------
(***************************************************************************)
(* Proofs about the services beside the turns: how an answer is carried    *)
(* (ChatDelivery), the way to the models (Gateway) and the jobs that fill  *)
(* the tables (BookJobs), for every number of requests and callers, every  *)
(* limit of time and every file.                                           *)
(***************************************************************************)
EXTENDS Gateway, ChatDelivery, BookJobs, SequenceFacts, SequenceTheorems, FiniteSetTheorems, TLAPS
-----------------------------------------------------------------------------
(* The classes of the books.                                               *)

\* What the first n lines of a file come to: of every ISBN its first good line.
RowsOf(lines, n, rows) ==
  /\ DOMAIN rows = {lines[i].isbn : i \in {j \in 1 .. n : lines[j].good}}
  /\ \A k \in DOMAIN rows : \E i \in 1 .. n :
       /\ lines[i].isbn = k /\ lines[i].good /\ rows[k] = lines[i].class
       /\ \A j \in 1 .. n : lines[j].isbn = k /\ lines[j].good => i <= j

FileLines == UNION {{f.lines[i] : i \in DOMAIN f.lines} : f \in Files}

\* A load that reads has what its lines so far come to, and has counted the
\* others; the table is of a file that was not refused.
LoadShape ==
  /\ load = [at |-> load.at, n |-> load.n, file |-> load.file, read |-> load.read,
             skipped |-> load.skipped, rows |-> load.rows]
  /\ load.at \in {"off", "copy"} /\ load.file \in Seq(FileLines)
  /\ load.read \in Nat /\ load.skipped \in Nat

Reading ==
  load.at = "copy" =>
    /\ load.read <= Len(load.file)
    /\ RowsOf(load.file, load.read, load.rows)
    /\ IsFiniteSet(DOMAIN load.rows)
    /\ Cardinality(DOMAIN load.rows) = load.read - load.skipped

\* ClassesWhole of any table and file.
WholeFile(t, f) ==
  LET firstGood(k) == {i \in DOMAIN f : f[i].isbn = k /\ f[i].good} IN
  /\ DOMAIN t = {f[i].isbn : i \in {j \in DOMAIN f : f[j].good}}
  /\ \A k \in DOMAIN t : \E i \in firstGood(k) :
       t[k] = f[i].class /\ \A j \in firstGood(k) : i <= j
  /\ f # <<>> => /\ t # Empty
                 /\ (Len(f) - Cardinality(DOMAIN t)) * 100 <= Len(f) * SkipPercent

ClassInv == LoadShape /\ Reading /\ from \in Seq(FileLines) /\ WholeFile(table, from)

LEMMA FilesRead ==
  ASSUME NEW f \in Files
  PROVE  f.lines \in Seq(FileLines)
<1>1. f.lines \in Seq({f.lines[i] : i \in DOMAIN f.lines})
  BY JobsAssumption
<1>2. {f.lines[i] : i \in DOMAIN f.lines} \subseteq FileLines
  BY DEF FileLines
<1> DEFINE S == {f.lines[i] : i \in DOMAIN f.lines}
<1> HIDE DEF S
<1>3. f.lines \in Seq(S) /\ S \subseteq FileLines
  BY <1>1, <1>2 DEF S
<1> QED BY <1>3

LEMMA ClassInvInit ==
  ASSUME ClassInit
  PROVE  ClassInv
<1>1. DOMAIN Empty = {}
  BY DEF Empty
<1>2. LoadShape
  BY DEF ClassInit, LoadShape
<1>3. Reading
  BY DEF ClassInit, Reading
<1>4. WholeFile(table, from)
  <2>1. table = Empty /\ from = <<>> /\ DOMAIN from = {}
    BY DEF ClassInit
  <2> QED BY <1>1, <2>1 DEF WholeFile
<1>5. from \in Seq(FileLines)
  BY DEF ClassInit
<1> QED BY <1>2, <1>3, <1>4, <1>5 DEF ClassInv

\* One line more.
LEMMA CopyLineInv ==
  ASSUME ClassInv, CopyLine
  PROVE  Reading'
<1> DEFINE line == load.file[load.read + 1]
           skip == ~ line.good \/ Has(load.rows, line.isbn)
           n == load.read
<1>1. /\ load.at = "copy" /\ n < Len(load.file) /\ n \in Nat /\ load.skipped \in Nat
      /\ Len(load.file) \in Nat
      /\ RowsOf(load.file, n, load.rows) /\ IsFiniteSet(DOMAIN load.rows)
      /\ Cardinality(DOMAIN load.rows) = n - load.skipped
  BY DEF ClassInv, LoadShape, Reading, CopyLine
<1>2. /\ load'.at = "copy" /\ load'.file = load.file /\ load'.read = n + 1
      /\ load'.skipped = load.skipped + (IF skip THEN 1 ELSE 0)
      /\ load'.rows = IF skip THEN load.rows
                      ELSE [k \in DOMAIN load.rows \cup {line.isbn} |->
                              IF k = line.isbn THEN line.class ELSE load.rows[k]]
  BY DEF ClassInv, LoadShape, CopyLine
<1>3. PICK f, rows, m : f = load.file /\ m = n /\ rows = load.rows
  OBVIOUS
<1> m \in Nat
  BY <1>1, <1>3
<1>4. DOMAIN rows = {f[i].isbn : i \in {j \in 1 .. m : f[j].good}}
  BY <1>1, <1>3 DEF RowsOf
<1>5. \A k \in DOMAIN rows : \E i \in 1 .. m :
        /\ f[i].isbn = k /\ f[i].good /\ rows[k] = f[i].class
        /\ \A j \in 1 .. m : f[j].isbn = k /\ f[j].good => i <= j
  BY <1>1, <1>3 DEF RowsOf
<1>6. line = f[m + 1] /\ (Has(load.rows, line.isbn) <=> f[m + 1].isbn \in DOMAIN rows)
  BY <1>3 DEF Has
<1> HIDE DEF line, n
<1>7. CASE skip
  <2>1. ~ f[m + 1].good \/ f[m + 1].isbn \in DOMAIN rows
    BY <1>6, <1>7
  <2>2. RowsOf(f, m + 1, rows)
    <3>1. {f[i].isbn : i \in {j \in 1 .. m + 1 : f[j].good}}
            = {f[i].isbn : i \in {j \in 1 .. m : f[j].good}}
      BY <1>4, <2>1
    <3>2. ASSUME NEW k \in DOMAIN rows
          PROVE \E i \in 1 .. m + 1 :
                  /\ f[i].isbn = k /\ f[i].good /\ rows[k] = f[i].class
                  /\ \A j \in 1 .. m + 1 : f[j].isbn = k /\ f[j].good => i <= j
      <4>1. PICK i \in 1 .. m :
              /\ f[i].isbn = k /\ f[i].good /\ rows[k] = f[i].class
              /\ \A j \in 1 .. m : f[j].isbn = k /\ f[j].good => i <= j
        BY <1>5
      <4>2. \A j \in 1 .. m + 1 : f[j].isbn = k /\ f[j].good => i <= j
        BY <4>1
      <4> QED BY <4>1, <4>2
    <3> QED BY <1>4, <3>1, <3>2 DEF RowsOf
  <2>3. load'.rows = load.rows /\ load'.skipped = load.skipped + 1
    BY <1>2, <1>7
  <2> HIDE DEF skip
  <2>4. RowsOf(load'.file, load'.read, load'.rows)
    BY <1>2, <1>3, <2>2, <2>3
  <2> QED BY <1>1, <1>2, <2>3, <2>4 DEF Reading
<1>8. CASE ~ skip
  <2> DEFINE key == f[m + 1].isbn
             new == [k \in DOMAIN rows \cup {key} |-> IF k = key THEN f[m + 1].class ELSE rows[k]]
  <2>1. f[m + 1].good /\ key \notin DOMAIN rows
    BY <1>6, <1>8
  <2>2. load'.rows = new /\ load'.skipped = load.skipped
    BY <1>2, <1>3, <1>6, <1>8, <1>1
  <2>3. DOMAIN new = DOMAIN rows \cup {key}
    OBVIOUS
  <2>4. RowsOf(f, m + 1, new)
    <3>1. DOMAIN new = {f[i].isbn : i \in {j \in 1 .. m + 1 : f[j].good}}
      <4>1. {f[i].isbn : i \in {j \in 1 .. m + 1 : f[j].good}}
              = {f[i].isbn : i \in {j \in 1 .. m : f[j].good}} \cup {key}
        BY <2>1
      <4> QED BY <1>4, <2>3, <4>1
    <3>2. ASSUME NEW k \in DOMAIN new
          PROVE \E i \in 1 .. m + 1 :
                  /\ f[i].isbn = k /\ f[i].good /\ new[k] = f[i].class
                  /\ \A j \in 1 .. m + 1 : f[j].isbn = k /\ f[j].good => i <= j
      <4>1. CASE k = key
        <5>1. ASSUME NEW j \in 1 .. m, f[j].isbn = key, f[j].good PROVE FALSE
          BY <1>4, <2>1, <5>1
        <5>2. \A j \in 1 .. m + 1 : f[j].isbn = k /\ f[j].good => m + 1 <= j
          BY <4>1, <5>1
        <5>3. m + 1 \in 1 .. m + 1 /\ new[k] = f[m + 1].class
          BY <4>1
        <5> QED BY <2>1, <4>1, <5>2, <5>3
      <4>2. CASE k # key
        <5>1. k \in DOMAIN rows /\ new[k] = rows[k]
          BY <4>2
        <5>2. PICK i \in 1 .. m :
                /\ f[i].isbn = k /\ f[i].good /\ rows[k] = f[i].class
                /\ \A j \in 1 .. m : f[j].isbn = k /\ f[j].good => i <= j
          BY <1>5, <5>1
        <5>3. \A j \in 1 .. m + 1 : f[j].isbn = k /\ f[j].good => i <= j
          BY <4>2, <5>2
        <5> QED BY <5>1, <5>2, <5>3
      <4> QED BY <4>1, <4>2
    <3> HIDE DEF new
    <3> QED BY <3>1, <3>2 DEF RowsOf
  <2>5. IsFiniteSet(DOMAIN new) /\ Cardinality(DOMAIN new) = Cardinality(DOMAIN rows) + 1
    BY <1>1, <1>3, <2>1, <2>3, FS_AddElement
  <2> HIDE DEF new, skip
  <2>6. RowsOf(load'.file, load'.read, load'.rows)
    BY <1>2, <1>3, <2>2, <2>4
  <2> QED BY <1>1, <1>2, <1>3, <2>2, <2>5, <2>6 DEF Reading
<1> QED BY <1>7, <1>8

\* A load that is committed was not refused and has what its file comes to.
LEMMA CommitWhole ==
  ASSUME ClassInv, Commit
  PROVE  WholeFile(table, from)' /\ from' \in Seq(FileLines)
<1>1. CASE Refused
  BY <1>1 DEF Commit, ClassInv
<1>2. CASE ~ Refused
  <2>1. /\ table' = load.rows /\ from' = load.file
        /\ load.read = Len(load.file) /\ load.read \in Nat /\ load.skipped \in Nat
        /\ load.file \in Seq(FileLines)
        /\ RowsOf(load.file, load.read, load.rows)
        /\ Cardinality(DOMAIN load.rows) = load.read - load.skipped
        /\ load.read # load.skipped /\ ~ (load.skipped * 100 > load.read * SkipPercent)
    BY <1>2 DEF Commit, Refused, ClassInv, LoadShape, Reading
  <2>r. PICK rows : rows = load.rows
    OBVIOUS
  <2>2. PICK f \in Seq(FileLines), m \in Nat, s \in Nat :
          f = load.file /\ m = load.read /\ s = load.skipped
    BY <2>1
  <2>3. /\ DOMAIN f = 1 .. m /\ Len(f) = m /\ RowsOf(f, m, rows)
        /\ Cardinality(DOMAIN rows) = m - s /\ m # s /\ ~ (s * 100 > m * SkipPercent)
    BY <2>r, <2>1, <2>2
  <2>4. DOMAIN rows # {}
    <3>1. Cardinality(DOMAIN rows) # 0
      BY <2>3
    <3> QED BY <3>1, FS_EmptySet
  <2>5. rows # Empty
    BY <2>4 DEF Empty
  <2>6. (Len(f) - Cardinality(DOMAIN rows)) * 100 <= Len(f) * SkipPercent
    <3>1. Len(f) - Cardinality(DOMAIN rows) = s
      BY <2>3
    <3>2. s * 100 \in Int /\ m * SkipPercent \in Int
      BY JobsAssumption
    <3> QED BY <2>3, <3>1, <3>2
  <2>7. /\ DOMAIN rows = {f[i].isbn : i \in {j \in DOMAIN f : f[j].good}}
        /\ \A k \in DOMAIN rows : \E i \in {j \in DOMAIN f : f[j].isbn = k /\ f[j].good} :
             rows[k] = f[i].class /\ \A j \in {h \in DOMAIN f : f[h].isbn = k /\ f[h].good} : i <= j
    BY <2>3 DEF RowsOf
  <2>8. table' = rows /\ from' = f
    BY <2>r, <2>1, <2>2
  <2> QED BY <2>5, <2>6, <2>7, <2>8 DEF WholeFile
<1> QED BY <1>1, <1>2

LEMMA ClassInvNext ==
  ASSUME ClassInv, [EmbedNext \/ ClassNext]_jobsVars
  PROVE  ClassInv'
<1>1. CASE UNCHANGED classVars
  <2>1. load' = load /\ table' = table /\ from' = from
    BY <1>1 DEF classVars
  <2>2. LoadShape'
    BY <2>1 DEF ClassInv, LoadShape
  <2>3. Reading'
    BY <2>1 DEF ClassInv, Reading
  <2> QED BY <2>1, <2>2, <2>3 DEF ClassInv
<1>2. ASSUME NEW file \in Files, StartLoad(file)
      PROVE  ClassInv'
  <2>1. table' = table /\ from' = from
    BY <1>2 DEF StartLoad, WhileLoading
  <2>2. WholeFile(table, from)' /\ from' \in Seq(FileLines)
    BY <2>1 DEF ClassInv
  <2>3. CASE file.header
    <3>1. load' = [at |-> "copy", n |-> load.n + 1, file |-> file.lines, read |-> 0,
                   skipped |-> 0, rows |-> Empty]
      BY <1>2, <2>3 DEF StartLoad
    <3>2. LoadShape'
      BY <3>1, FilesRead DEF LoadShape
    <3>3. DOMAIN Empty = {} /\ RowsOf(file.lines, 0, Empty)
      BY DEF Empty, RowsOf
    <3>4. Reading'
      <4>1. file.lines \in Seq(FileLines)
        BY FilesRead
      <4>2. /\ load'.at = "copy" /\ load'.file = file.lines /\ load'.read = 0 /\ load'.skipped = 0
            /\ load'.rows = Empty
        BY <3>1
      <4>3. IsFiniteSet(DOMAIN load'.rows) /\ Cardinality(DOMAIN load'.rows) = 0
        BY <3>3, <4>2, FS_EmptySet
      <4>4. RowsOf(load'.file, load'.read, load'.rows)
        BY <3>3, <4>2
      <4>5. load'.read <= Len(load'.file) /\ load'.read - load'.skipped = 0
        BY <4>1, <4>2
      <4> QED BY <4>3, <4>4, <4>5 DEF Reading, RowsOf
    <3> QED BY <2>2, <3>2, <3>4 DEF ClassInv
  <2>4. CASE ~ file.header
    <3>1. load' = [load EXCEPT !.n = @ + 1] /\ load.at = "off"
      BY <1>2, <2>4 DEF StartLoad
    <3>2. LoadShape' /\ load'.at = "off"
      BY <3>1 DEF ClassInv, LoadShape
    <3> QED BY <2>2, <3>2 DEF ClassInv, Reading
  <2> QED BY <2>3, <2>4
<1>3. CASE CopyLine
  <2>1. LoadShape'
    <3>r. PICK rows : rows = load'.rows
      OBVIOUS
    <3>1. PICK k \in {0, 1} :
            load' = [load EXCEPT !.read = @ + 1, !.skipped = @ + k, !.rows = rows]
      <4>1. load = [at |-> load.at, n |-> load.n, file |-> load.file, read |-> load.read,
                    skipped |-> load.skipped, rows |-> load.rows]
        BY DEF ClassInv, LoadShape
      <4> QED BY <1>3, <3>r, <4>1 DEF CopyLine
    <3>2. /\ load = [at |-> load.at, n |-> load.n, file |-> load.file, read |-> load.read,
                     skipped |-> load.skipped, rows |-> load.rows]
          /\ load.at \in {"off", "copy"} /\ load.file \in Seq(FileLines)
          /\ load.read + 1 \in Nat /\ load.skipped + k \in Nat
      BY DEF ClassInv, LoadShape
    <3>3. load' = [at |-> load.at, n |-> load.n, file |-> load.file, read |-> load.read + 1,
                   skipped |-> load.skipped + k, rows |-> rows]
      BY <3>1, <3>2
    <3> QED BY <3>2, <3>3 DEF LoadShape
  <2>2. WholeFile(table, from)' /\ from' \in Seq(FileLines)
    BY <1>3 DEF CopyLine, ClassInv
  <2> QED BY <1>3, <2>1, <2>2, CopyLineInv DEF ClassInv
<1>4. CASE Commit \/ LoadDies
  <2>1. load' = [load EXCEPT !.at = "off", !.file = <<>>, !.rows = Empty]
    BY <1>4 DEF Commit, LoadDies
  <2>2. LoadShape' /\ load'.at = "off"
    <3>1. <<>> \in Seq(FileLines)
      OBVIOUS
    <3> QED BY <2>1, <3>1 DEF ClassInv, LoadShape
  <2>3. CASE Commit
    BY <2>2, <2>3, CommitWhole DEF ClassInv, Reading
  <2>4. CASE LoadDies
    BY <2>2, <2>4 DEF LoadDies, ClassInv, Reading
  <2> QED BY <1>4, <2>3, <2>4
<1>5. EmbedNext => UNCHANGED classVars
  BY DEF EmbedNext, Edit, StartRun, Scan, Compare, Batch, Drop, Check, RunDies, classVars
<1> QED BY <1>1, <1>2, <1>3, <1>4, <1>5 DEF ClassNext, jobsVars

\* Whoever reads the classes of the books sees one whole file, whatever files
\* were refused and whatever loads died (load_book_classes.replace, check).
THEOREM TableIsOneFile == JobsSpec => []ClassesWhole
<1>1. ClassInv => ClassesWhole
  BY DEF ClassInv, WholeFile, ClassesWhole
<1> QED BY <1>1, ClassInvInit, ClassInvNext, PTL DEF JobsSpec

-----------------------------------------------------------------------------
(* The limit of time.                                                      *)

Waiting == {"own", "api", "stream"}
Loading == {"load", "wait", "build", "encode"}
CallResults == {"failed", "timeout", "broken", "good"}

RequestShape(r) ==
  /\ r = [at |-> r.at, kind |-> r.kind, since |-> r.since, from |-> r.from, talk |-> r.talk,
          heard |-> r.heard, tries |-> r.tries, found |-> r.found, code |-> r.code,
          took |-> r.took]
  /\ r.at \in {"idle", "done"} \cup Waiting \cup Loading
  /\ r.since \in Nat /\ r.from \in Nat /\ r.tries \in Seq(CallResults)

\* Which model is asked, since when, and what was tried before.
RequestAsks(r, now, own) ==
  /\ r.at = "own" => r.kind = "extract" /\ own /\ r.tries = <<>> /\ r.from = r.since
  /\ r.at = "api" =>
       \/ /\ r.tries = <<>> /\ r.from = r.since
          /\ r.kind = "invoke" \/ (r.kind = "extract" /\ ~own)
       \/ /\ r.kind = "extract" /\ own
          /\ Len(r.tries) = 1 /\ r.tries[1] \in {"failed", "timeout"}
  /\ r.at = "stream" => r.kind = "stream" /\ r.tries = <<>>
  /\ r.at \in Waiting => r.since <= r.from /\ r.from <= now /\ now <= r.since + Limit
  /\ r.at = "idle" => r.tries = <<>>
  /\ r.at \in Loading => r.tries = <<>> \/ r.tries[Len(r.tries)] = "good"

\* The last that was tried ran out of time.
OutOfTime(r) == Len(r.tries) > 0 /\ r.tries[Len(r.tries)] = "timeout"

\* An end that says of the time what is so.
EndsRightly(r, code) == (code = 504 <=> OutOfTime(r)) /\ (code = 504 => clock - r.since = Limit)

\* What was tried in all, and how it ended.
RequestEnds(r, own) ==
  /\ Len(r.tries) <= 2
  /\ Len(r.tries) = 2 => r.tries[1] \in {"failed", "timeout"} /\ r.kind = "extract" /\ own
  /\ r.at = "done" => (r.code = 504 <=> OutOfTime(r))
  /\ r.code = 504 => r.took = Limit
  /\ r.at # "done" => r.code = 0

RequestOK(r, now, own) == RequestShape(r) /\ RequestAsks(r, now, own) /\ RequestEnds(r, own)

TimeInv ==
  /\ clock \in Nat
  /\ call = [c \in Callers |-> call[c]]
  /\ \A c \in Callers : RequestOK(call[c], clock, ownServer)

LEMMA OneRequest ==
  ASSUME TimeInv, NEW c \in Callers, NEW r, RequestOK(r, clock, ownServer), Becomes(c, r),
         UNCHANGED <<clock, ownServer>>
  PROVE  TimeInv'
<1>1. call' = [call EXCEPT ![c] = r] /\ clock \in Nat /\ call = [d \in Callers |-> call[d]]
  BY DEF Becomes, TimeInv
<1>2. call' = [d \in Callers |-> call'[d]] /\ \A d \in Callers : call'[d] = IF d = c THEN r ELSE call[d]
  BY <1>1
<1>3. \A d \in Callers : RequestOK(call[d], clock, ownServer)
  BY DEF TimeInv
<1>4. \A d \in Callers : RequestOK(call'[d], clock, ownServer)
  BY <1>2, <1>3
<1> QED BY <1>1, <1>2, <1>4 DEF TimeInv

\* What a request that is not over has tried does not depend on where it is.
LEMMA EndsAsBefore ==
  ASSUME NEW r, NEW new, NEW own, RequestEnds(r, own), r.at # "done", new.at # "done",
         new.tries = r.tries, new.kind = r.kind, new.code = r.code, new.took = r.took
  PROVE  RequestEnds(new, own)
BY DEF RequestEnds

Fields(r) ==
  r = [at |-> r.at, kind |-> r.kind, since |-> r.since, from |-> r.from, talk |-> r.talk,
       heard |-> r.heard, tries |-> r.tries, found |-> r.found, code |-> r.code, took |-> r.took]

LEMMA FinishIs ==
  ASSUME NEW r, Fields(r), NEW code, NEW took, took = clock - r.since
  PROVE  Finish(r, code)
           = [at |-> "done", kind |-> r.kind, since |-> 0, from |-> 0, talk |-> r.talk,
              heard |-> r.heard, tries |-> r.tries, found |-> r.found, code |-> code,
              took |-> took]
<1> DEFINE ended(at, num, tk, since, begun) ==
      [at |-> at, kind |-> r.kind, since |-> since, from |-> begun, talk |-> r.talk,
       heard |-> r.heard, tries |-> r.tries, found |-> r.found, code |-> num, took |-> tk]
<1>1. r = ended(r.at, r.code, r.took, r.since, r.from)
  BY DEF Fields
<1>2. PICK a : a = [r EXCEPT !.at = "done"]
  OBVIOUS
<1>3. a = ended("done", r.code, r.took, r.since, r.from)
  BY <1>1, <1>2
<1>4. PICK b : b = [a EXCEPT !.code = code]
  OBVIOUS
<1>5. b = ended("done", code, r.took, r.since, r.from)
  BY <1>3, <1>4
<1>6. PICK d : d = [b EXCEPT !.took = took]
  OBVIOUS
<1>7. d = ended("done", code, took, r.since, r.from)
  BY <1>5, <1>6
<1>8. PICK e : e = [d EXCEPT !.since = 0]
  OBVIOUS
<1>9. e = ended("done", code, took, 0, r.from)
  BY <1>7, <1>8
<1>10. Finish(r, code) = [e EXCEPT !.from = 0]
  BY <1>2, <1>4, <1>6, <1>8 DEF Finish
<1> QED BY <1>9, <1>10

\* A request that ends without an answer of a model, or with vectors or without.
LEMMA FinishOK ==
  ASSUME NEW r, RequestShape(r), NEW code, RequestEnds(r, ownServer), EndsRightly(r, code)
  PROVE  /\ RequestOK(Finish(r, code), clock, ownServer)
         /\ RequestOK([Finish(r, code) EXCEPT !.found = <<>>], clock, ownServer)
<1> PICK took : took = clock - r.since
  OBVIOUS
<1>1. Finish(r, code) = [at |-> "done", kind |-> r.kind, since |-> 0, from |-> 0, talk |-> r.talk,
          heard |-> r.heard, tries |-> r.tries, found |-> r.found, code |-> code,
          took |-> took]
  <2>1. Fields(r)
    BY DEF RequestShape, Fields
  <2> QED BY <2>1, FinishIs
<1>2. PICK f : f = Finish(r, code)
  OBVIOUS
<1>3. RequestShape(f) /\ f.at = "done" /\ f.tries = r.tries /\ f.kind = r.kind /\ f.code = code
      /\ f.took = took
  BY <1>1, <1>2 DEF RequestShape
<1>4. PICK g : g = [f EXCEPT !.found = <<>>]
  OBVIOUS
<1>5. RequestShape(g) /\ g.at = "done" /\ g.tries = r.tries /\ g.kind = r.kind /\ g.code = code
      /\ g.took = took
  <2>1. g = [at |-> "done", kind |-> r.kind, since |-> 0, from |-> 0, talk |-> r.talk,
             heard |-> r.heard, tries |-> r.tries, found |-> <<>>, code |-> code,
             took |-> took]
    BY <1>1, <1>2, <1>4
  <2> QED BY <2>1 DEF RequestShape
<1>6. RequestAsks(f, clock, ownServer) /\ RequestAsks(g, clock, ownServer)
  BY <1>3, <1>5 DEF RequestAsks, Waiting, Loading
<1>7. RequestEnds(f, ownServer) /\ RequestEnds(g, ownServer)
  <2>1. OutOfTime(f) = OutOfTime(r) /\ OutOfTime(g) = OutOfTime(r)
    BY <1>3, <1>5 DEF OutOfTime
  <2>2. (code = 504 <=> OutOfTime(r)) /\ (code = 504 => took = Limit)
    BY DEF EndsRightly
  <2> QED BY <1>3, <1>5, <2>1, <2>2 DEF RequestEnds
<1> QED BY <1>2, <1>3, <1>4, <1>5, <1>6, <1>7 DEF RequestOK

\* What one more result of a call makes of a request that waits for it.
OneMore(r, new, why) ==
  /\ new.at = r.at /\ new.since = r.since /\ new.from = r.from /\ new.kind = r.kind
  /\ new.code = 0 /\ new.took = r.took /\ new.tries = Append(r.tries, why)
  /\ Len(new.tries) = Len(r.tries) + 1 /\ new.tries[Len(new.tries)] = why

LEMMA OneResult ==
  ASSUME NEW r, NEW now, NEW own, RequestOK(r, now, own), r.at \in Waiting,
         NEW why \in CallResults, NEW new, new = [r EXCEPT !.tries = Append(@, why)]
  PROVE  RequestShape(new) /\ OneMore(r, new, why) /\ RequestEnds(new, own)
<1>1. RequestShape(r) /\ RequestAsks(r, now, own) /\ RequestEnds(r, own)
  BY DEF RequestOK
<1>2. Append(r.tries, why) \in Seq(CallResults)
  BY <1>1 DEF RequestShape
<1>3. new = [at |-> r.at, kind |-> r.kind, since |-> r.since, from |-> r.from, talk |-> r.talk,
             heard |-> r.heard, tries |-> Append(r.tries, why), found |-> r.found,
             code |-> r.code, took |-> r.took]
  BY <1>1 DEF RequestShape
<1>4. RequestShape(new)
  BY <1>1, <1>2, <1>3 DEF RequestShape
<1>5. r.code = 0
  BY <1>1 DEF RequestEnds, Waiting
<1>6. /\ r.tries \in Seq(CallResults) /\ new.tries = Append(r.tries, why)
      /\ Len(new.tries) = Len(r.tries) + 1 /\ new.tries[Len(new.tries)] = why
  BY <1>1, <1>3 DEF RequestShape
<1>7. RequestEnds(new, own)
  <2>1. r.tries = <<>> \/ (/\ r.kind = "extract" /\ own
                           /\ Len(r.tries) = 1 /\ r.tries[1] \in {"failed", "timeout"})
    BY <1>1 DEF RequestAsks, Waiting
  <2>2. r.tries = <<>> => Len(new.tries) = 1
    BY <1>6
  <2>3. Len(r.tries) = 1 => Len(new.tries) = 2 /\ new.tries[1] = r.tries[1]
    BY <1>6
  <2>4. new.at # "done" /\ new.code = 0 /\ new.kind = r.kind
    BY <1>3, <1>5 DEF Waiting
  <2> QED BY <2>1, <2>2, <2>3, <2>4 DEF RequestEnds
<1> QED BY <1>3, <1>4, <1>5, <1>6, <1>7 DEF OneMore

LEMMA StartTime ==
  ASSUME TimeInv, NEW c \in Callers, NEW kind \in Does[c], NEW talk, NEW consented \in BOOLEAN,
         kind # "extract" => consented, Start(c, kind, talk, consented)
  PROVE  TimeInv'
<1>1. clock \in Nat /\ kind \in {"invoke", "stream", "extract", "embed"} /\ Limit \in Nat \ {0}
  BY GatewayAssumption DEF TimeInv
<1> DEFINE made(at, since, begun) ==
      [at |-> at, kind |-> kind, since |-> since, from |-> begun, talk |-> talk, heard |-> <<>>,
       tries |-> <<>>, found |-> <<>>, code |-> 0, took |-> 0]
<1>2. PICK new : new = [NoCall EXCEPT !.kind = kind, !.since = clock, !.from = clock, !.talk = talk]
  OBVIOUS
<1>3. new = made("idle", clock, clock)
  BY <1>2 DEF NoCall
<1>4. /\ Becomes(c, IF kind = "embed" THEN [new EXCEPT !.at = "load"]
                    ELSE IF kind = "stream" THEN [new EXCEPT !.at = "stream"]
                    ELSE IF kind = "invoke" THEN [new EXCEPT !.at = "api"]
                    ELSE IF ~consented \/ talk = <<>> THEN Finish(new, 200)
                    ELSE [new EXCEPT !.at = IF ownServer THEN "own" ELSE "api"])
      /\ UNCHANGED <<clock, ownServer>>
  BY <1>2 DEF Start
<1>5. ASSUME NEW at \in {"own", "api", "stream", "load"},
             at = "own" => kind = "extract" /\ ownServer,
             at = "api" => kind = "invoke" \/ (kind = "extract" /\ ~ownServer),
             at = "stream" => kind = "stream"
      PROVE  RequestOK([new EXCEPT !.at = at], clock, ownServer)
  <2>1. PICK r : r = [new EXCEPT !.at = at]
    OBVIOUS
  <2>2. r = made(at, clock, clock)
    BY <1>3, <2>1
  <2>3. /\ r.at = at /\ r.kind = kind /\ r.since = clock /\ r.from = clock /\ r.tries = <<>>
        /\ r.code = 0
    BY <2>2
  <2>4. RequestShape(r)
    BY <1>1, <2>2 DEF RequestShape, Waiting, Loading
  <2>5. RequestAsks(r, clock, ownServer)
    BY <1>1, <1>5, <2>3 DEF RequestAsks, Waiting, Loading
  <2>6. RequestEnds(r, ownServer)
    BY <1>1, <2>3 DEF RequestEnds
  <2> QED BY <2>1, <2>4, <2>5, <2>6 DEF RequestOK
<1>6. RequestOK(Finish(new, 200), clock, ownServer)
  <2>1. RequestShape(new) /\ RequestEnds(new, ownServer) /\ new.tries = <<>>
    BY <1>1, <1>3 DEF RequestShape, RequestEnds
  <2>2. PICK ok : ok = 200
    OBVIOUS
  <2>3. EndsRightly(new, ok)
    BY <2>1, <2>2 DEF EndsRightly, OutOfTime
  <2>4. RequestOK(Finish(new, ok), clock, ownServer)
    BY <2>1, <2>3, FinishOK
  <2> QED BY <2>2, <2>4
<1>7. CASE kind = "embed"
  BY <1>4, <1>5, <1>7, OneRequest
<1>8. CASE kind = "stream"
  BY <1>4, <1>5, <1>8, OneRequest
<1>9. CASE kind = "invoke"
  BY <1>4, <1>5, <1>9, OneRequest
<1>10. CASE kind = "extract" /\ (~consented \/ talk = <<>>)
  BY <1>4, <1>6, <1>10, OneRequest
<1>11. CASE kind = "extract" /\ ~ (~consented \/ talk = <<>>)
  <2>1. Becomes(c, [new EXCEPT !.at = IF ownServer THEN "own" ELSE "api"])
    BY <1>4, <1>11
  <2>2. CASE ownServer
    BY <1>4, <1>5, <1>11, <2>1, <2>2, OneRequest
  <2>3. CASE ~ownServer
    BY <1>4, <1>5, <1>11, <2>1, <2>3, OneRequest
  <2> QED BY <2>2, <2>3
<1> QED BY <1>1, <1>7, <1>8, <1>9, <1>10, <1>11

\* The limit of a request is never after the one limit of the whole.
LEMMA DeadlineInTime ==
  ASSUME TimeInv, NEW c \in Callers, Asking(c)
  PROVE  /\ Deadline(c) \in Nat /\ Deadline(c) <= call[c].since + Limit
         /\ CallEnds(c) \in Nat
         /\ call[c].at # "own" => CallEnds(c) = call[c].from + Limit
         /\ RequestOK(call[c], clock, ownServer) /\ call[c].at \in Waiting
<1>1. /\ RequestShape(call[c]) /\ RequestAsks(call[c], clock, ownServer) /\ call[c].at \in Waiting
      /\ RequestOK(call[c], clock, ownServer)
  BY DEF TimeInv, RequestOK, Asking, Waiting
<1>2. Limit \in Nat /\ OwnLimit \in Nat /\ call[c].since \in Nat /\ call[c].from \in Nat
  BY <1>1, GatewayAssumption DEF RequestShape
<1>3. /\ CallEnds(c) \in Nat
      /\ call[c].at # "own" => CallEnds(c) = call[c].from + Limit
  BY <1>2 DEF CallEnds
<1>4. CASE Whole(c)
  <2>1. /\ call[c].since + Limit < CallEnds(c) => Deadline(c) = call[c].since + Limit
        /\ ~(call[c].since + Limit < CallEnds(c)) => Deadline(c) = CallEnds(c)
    BY <1>4 DEF Deadline
  <2>2. call[c].since + Limit \in Nat
    BY <1>2
  <2> QED BY <1>1, <1>2, <1>3, <2>1, <2>2
<1>5. CASE ~Whole(c)
  <2>1. call[c].at = "api" /\ call[c].from = call[c].since
    BY <1>1, <1>5 DEF Whole, RequestAsks, Waiting
  <2>2. Deadline(c) = CallEnds(c)
    BY <1>5 DEF Deadline
  <2>3. CallEnds(c) = call[c].since + Limit
    BY <1>3, <2>1
  <2> QED BY <1>1, <1>2, <1>3, <2>2, <2>3
<1> QED BY <1>1, <1>3, <1>4, <1>5

\* A call that was given up or that broke, an answer, a failure: one step of a request.
LEMMA FailsTime ==
  ASSUME TimeInv, NEW c \in Callers, CallFails(c)
  PROVE  TimeInv'
<1>1. PICK r : r = call[c]
  OBVIOUS
<1>2. /\ Asking(c) /\ clock \in Nat /\ UNCHANGED <<clock, ownServer>> /\ Limit \in Nat \ {0}
      /\ RequestOK(r, clock, ownServer) /\ r.at \in Waiting
      /\ RequestShape(r) /\ RequestAsks(r, clock, ownServer) /\ RequestEnds(r, ownServer)
  BY <1>1, DeadlineInTime, GatewayAssumption DEF CallFails, TimeInv, RequestOK
<1>3. PICK why \in {"failed", "timeout"} :
        /\ why = "timeout" => clock = CallEnds(c)
        /\ LET tried == [call[c] EXCEPT !.tries = Append(@, why)] IN
           Becomes(c, IF call[c].at = "own" THEN [tried EXCEPT !.at = "api", !.from = clock]
                      ELSE Finish(tried, IF why = "timeout" THEN 504 ELSE 503))
  BY DEF CallFails
<1>4. PICK tried : tried = [r EXCEPT !.tries = Append(@, why)]
  OBVIOUS
<1>5. Becomes(c, IF r.at = "own" THEN [tried EXCEPT !.at = "api", !.from = clock]
                 ELSE Finish(tried, IF why = "timeout" THEN 504 ELSE 503))
  BY <1>1, <1>3, <1>4
<1>6. /\ RequestShape(tried) /\ tried.at = r.at /\ tried.since = r.since /\ tried.from = r.from
      /\ tried.kind = r.kind /\ tried.code = 0 /\ tried.took = r.took
      /\ tried.tries = Append(r.tries, why)
      /\ Len(tried.tries) = Len(r.tries) + 1 /\ tried.tries[Len(tried.tries)] = why
      /\ RequestEnds(tried, ownServer)
  <2>1. why \in CallResults
    BY DEF CallResults
  <2>2. RequestShape(tried) /\ OneMore(r, tried, why) /\ RequestEnds(tried, ownServer)
    BY <1>2, <1>4, <2>1, OneResult
  <2> QED BY <2>2 DEF OneMore
<1>7. CASE r.at = "own"
  <2>1. PICK new : new = [tried EXCEPT !.at = "api", !.from = clock]
    OBVIOUS
  <2>2. new = [at |-> "api", kind |-> tried.kind, since |-> tried.since, from |-> clock,
               talk |-> tried.talk, heard |-> tried.heard, tries |-> tried.tries,
               found |-> tried.found, code |-> tried.code, took |-> tried.took]
    <3>1. PICK mid : mid = [tried EXCEPT !.at = "api"]
      OBVIOUS
    <3>2. mid = [at |-> "api", kind |-> tried.kind, since |-> tried.since, from |-> tried.from,
                 talk |-> tried.talk, heard |-> tried.heard, tries |-> tried.tries,
                 found |-> tried.found, code |-> tried.code, took |-> tried.took]
      BY <1>6, <3>1 DEF RequestShape
    <3>3. new = [mid EXCEPT !.from = clock]
      BY <2>1, <3>1
    <3> QED BY <3>2, <3>3
  <2>3. RequestShape(new)
    BY <1>2, <1>6, <2>2 DEF RequestShape, Waiting
  <2>4. /\ new.at = "api" /\ new.kind = r.kind /\ new.since = r.since /\ new.from = clock
        /\ new.tries = tried.tries /\ new.code = 0
    BY <1>6, <2>2
  <2>5. r.tries = <<>> /\ r.kind = "extract" /\ ownServer
    BY <1>2, <1>7 DEF RequestAsks
  <2>6. Len(new.tries) = 1 /\ new.tries[1] = why
    BY <1>6, <2>4, <2>5
  <2>7. r.since <= r.from /\ r.from <= clock /\ clock <= r.since + Limit
    BY <1>2 DEF RequestAsks
  <2>8. r.since \in Nat /\ r.from \in Nat
    BY <1>2 DEF RequestShape
  <2>9. RequestAsks(new, clock, ownServer)
    BY <1>2, <2>4, <2>5, <2>6, <2>7, <2>8 DEF RequestAsks, Waiting, Loading
  <2>10. RequestEnds(new, ownServer)
    BY <2>4, <2>6 DEF RequestEnds
  <2> QED BY <1>2, <1>5, <1>7, <2>1, <2>3, <2>9, <2>10, OneRequest DEF RequestOK
<1>8. CASE r.at # "own"
  <2>1. PICK code : code = IF why = "timeout" THEN 504 ELSE 503
    OBVIOUS
  <2>2. code = 504 <=> why = "timeout"
    BY <2>1
  <2>3. code = 504 <=> OutOfTime(tried)
    <3>1. Len(r.tries) \in Nat
      BY <1>2 DEF RequestShape
    <3> QED BY <1>6, <2>2, <3>1 DEF OutOfTime
  <2>4. code = 504 => clock - tried.since = Limit
    <3>1. why = "timeout" => clock = r.from + Limit
      BY <1>1, <1>2, <1>3, <1>8, DeadlineInTime
    <3>2. r.since <= r.from /\ r.from <= clock /\ clock <= r.since + Limit
      BY <1>2 DEF RequestAsks
    <3>3. r.since \in Nat /\ r.from \in Nat
      BY <1>2 DEF RequestShape
    <3> QED BY <1>2, <1>6, <2>2, <3>1, <3>2, <3>3
  <2>5. RequestShape(tried) /\ RequestEnds(tried, ownServer)
    BY <1>6
  <2>6. RequestOK(Finish(tried, code), clock, ownServer)
    BY <2>3, <2>4, <2>5, FinishOK DEF EndsRightly
  <2>7. Becomes(c, Finish(tried, code))
    BY <1>5, <1>8, <2>1
  <2> QED BY <1>2, <2>6, <2>7, OneRequest
<1> QED BY <1>7, <1>8

LEMMA GivenUpTime ==
  ASSUME TimeInv, NEW c \in Callers, TimeIsUp(c) \/ CallBreaks(c)
  PROVE  TimeInv'
<1>1. PICK r : r = call[c]
  OBVIOUS
<1>2. /\ Asking(c) /\ clock \in Nat /\ UNCHANGED <<clock, ownServer>> /\ Limit \in Nat \ {0}
  BY GatewayAssumption DEF TimeIsUp, CallBreaks, TimeInv
<1>3. /\ RequestOK(r, clock, ownServer) /\ r.at \in Waiting
      /\ RequestShape(r) /\ RequestAsks(r, clock, ownServer) /\ RequestEnds(r, ownServer)
  BY <1>1, <1>2, DeadlineInTime DEF RequestOK
<1>4. r.since \in Nat /\ Len(r.tries) \in Nat
  BY <1>3 DEF RequestShape
<1>5. ASSUME NEW why \in {"timeout", "broken"}, NEW code,
             code = 504 <=> why = "timeout", why = "timeout" => clock = r.since + Limit,
             Becomes(c, Finish([call[c] EXCEPT !.tries = Append(@, why)], code))
      PROVE  TimeInv'
  <2>1. PICK tried : tried = [r EXCEPT !.tries = Append(@, why)]
    OBVIOUS
  <2>2. why \in CallResults
    BY DEF CallResults
  <2>3. /\ RequestShape(tried) /\ tried.since = r.since
        /\ Len(tried.tries) = Len(r.tries) + 1 /\ tried.tries[Len(tried.tries)] = why
        /\ RequestEnds(tried, ownServer)
    BY <1>3, <2>1, <2>2, OneResult DEF OneMore
  <2>4. code = 504 <=> OutOfTime(tried)
    BY <1>4, <1>5, <2>3 DEF OutOfTime
  <2>5. EndsRightly(tried, code)
    BY <1>2, <1>4, <1>5, <2>3, <2>4 DEF EndsRightly
  <2>6. RequestOK(Finish(tried, code), clock, ownServer)
    BY <2>3, <2>5, FinishOK
  <2>7. Becomes(c, Finish(tried, code))
    BY <1>1, <1>5, <2>1
  <2> QED BY <1>2, <2>6, <2>7, OneRequest
<1>6. CASE TimeIsUp(c)
  <2>1. PICK why, code : why = "timeout" /\ code = 504
    OBVIOUS
  <2>2. Becomes(c, Finish([call[c] EXCEPT !.tries = Append(@, why)], code))
    BY <1>6, <2>1 DEF TimeIsUp
  <2>3. clock = r.since + Limit
    BY <1>1, <1>6 DEF TimeIsUp
  <2> QED BY <1>5, <2>1, <2>2, <2>3
<1>7. CASE CallBreaks(c)
  <2>1. PICK why, code : why = "broken" /\ code = 500
    OBVIOUS
  <2>2. Becomes(c, Finish([call[c] EXCEPT !.tries = Append(@, why)], code))
    BY <1>7, <2>1 DEF CallBreaks
  <2> QED BY <1>5, <2>1, <2>2
<1> QED BY <1>6, <1>7

LEMMA PieceTime ==
  ASSUME TimeInv, NEW c \in Callers, Piece(c)
  PROVE  TimeInv'
<1>1. PICK r : r = call[c]
  OBVIOUS
<1>2. /\ clock \in Nat /\ UNCHANGED <<clock, ownServer>> /\ r.at = "stream"
      /\ RequestOK(r, clock, ownServer)
      /\ RequestShape(r) /\ RequestAsks(r, clock, ownServer) /\ RequestEnds(r, ownServer)
  BY <1>1 DEF Piece, TimeInv, RequestOK
<1>3. PICK new : new = [r EXCEPT !.from = clock]
  OBVIOUS
<1>4. new = [at |-> r.at, kind |-> r.kind, since |-> r.since, from |-> clock, talk |-> r.talk,
             heard |-> r.heard, tries |-> r.tries, found |-> r.found, code |-> r.code,
             took |-> r.took]
  BY <1>2, <1>3 DEF RequestShape
<1>5. RequestShape(new)
  BY <1>2, <1>4 DEF RequestShape
<1>6. r.since \in Nat /\ r.from \in Nat /\ r.since <= r.from /\ r.from <= clock
  BY <1>2 DEF RequestShape, RequestAsks, Waiting
<1>7. RequestAsks(new, clock, ownServer)
  BY <1>2, <1>4, <1>6 DEF RequestAsks, Waiting, Loading
<1>8. RequestEnds(new, ownServer)
  BY <1>2, <1>4 DEF RequestEnds
<1>9. Becomes(c, new)
  BY <1>1, <1>3 DEF Piece
<1> QED BY <1>2, <1>5, <1>7, <1>8, <1>9, OneRequest DEF RequestOK

LEMMA AnswersTime ==
  ASSUME TimeInv, NEW c \in Callers, CallAnswers(c)
  PROVE  TimeInv'
<1>1. PICK r : r = call[c]
  OBVIOUS
<1>2. /\ Asking(c) /\ clock \in Nat /\ UNCHANGED <<clock, ownServer>>
  BY DEF CallAnswers, TimeInv
<1>3. /\ RequestOK(r, clock, ownServer) /\ r.at \in Waiting
      /\ RequestShape(r) /\ RequestAsks(r, clock, ownServer) /\ RequestEnds(r, ownServer)
  BY <1>1, <1>2, DeadlineInTime DEF RequestOK
<1>4. PICK items, found :
        LET told == [call[c] EXCEPT !.tries = Append(@, "good"), !.heard = items] IN
        Becomes(c, IF found = <<>> THEN Finish(told, 200)
                   ELSE [told EXCEPT !.at = "load", !.found = found, !.from = 0])
  BY DEF CallAnswers
<1>5. PICK tried : tried = [r EXCEPT !.tries = Append(@, "good")]
  OBVIOUS
<1>6. PICK told : told = [tried EXCEPT !.heard = items]
  OBVIOUS
<1>7. Becomes(c, IF found = <<>> THEN Finish(told, 200)
                 ELSE [told EXCEPT !.at = "load", !.found = found, !.from = 0])
  BY <1>1, <1>4, <1>5, <1>6
<1>8. "good" \in CallResults
  BY DEF CallResults
<1>9. /\ RequestShape(tried) /\ tried.at = r.at /\ tried.code = 0
      /\ Len(tried.tries) = Len(r.tries) + 1 /\ tried.tries[Len(tried.tries)] = "good"
      /\ RequestEnds(tried, ownServer)
  <2>1. RequestShape(tried) /\ OneMore(r, tried, "good") /\ RequestEnds(tried, ownServer)
    BY <1>3, <1>5, <1>8, OneResult
  <2> QED BY <2>1 DEF OneMore
<1> DEFINE with(at, heard, found_, begun) ==
      [at |-> at, kind |-> tried.kind, since |-> tried.since, from |-> begun,
       talk |-> tried.talk, heard |-> heard, tries |-> tried.tries, found |-> found_,
       code |-> tried.code, took |-> tried.took]
<1>10. told = with(tried.at, items, tried.found, tried.from)
  <2>1. tried = with(tried.at, tried.heard, tried.found, tried.from)
    BY <1>9 DEF RequestShape
  <2> QED BY <1>6, <2>1
<1>11. RequestShape(told) /\ RequestEnds(told, ownServer) /\ told.tries = tried.tries
  <2>1. RequestShape(told)
    BY <1>9, <1>10 DEF RequestShape
  <2>2. /\ told.at = tried.at /\ told.kind = tried.kind /\ told.tries = tried.tries
        /\ told.code = tried.code /\ told.took = tried.took
    BY <1>10
  <2>3. RequestEnds(told, ownServer)
    <3>1. tried.at # "done" /\ told.at # "done" /\ RequestEnds(tried, ownServer)
      BY <1>3, <1>9, <2>2 DEF Waiting
    <3> QED BY <2>2, <3>1, EndsAsBefore
  <2> QED BY <2>1, <2>2, <2>3
<1>12. RequestOK(Finish(told, 200), clock, ownServer)
  <2>1. PICK ok : ok = 200
    OBVIOUS
  <2>2. ok # 504 /\ ~OutOfTime(told)
    BY <1>9, <1>11, <2>1 DEF OutOfTime
  <2>3. EndsRightly(told, ok)
    BY <2>2 DEF EndsRightly
  <2>4. RequestOK(Finish(told, ok), clock, ownServer)
    BY <1>11, <2>3, FinishOK
  <2> QED BY <2>1, <2>4
<1>13. RequestOK([told EXCEPT !.at = "load", !.found = found, !.from = 0], clock, ownServer)
  <2>1. PICK a : a = [told EXCEPT !.at = "load"]
    OBVIOUS
  <2>2. a = with("load", items, tried.found, tried.from)
    BY <1>10, <2>1
  <2>3. PICK b : b = [a EXCEPT !.found = found]
    OBVIOUS
  <2>4. b = with("load", items, found, tried.from)
    BY <2>2, <2>3
  <2>5. PICK new : new = [b EXCEPT !.from = 0]
    OBVIOUS
  <2>6. new = with("load", items, found, 0)
    BY <2>4, <2>5
  <2>7. RequestShape(new)
    BY <1>9, <2>6 DEF RequestShape, Loading
  <2>8. /\ new.at = "load" /\ new.tries = tried.tries /\ new.code = 0 /\ new.took = tried.took
        /\ new.kind = tried.kind
    BY <1>9, <2>6
  <2>9. RequestAsks(new, clock, ownServer)
    BY <1>9, <2>8 DEF RequestAsks, Waiting, Loading
  <2>10. RequestEnds(new, ownServer)
    <3>1. tried.at # "done" /\ new.at # "done" /\ RequestEnds(tried, ownServer) /\ new.code = tried.code
      BY <1>3, <1>9, <2>8 DEF Waiting
    <3> QED BY <2>8, <3>1, EndsAsBefore
  <2>11. new = [told EXCEPT !.at = "load", !.found = found, !.from = 0]
    BY <2>1, <2>3, <2>5
  <2> QED BY <2>7, <2>9, <2>10, <2>11 DEF RequestOK
<1>14. CASE found = <<>>
  BY <1>2, <1>7, <1>12, <1>14, OneRequest
<1>15. CASE found # <<>>
  BY <1>2, <1>7, <1>13, <1>15, OneRequest
<1> QED BY <1>14, <1>15

\* A request moves on among those that load or use the embedding model.
LEMMA MovedOn ==
  ASSUME NEW c \in Callers, RequestOK(call[c], clock, ownServer), call[c].at \in Loading,
         NEW at \in Loading, NEW begun \in Nat
  PROVE  RequestOK([call[c] EXCEPT !.at = at, !.from = begun], clock, ownServer)
<1>1. PICK r : r = call[c]
  OBVIOUS
<1>2. RequestShape(r) /\ RequestAsks(r, clock, ownServer) /\ RequestEnds(r, ownServer)
      /\ r.at \in Loading
  BY <1>1 DEF RequestOK
<1>3. PICK a : a = [r EXCEPT !.at = at]
  OBVIOUS
<1>4. a = [at |-> at, kind |-> r.kind, since |-> r.since, from |-> r.from, talk |-> r.talk,
           heard |-> r.heard, tries |-> r.tries, found |-> r.found, code |-> r.code,
           took |-> r.took]
  BY <1>2, <1>3 DEF RequestShape
<1>5. PICK new : new = [a EXCEPT !.from = begun]
  OBVIOUS
<1>6. new = [at |-> at, kind |-> r.kind, since |-> r.since, from |-> begun, talk |-> r.talk,
             heard |-> r.heard, tries |-> r.tries, found |-> r.found, code |-> r.code,
             took |-> r.took]
  BY <1>4, <1>5
<1>7. RequestShape(new)
  BY <1>2, <1>6 DEF RequestShape
<1>8. new.at = at /\ new.tries = r.tries /\ new.code = r.code /\ new.took = r.took
      /\ new.kind = r.kind
  BY <1>6
<1>9. RequestAsks(new, clock, ownServer)
  BY <1>2, <1>8 DEF RequestAsks, Waiting, Loading
<1>10. RequestEnds(new, ownServer)
  BY <1>2, <1>8 DEF RequestEnds, Loading
<1>11. new = [call[c] EXCEPT !.at = at, !.from = begun]
  BY <1>1, <1>3, <1>5
<1> QED BY <1>7, <1>9, <1>10, <1>11 DEF RequestOK

LEMMA EndedWith ==
  ASSUME NEW c \in Callers, RequestOK(call[c], clock, ownServer), call[c].at \in Loading
  PROVE  RequestOK(NoVectors(c), clock, ownServer) /\ RequestOK(Finish(call[c], 200), clock, ownServer)
<1>1. PICK r : r = call[c]
  OBVIOUS
<1>2. /\ RequestShape(r) /\ RequestEnds(r, ownServer)
      /\ r.tries \in Seq(CallResults)
      /\ r.tries = <<>> \/ r.tries[Len(r.tries)] = "good"
  BY <1>1 DEF RequestOK, RequestShape, RequestAsks
<1>3. ASSUME NEW code, code # 504
      PROVE  /\ RequestOK(Finish(r, code), clock, ownServer)
             /\ RequestOK([Finish(r, code) EXCEPT !.found = <<>>], clock, ownServer)
  <2>1. ~OutOfTime(r)
    BY <1>2 DEF OutOfTime
  <2>2. EndsRightly(r, code)
    BY <1>3, <2>1 DEF EndsRightly
  <2> QED BY <1>2, <2>2, FinishOK
<1>4. PICK bad, ok : bad = 503 /\ ok = 200
  OBVIOUS
<1>5. bad # 504 /\ ok # 504
  BY <1>4
<1>6. NoVectors(c) = [Finish(r, bad) EXCEPT !.found = <<>>]
  BY <1>1, <1>4 DEF NoVectors
<1>7. RequestOK([Finish(r, bad) EXCEPT !.found = <<>>], clock, ownServer)
  BY <1>3, <1>5
<1>8. RequestOK(Finish(r, ok), clock, ownServer)
  BY <1>3, <1>5
<1> QED BY <1>1, <1>4, <1>6, <1>7, <1>8

LEMMA LoadingTime ==
  ASSUME TimeInv, NEW c \in Callers, Load(c) \/ Enter(c) \/ Build(c) \/ Encode(c)
  PROVE  TimeInv'
<1>1. UNCHANGED <<clock, ownServer>> /\ clock \in Nat /\ call[c].at \in Loading
  BY DEF Load, Enter, Build, Encode, TimeInv, Loading
<1>2. RequestOK(call[c], clock, ownServer)
  BY DEF TimeInv
<1>3. /\ RequestOK(NoVectors(c), clock, ownServer)
      /\ RequestOK(Finish(call[c], 200), clock, ownServer)
      /\ \A at \in Loading, begun \in Nat :
           RequestOK([call[c] EXCEPT !.at = at, !.from = begun], clock, ownServer)
  BY <1>1, <1>2, MovedOn, EndedWith
<1>4. {"encode", "wait", "build"} \subseteq Loading /\ 0 \in Nat
  BY DEF Loading
<1>5. CASE Load(c)
  <2>1. PICK at \in {"encode", "wait"} : Becomes(c, [call[c] EXCEPT !.at = at, !.from = 0])
    BY <1>5 DEF Load
  <2> QED BY <1>1, <1>3, <1>4, <2>1, OneRequest
<1>6. CASE Enter(c)
  <2>1. CASE Sees(c) = "cold"
    <3>1. Becomes(c, NoVectors(c))
      BY <1>6, <2>1 DEF Enter
    <3> QED BY <1>1, <1>3, <3>1, OneRequest
  <2>2. CASE Sees(c) # "cold"
    <3>1. PICK at : at = Sees(c)
      OBVIOUS
    <3>2. at \in Loading
      BY <2>2, <3>1 DEF Sees, Loading
    <3>3. PICK begun \in Nat : Becomes(c, [call[c] EXCEPT !.at = at, !.from = begun])
      <4>1. PICK begun : begun = IF Sees(c) = "build" THEN clock ELSE 0
        OBVIOUS
      <4>2. begun \in Nat
        BY <1>1, <4>1
      <4>3. Becomes(c, [call[c] EXCEPT !.at = at, !.from = begun])
        BY <1>6, <2>2, <3>1, <4>1 DEF Enter
      <4> QED BY <4>2, <4>3
    <3> QED BY <1>1, <1>3, <3>2, <3>3, OneRequest
  <2> QED BY <2>1, <2>2
<1>7. CASE Build(c)
  <2>1. PICK good \in BOOLEAN :
          Becomes(c, IF good THEN [call[c] EXCEPT !.at = "encode", !.from = 0] ELSE NoVectors(c))
    BY <1>7 DEF Build
  <2>2. CASE good
    BY <1>1, <1>3, <1>4, <2>1, <2>2, OneRequest
  <2>3. CASE ~good
    BY <1>1, <1>3, <2>1, <2>3, OneRequest
  <2> QED BY <2>2, <2>3
<1>8. CASE Encode(c)
  BY <1>1, <1>3, <1>8, OneRequest DEF Encode
<1> QED BY <1>5, <1>6, <1>7, <1>8

LEMMA TickTime ==
  ASSUME TimeInv, Tick
  PROVE  TimeInv'
<1>1. clock \in Nat /\ clock' = clock + 1 /\ call' = call /\ ownServer' = ownServer /\ Limit \in Nat
  BY GatewayAssumption DEF Tick, TimeInv
<1>2. ASSUME NEW c \in Callers
      PROVE  RequestOK(call[c], clock + 1, ownServer)
  <2>1. /\ RequestShape(call[c]) /\ RequestAsks(call[c], clock, ownServer)
        /\ RequestEnds(call[c], ownServer)
    BY DEF TimeInv, RequestOK
  <2>2. CASE Asking(c)
    <3>1. clock < Deadline(c) /\ Deadline(c) \in Nat /\ Deadline(c) <= call[c].since + Limit
      BY <2>2, DeadlineInTime DEF Tick
    <3>2. call[c].since \in Nat /\ call[c].from \in Nat
      BY <2>1 DEF RequestShape
    <3>3. clock + 1 <= call[c].since + Limit
      BY <1>1, <3>1, <3>2
    <3>4. call[c].from <= clock => call[c].from <= clock + 1
      BY <1>1, <3>2
    <3>5. RequestAsks(call[c], clock + 1, ownServer)
      BY <2>1, <3>3, <3>4 DEF RequestAsks
    <3> QED BY <2>1, <3>5 DEF RequestOK
  <2>3. CASE ~Asking(c)
    <3>1. call[c].at \notin Waiting
      BY <2>3 DEF Asking, Waiting
    <3>2. RequestAsks(call[c], clock + 1, ownServer)
      BY <2>1, <3>1 DEF RequestAsks
    <3> QED BY <2>1, <3>2 DEF RequestOK
  <2> QED BY <2>2, <2>3
<1>3. \A c \in Callers : RequestOK(call'[c], clock', ownServer')
  BY <1>1, <1>2
<1>4. call' = [c \in Callers |-> call'[c]]
  BY <1>1 DEF TimeInv
<1> QED BY <1>1, <1>3, <1>4 DEF TimeInv

LEMMA TimeStart == GatewayInit => TimeInv
<1> SUFFICES ASSUME GatewayInit PROVE TimeInv
  OBVIOUS
<1>1. /\ clock = 0 /\ call = [c \in Callers |-> NoCall] /\ Limit \in Nat
      /\ \A c \in Callers : call[c] = NoCall
  BY GatewayAssumption DEF GatewayInit
<1>2. PICK r : r = NoCall
  OBVIOUS
<1>3. r = [at |-> "idle", kind |-> "none", since |-> 0, from |-> 0, talk |-> <<>>, heard |-> <<>>,
           tries |-> <<>>, found |-> <<>>, code |-> 0, took |-> 0]
  BY <1>2 DEF NoCall
<1>4. RequestShape(r)
  BY <1>3 DEF RequestShape
<1>5. RequestAsks(r, 0, ownServer)
  BY <1>3 DEF RequestAsks, Waiting, Loading
<1>6. RequestEnds(r, ownServer)
  BY <1>3 DEF RequestEnds
<1> QED BY <1>1, <1>2, <1>4, <1>5, <1>6 DEF TimeInv, RequestOK

LEMMA TimeStep == TimeInv /\ [GatewayNext]_gatewayVars => TimeInv'
<1> SUFFICES ASSUME TimeInv, [GatewayNext]_gatewayVars PROVE TimeInv'
  OBVIOUS
<1>1. CASE Tick
  BY <1>1, TickTime
<1>2. ASSUME NEW c \in Callers, CallFails(c) PROVE TimeInv'
  BY <1>2, FailsTime
<1>3. ASSUME NEW c \in Callers, TimeIsUp(c) \/ CallBreaks(c) PROVE TimeInv'
  BY <1>3, GivenUpTime
<1>4. ASSUME NEW c \in Callers, Piece(c) PROVE TimeInv'
  BY <1>4, PieceTime
<1>5. ASSUME NEW c \in Callers, CallAnswers(c) PROVE TimeInv'
  BY <1>5, AnswersTime
<1>6. ASSUME NEW c \in Callers, Load(c) \/ Enter(c) \/ Build(c) \/ Encode(c) PROVE TimeInv'
  BY <1>6, LoadingTime
<1>7. ASSUME NEW c \in Callers, NEW kind \in Does[c], NEW talk, NEW consented \in BOOLEAN,
             kind # "extract" => consented, Start(c, kind, talk, consented)
      PROVE  TimeInv'
  BY <1>7, StartTime
<1>8. CASE UNCHANGED gatewayVars
  BY <1>8 DEF TimeInv, gatewayVars
<1> QED BY <1>1, <1>2, <1>3, <1>4, <1>5, <1>6, <1>7, <1>8 DEF GatewayNext

THEOREM GatewayTimes == GatewaySpec => []TimeInv
BY TimeStart, TimeStep, PTL DEF GatewaySpec

\* A request waits for models no longer than the one limit, whatever the limits of its calls
\* are and however many pieces a stream has; the second model is asked only after the first
\* one failed, and 504 says that the time ran out (llm.py:210-216; extractions.py:52-58).
THEOREM WaitsOneLimit == GatewaySpec => []OneTimeLimit
<1>1. TimeInv => OneTimeLimit
  <2> SUFFICES ASSUME TimeInv, NEW c \in Callers
               PROVE  LET r == call[c]  n == Len(r.tries) IN
                      /\ Asking(c) => clock <= r.since + Limit
                      /\ n <= 2
                      /\ \A i \in 1 .. n - 1 : r.tries[i] \in {"failed", "timeout"}
                                               /\ r.kind = "extract" /\ ownServer
                      /\ r.at = "done" => (r.code = 504) = (n > 0 /\ r.tries[n] = "timeout")
                      /\ r.code = 504 => r.took = Limit
    BY DEF OneTimeLimit
  <2> DEFINE r == call[c]
             n == Len(r.tries)
  <2>1. RequestShape(r) /\ RequestAsks(r, clock, ownServer) /\ RequestEnds(r, ownServer)
    BY DEF TimeInv, RequestOK
  <2>2. Asking(c) => clock <= r.since + Limit
    BY <2>1 DEF Asking, RequestAsks, Waiting
  <2>3. /\ n \in Nat /\ n <= 2
        /\ n = 2 => r.tries[1] \in {"failed", "timeout"} /\ r.kind = "extract" /\ ownServer
        /\ r.code = 504 => r.took = Limit
    BY <2>1 DEF RequestShape, RequestEnds
  <2>4. ASSUME NEW i \in 1 .. n - 1
        PROVE  r.tries[i] \in {"failed", "timeout"} /\ r.kind = "extract" /\ ownServer
    <3>1. PICK m : m = n
      OBVIOUS
    <3>2. m \in Nat /\ m <= 2 /\ i \in 1 .. m - 1
      BY <2>3, <3>1
    <3>3. m = 2 /\ i = 1
      BY <3>2
    <3> QED BY <2>3, <3>1, <3>3
  <2>5. r.at = "done" => (r.code = 504) = (n > 0 /\ r.tries[n] = "timeout")
    BY <2>1 DEF RequestEnds, OutOfTime
  <2> QED BY <2>2, <2>3, <2>4, <2>5
<1> QED BY <1>1, GatewayTimes, PTL

-----------------------------------------------------------------------------
(* The load of the embedding model.                                        *)

BuildRecords == [from : Nat, to : Nat, good : BOOLEAN]
LastBuild == builds[Len(builds)]

\* One holder of the lock; who builds holds it.
LockInv ==
  /\ lock = {} \/ \E c \in Callers : lock = {c}
  /\ \A c \in Callers : call[c].at = "build" => c \in lock

\* What the two marks of the loader say is what its last attempt came to.
MarksInv ==
  /\ builds \in Seq(BuildRecords) /\ loaded \in BOOLEAN
  /\ builds = <<>> => ~loaded /\ failedAt = -1
  /\ builds # <<>> =>
       /\ loaded = LastBuild.good
       /\ failedAt = IF LastBuild.good THEN -1 ELSE LastBuild.to

\* No attempt after a good one, and none within the pause after a bad one.
Apart(tries) ==
  \A i \in DOMAIN tries : \A j \in DOMAIN tries :
    i < j => ~tries[i].good /\ tries[j].from - tries[i].to >= Cooldown
InTime(tries, now) == \A i \in DOMAIN tries : tries[i].from <= tries[i].to /\ tries[i].to <= now

\* The one who builds now may: a failed attempt before it is past its pause.
BuilderInv ==
  \A c \in Callers : call[c].at = "build" =>
    /\ ~loaded /\ call[c].from <= clock
    /\ builds # <<>> => call[c].from - LastBuild.to >= Cooldown

LoadInv == LockInv /\ MarksInv /\ Apart(builds) /\ InTime(builds, clock) /\ BuilderInv

\* A step that leaves the loader alone and lets nobody begin to build.
LoaderFrame ==
  /\ UNCHANGED <<clock, loaded, failedAt, lock, builds>>
  /\ \A c \in Callers : call'[c].at = "build" => call'[c] = call[c]

LEMMA LoaderUntouched ==
  ASSUME LoadInv, LoaderFrame
  PROVE  LoadInv'
<1>1. UNCHANGED <<clock, loaded, failedAt, lock, builds>>
      /\ \A c \in Callers : call'[c].at = "build" => call[c].at = "build" /\ call'[c].from = call[c].from
  BY DEF LoaderFrame
<1>2. LockInv'
  BY <1>1 DEF LoadInv, LockInv
<1>3. MarksInv' /\ Apart(builds)' /\ InTime(builds, clock)'
  BY <1>1 DEF LoadInv, MarksInv, LastBuild, Apart, InTime
<1>4. BuilderInv'
  BY <1>1 DEF LoadInv, BuilderInv, LastBuild
<1> QED BY <1>2, <1>3, <1>4 DEF LoadInv

\* A request becomes one that does not build.
LEMMA NotBuilding ==
  ASSUME TimeInv, LoadInv, NEW c \in Callers, NEW r, r.at # "build", Becomes(c, r),
         UNCHANGED <<clock, loaded, failedAt, lock, builds>>
  PROVE  LoadInv'
<1>1. \A d \in Callers : call'[d] = IF d = c THEN r ELSE call[d]
  BY DEF Becomes, TimeInv
<1> QED BY <1>1, LoaderUntouched DEF LoaderFrame

LEMMA FinishAt ==
  ASSUME NEW r, Fields(r), NEW code
  PROVE  Finish(r, code).at = "done" /\ [Finish(r, code) EXCEPT !.found = <<>>].at = "done"
<1> PICK took : took = clock - r.since
  OBVIOUS
<1>1. PICK f : f = Finish(r, code)
  OBVIOUS
<1>2. f = [at |-> "done", kind |-> r.kind, since |-> 0, from |-> 0, talk |-> r.talk,
           heard |-> r.heard, tries |-> r.tries, found |-> r.found, code |-> code,
           took |-> took]
  BY <1>1, FinishIs
<1>3. f.at = "done" /\ [f EXCEPT !.found = <<>>].at = "done"
  BY <1>2
<1> QED BY <1>1, <1>3

LEMMA FieldsKept ==
  ASSUME NEW r, Fields(r), NEW tries, NEW heard, NEW begun
  PROVE  /\ Fields([r EXCEPT !.tries = tries]) /\ [r EXCEPT !.tries = tries].at = r.at
         /\ Fields([r EXCEPT !.heard = heard])
         /\ [r EXCEPT !.from = begun].at = r.at
BY DEF Fields

\* A request that goes to `at` is there, whatever else is set with it.
LEMMA GoesTo ==
  ASSUME NEW r, Fields(r), NEW at, NEW found, NEW begun
  PROVE  /\ [r EXCEPT !.at = at].at = at
         /\ [r EXCEPT !.at = at, !.from = begun].at = at
         /\ [r EXCEPT !.at = at, !.from = begun].from = begun
         /\ [r EXCEPT !.at = at, !.found = found, !.from = begun].at = at
<1>1. PICK a : a = [r EXCEPT !.at = at]
  OBVIOUS
<1>2. Fields(a) /\ a.at = at
  BY <1>1 DEF Fields
<1>3. PICK b : b = [a EXCEPT !.found = found]
  OBVIOUS
<1>4. Fields(b) /\ b.at = at
  BY <1>2, <1>3 DEF Fields
<1>5. [a EXCEPT !.from = begun].at = at /\ [a EXCEPT !.from = begun].from = begun
  BY <1>2 DEF Fields
<1>6. [b EXCEPT !.from = begun].at = at
  BY <1>4 DEF Fields
<1> QED BY <1>1, <1>2, <1>3, <1>5, <1>6

\* Every step of a request before its load, and the end of one, leaves the loader alone.
LEMMA FailsLoad ==
  ASSUME TimeInv, LoadInv, NEW c \in Callers, CallFails(c)
  PROVE  LoadInv'
<1>1. UNCHANGED <<clock, loaded, failedAt, lock, builds>>
  BY DEF CallFails
<1>2. Fields(call[c])
  BY DEF TimeInv, RequestOK, RequestShape, Fields
<1>3. PICK why \in {"failed", "timeout"} :
        /\ why = "timeout" => clock = CallEnds(c)
        /\ LET tried == [call[c] EXCEPT !.tries = Append(@, why)] IN
           Becomes(c, IF call[c].at = "own" THEN [tried EXCEPT !.at = "api", !.from = clock]
                      ELSE Finish(tried, IF why = "timeout" THEN 504 ELSE 503))
  BY DEF CallFails
<1>4. PICK tried : tried = [call[c] EXCEPT !.tries = Append(@, why)]
  OBVIOUS
<1>5. PICK code : code = IF why = "timeout" THEN 504 ELSE 503
  OBVIOUS
<1>6. Fields(tried)
  BY <1>2, <1>4, FieldsKept
<1>7. Finish(tried, code).at = "done" /\ [tried EXCEPT !.at = "api", !.from = clock].at = "api"
  BY <1>6, FinishAt, GoesTo
<1>8. CASE call[c].at = "own"
  <2>1. PICK r : r = [tried EXCEPT !.at = "api", !.from = clock]
    OBVIOUS
  <2>2. Becomes(c, r)
    BY <1>3, <1>4, <1>8, <2>1
  <2>3. r.at # "build"
    BY <1>7, <2>1
  <2> QED BY <1>1, <2>2, <2>3, NotBuilding
<1>9. CASE call[c].at # "own"
  <2>1. PICK r : r = Finish(tried, code)
    OBVIOUS
  <2>2. Becomes(c, r)
    BY <1>3, <1>4, <1>5, <1>9, <2>1
  <2>3. r.at # "build"
    BY <1>7, <2>1
  <2> QED BY <1>1, <2>2, <2>3, NotBuilding
<1> QED BY <1>8, <1>9

LEMMA GivenUpLoad ==
  ASSUME TimeInv, LoadInv, NEW c \in Callers, TimeIsUp(c) \/ CallBreaks(c)
  PROVE  LoadInv'
<1>1. UNCHANGED <<clock, loaded, failedAt, lock, builds>>
  BY DEF TimeIsUp, CallBreaks
<1>2. Fields(call[c])
  BY DEF TimeInv, RequestOK, RequestShape, Fields
<1>3. PICK why, code : Becomes(c, Finish([call[c] EXCEPT !.tries = Append(@, why)], code))
  <2>1. CASE TimeIsUp(c)
    <3>1. PICK why, code : why = "timeout" /\ code = 504
      OBVIOUS
    <3>2. Becomes(c, Finish([call[c] EXCEPT !.tries = Append(@, why)], code))
      BY <2>1, <3>1 DEF TimeIsUp
    <3> QED BY <3>2
  <2>2. CASE CallBreaks(c)
    <3>1. PICK why, code : why = "broken" /\ code = 500
      OBVIOUS
    <3>2. Becomes(c, Finish([call[c] EXCEPT !.tries = Append(@, why)], code))
      BY <2>2, <3>1 DEF CallBreaks
    <3> QED BY <3>2
  <2> QED BY <2>1, <2>2
<1>4. PICK tried : tried = [call[c] EXCEPT !.tries = Append(@, why)]
  OBVIOUS
<1>5. Fields(tried)
  BY <1>2, <1>4, FieldsKept
<1>6. Finish(tried, code).at # "build"
  BY <1>5, FinishAt
<1>7. Becomes(c, Finish(tried, code))
  BY <1>3, <1>4
<1> QED BY <1>1, <1>6, <1>7, NotBuilding

LEMMA AnswersLoad ==
  ASSUME TimeInv, LoadInv, NEW c \in Callers, Piece(c) \/ CallAnswers(c)
  PROVE  LoadInv'
<1>1. UNCHANGED <<clock, loaded, failedAt, lock, builds>>
  BY DEF Piece, CallAnswers
<1>2. Fields(call[c])
  BY DEF TimeInv, RequestOK, RequestShape, Fields
<1>3. CASE Piece(c)
  <2>1. Becomes(c, [call[c] EXCEPT !.from = clock]) /\ call[c].at = "stream"
    BY <1>3 DEF Piece
  <2>2. [call[c] EXCEPT !.from = clock].at # "build"
    BY <1>2, <2>1, FieldsKept
  <2> QED BY <1>1, <2>1, <2>2, NotBuilding
<1>4. CASE CallAnswers(c)
  <2>1. PICK items, found :
          LET told == [call[c] EXCEPT !.tries = Append(@, "good"), !.heard = items] IN
          Becomes(c, IF found = <<>> THEN Finish(told, 200)
                     ELSE [told EXCEPT !.at = "load", !.found = found, !.from = 0])
    BY <1>4 DEF CallAnswers
  <2>2. PICK tried : tried = [call[c] EXCEPT !.tries = Append(@, "good")]
    OBVIOUS
  <2>3. PICK told : told = [tried EXCEPT !.heard = items]
    OBVIOUS
  <2>4. Fields(told)
    BY <1>2, <2>2, <2>3, FieldsKept
  <2>5. PICK a, b : a = Finish(told, 200) /\ b = [told EXCEPT !.at = "load", !.found = found, !.from = 0]
    OBVIOUS
  <2>6. a.at # "build" /\ b.at # "build"
    BY <2>4, <2>5, FinishAt, GoesTo
  <2>7. Becomes(c, a) \/ Becomes(c, b)
    BY <2>1, <2>2, <2>3, <2>5
  <2> QED BY <1>1, <2>6, <2>7, NotBuilding
<1> QED BY <1>3, <1>4

LEMMA BeginLoad ==
  ASSUME TimeInv, LoadInv, NEW c \in Callers, NEW kind \in Does[c], NEW talk,
         NEW consented \in BOOLEAN, Start(c, kind, talk, consented)
  PROVE  LoadInv'
<1>1. UNCHANGED <<clock, loaded, failedAt, lock, builds>>
  BY DEF Start
<1>2. PICK r : r = [NoCall EXCEPT !.kind = kind, !.since = clock, !.from = clock, !.talk = talk]
  OBVIOUS
<1>3. r = [at |-> "idle", kind |-> kind, since |-> clock, from |-> clock, talk |-> talk,
           heard |-> <<>>, tries |-> <<>>, found |-> <<>>, code |-> 0, took |-> 0]
  BY <1>2 DEF NoCall
<1>4. Fields(r)
  BY <1>3 DEF Fields
<1>5. /\ Finish(r, 200).at = "done" /\ [r EXCEPT !.at = "load"].at = "load"
      /\ [r EXCEPT !.at = "stream"].at = "stream" /\ [r EXCEPT !.at = "api"].at = "api"
      /\ [r EXCEPT !.at = "own"].at = "own"
  BY <1>4, FinishAt, GoesTo
<1>6. \/ Becomes(c, [r EXCEPT !.at = "load"]) \/ Becomes(c, [r EXCEPT !.at = "stream"])
      \/ Becomes(c, [r EXCEPT !.at = "api"]) \/ Becomes(c, [r EXCEPT !.at = "own"])
      \/ Becomes(c, Finish(r, 200))
  BY <1>2 DEF Start
<1>7. CASE Becomes(c, Finish(r, 200))
  BY <1>1, <1>5, <1>7, NotBuilding
<1>8. CASE Becomes(c, [r EXCEPT !.at = "load"])
  BY <1>1, <1>5, <1>8, NotBuilding
<1>9. CASE Becomes(c, [r EXCEPT !.at = "stream"])
  BY <1>1, <1>5, <1>9, NotBuilding
<1>10. CASE Becomes(c, [r EXCEPT !.at = "api"])
  BY <1>1, <1>5, <1>10, NotBuilding
<1>11. CASE Becomes(c, [r EXCEPT !.at = "own"])
  BY <1>1, <1>5, <1>11, NotBuilding
<1> QED BY <1>6, <1>7, <1>8, <1>9, <1>10, <1>11

LEMMA LookLoad ==
  ASSUME TimeInv, LoadInv, NEW c \in Callers, Load(c) \/ Encode(c)
  PROVE  LoadInv'
<1>1. UNCHANGED <<clock, loaded, failedAt, lock, builds>>
  BY DEF Load, Encode
<1>2. Fields(call[c])
  BY DEF TimeInv, RequestOK, RequestShape, Fields
<1>3. CASE Load(c)
  <2>1. PICK at \in {"encode", "wait"} : Becomes(c, [call[c] EXCEPT !.at = at, !.from = 0])
    BY <1>3 DEF Load
  <2>2. [call[c] EXCEPT !.at = at, !.from = 0].at # "build"
    BY <1>2, <2>1, GoesTo
  <2> QED BY <1>1, <2>1, <2>2, NotBuilding
<1>4. CASE Encode(c)
  <2>1. Finish(call[c], 200).at # "build" /\ NoVectors(c).at # "build"
    BY <1>2, FinishAt DEF NoVectors
  <2> QED BY <1>1, <1>4, <2>1, NotBuilding DEF Encode
<1> QED BY <1>3, <1>4

\* Who takes the free lock builds only if nobody has, and if the pause is over.
LEMMA EnterLoad ==
  ASSUME TimeInv, LoadInv, NEW c \in Callers, Enter(c)
  PROVE  LoadInv'
<1>1. /\ UNCHANGED <<clock, loaded, failedAt, builds>> /\ lock = {} /\ clock \in Nat
      /\ lock' = IF Sees(c) = "build" THEN {c} ELSE {}
      /\ call' = [d \in Callers |-> call'[d]] /\ call = [d \in Callers |-> call[d]]
  BY DEF Enter, TimeInv, Becomes
<1>2. Fields(call[c])
  BY DEF TimeInv, RequestOK, RequestShape, Fields
<1>3. CASE Sees(c) = "cold"
  <2>1. Becomes(c, NoVectors(c)) /\ lock' = lock
    BY <1>1, <1>3 DEF Enter
  <2>2. NoVectors(c).at # "build"
    BY <1>2, FinishAt DEF NoVectors
  <2> QED BY <1>1, <2>1, <2>2, NotBuilding
<1>4. CASE Sees(c) = "encode"
  <2>1. Becomes(c, [call[c] EXCEPT !.at = "encode", !.from = 0]) /\ lock' = lock
    BY <1>1, <1>4 DEF Enter
  <2>2. [call[c] EXCEPT !.at = "encode", !.from = 0].at # "build"
    BY <1>2, GoesTo
  <2> QED BY <1>1, <2>1, <2>2, NotBuilding
<1>5. CASE Sees(c) = "build"
  <2>1. PICK r : r = [call[c] EXCEPT !.at = "build", !.from = clock]
    OBVIOUS
  <2>2. Becomes(c, r) /\ lock' = {c}
    BY <1>1, <1>5, <2>1 DEF Enter
  <2>3. r.at = "build" /\ r.from = clock
    BY <1>2, <2>1, GoesTo
  <2>4. \A d \in Callers : call'[d] = IF d = c THEN r ELSE call[d]
    BY <2>2 DEF Becomes, TimeInv
  <2>5. \A d \in Callers : call[d].at # "build"
    BY <1>1 DEF LoadInv, LockInv
  <2>6. LockInv'
    BY <2>2, <2>4, <2>5 DEF LockInv
  <2>7. MarksInv' /\ Apart(builds)' /\ InTime(builds, clock)'
    BY <1>1 DEF LoadInv, MarksInv, LastBuild, Apart, InTime
  <2>8. ~loaded /\ ~CoolingDown
    BY <1>5 DEF Sees
  <2>9. builds # <<>> => clock - LastBuild.to >= Cooldown
    <3>1. SUFFICES ASSUME builds # <<>> PROVE clock - LastBuild.to >= Cooldown
      OBVIOUS
    <3>2. LastBuild \in BuildRecords
      BY <3>1 DEF LoadInv, MarksInv, LastBuild
    <3>3. LastBuild.to \in Nat /\ failedAt = LastBuild.to
      BY <2>8, <3>1, <3>2 DEF LoadInv, MarksInv, BuildRecords
    <3>4. ~(clock - failedAt < Cooldown)
      BY <2>8, <3>3 DEF CoolingDown
    <3> QED BY <1>1, <3>3, <3>4, GatewayAssumption
  <2>10. BuilderInv'
    <3> SUFFICES ASSUME NEW d \in Callers, call'[d].at = "build"
                 PROVE  /\ ~loaded' /\ call'[d].from <= clock'
                        /\ builds' # <<>> => call'[d].from - LastBuild' .to >= Cooldown
      BY DEF BuilderInv
    <3>1. d = c /\ call'[d] = r
      BY <2>4, <2>5
    <3>2. LastBuild' = LastBuild
      BY <1>1 DEF LastBuild
    <3> QED BY <1>1, <2>3, <2>8, <2>9, <3>1, <3>2
  <2> QED BY <2>6, <2>7, <2>10 DEF LoadInv
<1> QED BY <1>3, <1>4, <1>5 DEF Sees

\* An attempt to load comes to its end: it is the last of the history, and the marks say so.
LEMMA BuildLoad ==
  ASSUME TimeInv, LoadInv, NEW c \in Callers, Build(c)
  PROVE  LoadInv'
<1>1. PICK good \in BOOLEAN :
        /\ loaded' = (loaded \/ good) /\ failedAt' = IF good THEN -1 ELSE clock
        /\ Becomes(c, IF good THEN [call[c] EXCEPT !.at = "encode", !.from = 0] ELSE NoVectors(c))
        /\ builds' = Append(builds, [from |-> call[c].from, to |-> clock, good |-> good])
  BY DEF Build
<1>2. call[c].at = "build" /\ lock' = {} /\ clock' = clock /\ clock \in Nat
  BY DEF Build, TimeInv
<1>3. Fields(call[c]) /\ call[c].from \in Nat
  BY DEF TimeInv, RequestOK, RequestShape, Fields
<1>4. PICK r : r = IF good THEN [call[c] EXCEPT !.at = "encode", !.from = 0] ELSE NoVectors(c)
  OBVIOUS
<1>5. r.at # "build" /\ Becomes(c, r)
  BY <1>1, <1>3, <1>4, FinishAt, GoesTo DEF NoVectors
<1>6. lock = {c}
  BY <1>2 DEF LoadInv, LockInv
<1>7. \A d \in Callers : call'[d].at # "build"
  <2>1. \A d \in Callers : call'[d] = IF d = c THEN r ELSE call[d]
    BY <1>5 DEF Becomes, TimeInv
  <2>2. \A d \in Callers : call[d].at = "build" => d = c
    BY <1>6 DEF LoadInv, LockInv
  <2> QED BY <1>5, <2>1, <2>2
<1>8. LockInv' /\ BuilderInv'
  BY <1>2, <1>7 DEF LockInv, BuilderInv
<1>9. PICK b : b = [from |-> call[c].from, to |-> clock, good |-> good]
  OBVIOUS
<1>10. b \in BuildRecords /\ b.to = clock /\ b.from = call[c].from /\ b.good = good
  BY <1>2, <1>3, <1>9 DEF BuildRecords
<1>11. PICK n \in Nat : n = Len(builds)
  BY DEF LoadInv, MarksInv
<1>12. /\ builds \in Seq(BuildRecords) /\ builds' = Append(builds, b) /\ builds' \in Seq(BuildRecords)
       /\ Len(builds') = n + 1 /\ builds'[n + 1] = b /\ builds' # <<>>
       /\ DOMAIN builds = 1 .. n /\ DOMAIN builds' = 1 .. n + 1
       /\ \A i \in 1 .. n : builds'[i] = builds[i]
  BY <1>1, <1>9, <1>10, <1>11 DEF LoadInv, MarksInv
<1>13. ~loaded /\ call[c].from <= clock
       /\ (builds # <<>> => call[c].from - LastBuild.to >= Cooldown)
  BY <1>2 DEF LoadInv, BuilderInv
<1>14. MarksInv'
  <2>1. (LastBuild)' = b
    BY <1>12 DEF LastBuild
  <2>2. loaded' = good /\ failedAt' = IF good THEN -1 ELSE clock
    BY <1>1, <1>13
  <2> QED BY <1>10, <1>12, <2>1, <2>2 DEF MarksInv
<1>15. InTime(builds', clock')
  <2> SUFFICES ASSUME NEW i \in 1 .. n + 1
               PROVE  builds'[i].from <= builds'[i].to /\ builds'[i].to <= clock
    BY <1>2, <1>12 DEF InTime
  <2>1. CASE i = n + 1
    BY <1>2, <1>10, <1>12, <1>13, <2>1
  <2>2. CASE i # n + 1
    <3>1. i \in 1 .. n
      BY <1>11, <2>2
    <3> QED BY <1>12, <3>1 DEF LoadInv, InTime
  <2> QED BY <2>1, <2>2
<1>16. Apart(builds')
  <2> SUFFICES ASSUME NEW i \in 1 .. n + 1, NEW j \in 1 .. n + 1, i < j
               PROVE  ~builds'[i].good /\ builds'[j].from - builds'[i].to >= Cooldown
    BY <1>12 DEF Apart
  <2>1. i \in 1 .. n
    BY <1>11
  <2>2. CASE j # n + 1
    <3>1. j \in 1 .. n
      BY <1>11, <2>2
    <3> QED BY <1>12, <2>1, <3>1 DEF LoadInv, Apart
  <2>3. CASE j = n + 1
    <3>1. n # 0 /\ builds # <<>> /\ LastBuild = builds[n] /\ n \in 1 .. n
      BY <1>11, <1>12, <2>1 DEF LastBuild
    <3>2. ~LastBuild.good
      BY <1>13, <3>1 DEF LoadInv, MarksInv
    <3>3. builds[i] \in BuildRecords /\ LastBuild \in BuildRecords
      BY <1>12, <2>1, <3>1
    <3>4. builds[i].to <= LastBuild.to /\ ~builds[i].good
      <4>1. CASE i = n
        BY <3>1, <3>2, <3>3, <4>1 DEF BuildRecords
      <4>2. CASE i # n
        <5>1. i < n
          BY <1>11, <2>1, <4>2
        <5>2. ~builds[i].good /\ LastBuild.from - builds[i].to >= Cooldown
          BY <1>12, <2>1, <3>1, <5>1 DEF LoadInv, Apart
        <5>3. LastBuild.from <= LastBuild.to
          BY <1>12, <3>1 DEF LoadInv, InTime
        <5> QED BY <3>3, <5>2, <5>3, GatewayAssumption DEF BuildRecords
      <4> QED BY <4>1, <4>2
    <3>5. b.from - builds[i].to >= Cooldown
      <4>1. PICK x, y, z : x = b.from /\ y = builds[i].to /\ z = LastBuild.to
        OBVIOUS
      <4>2. x \in Nat /\ y \in Nat /\ z \in Nat /\ Cooldown \in Nat
        BY <1>3, <1>10, <3>3, <4>1, GatewayAssumption DEF BuildRecords
      <4>3. x - z >= Cooldown /\ y <= z
        BY <1>10, <1>13, <3>1, <3>4, <4>1
      <4>4. x - y >= Cooldown
        BY <4>2, <4>3
      <4> QED BY <4>1, <4>4
    <3> QED BY <1>12, <2>1, <2>3, <3>4, <3>5
  <2> QED BY <2>2, <2>3
<1> QED BY <1>8, <1>14, <1>15, <1>16 DEF LoadInv

LEMMA TickLoad ==
  ASSUME TimeInv, LoadInv, Tick
  PROVE  LoadInv'
<1>1. clock \in Nat /\ clock' = clock + 1 /\ UNCHANGED <<call, loaded, failedAt, lock, builds>>
  BY DEF Tick, TimeInv
<1>2. LockInv' /\ MarksInv' /\ Apart(builds)'
  BY <1>1 DEF LoadInv, LockInv, MarksInv, LastBuild, Apart
<1>3. InTime(builds', clock')
  <2> SUFFICES ASSUME NEW i \in DOMAIN builds
               PROVE  builds[i].from <= builds[i].to /\ builds[i].to <= clock + 1
    BY <1>1 DEF InTime
  <2>1. builds[i].from <= builds[i].to /\ builds[i].to <= clock
    BY DEF LoadInv, InTime
  <2>2. builds[i] \in BuildRecords
    BY DEF LoadInv, MarksInv
  <2> QED BY <1>1, <2>1, <2>2 DEF BuildRecords
<1>4. BuilderInv'
  <2> SUFFICES ASSUME NEW c \in Callers, call[c].at = "build"
               PROVE  /\ ~loaded /\ call[c].from <= clock + 1
                      /\ builds # <<>> => call[c].from - LastBuild.to >= Cooldown
    BY <1>1 DEF BuilderInv, LastBuild
  <2>1. /\ ~loaded /\ call[c].from <= clock
        /\ builds # <<>> => call[c].from - LastBuild.to >= Cooldown
    BY DEF LoadInv, BuilderInv
  <2>2. call[c].from \in Nat
    BY DEF TimeInv, RequestOK, RequestShape
  <2> QED BY <1>1, <2>1, <2>2
<1> QED BY <1>2, <1>3, <1>4 DEF LoadInv

LEMMA LoadStart == GatewayInit => LoadInv
<1> SUFFICES ASSUME GatewayInit PROVE LoadInv
  OBVIOUS
<1>1. /\ clock = 0 /\ loaded = FALSE /\ failedAt = -1 /\ lock = {} /\ builds = <<>>
      /\ \A c \in Callers : call[c].at = "idle"
  BY DEF GatewayInit, NoCall
<1>2. <<>> \in Seq(BuildRecords)
  OBVIOUS
<1>3. MarksInv
  BY <1>1, <1>2 DEF MarksInv
<1> QED BY <1>1, <1>3 DEF LoadInv, LockInv, Apart, InTime, BuilderInv

LEMMA LoadStep == TimeInv /\ LoadInv /\ [GatewayNext]_gatewayVars => LoadInv'
<1> SUFFICES ASSUME TimeInv, LoadInv, [GatewayNext]_gatewayVars PROVE LoadInv'
  OBVIOUS
<1>1. CASE Tick
  BY <1>1, TickLoad
<1>2. ASSUME NEW c \in Callers, CallFails(c) PROVE LoadInv'
  BY <1>2, FailsLoad
<1>3. ASSUME NEW c \in Callers, TimeIsUp(c) \/ CallBreaks(c) PROVE LoadInv'
  BY <1>3, GivenUpLoad
<1>4. ASSUME NEW c \in Callers, Piece(c) \/ CallAnswers(c) PROVE LoadInv'
  BY <1>4, AnswersLoad
<1>5. ASSUME NEW c \in Callers, Load(c) \/ Encode(c) PROVE LoadInv'
  BY <1>5, LookLoad
<1>6. ASSUME NEW c \in Callers, Enter(c) PROVE LoadInv'
  BY <1>6, EnterLoad
<1>7. ASSUME NEW c \in Callers, Build(c) PROVE LoadInv'
  BY <1>7, BuildLoad
<1>8. ASSUME NEW c \in Callers, NEW kind \in Does[c], NEW talk, NEW consented \in BOOLEAN,
             Start(c, kind, talk, consented)
      PROVE  LoadInv'
  BY <1>8, BeginLoad
<1>9. CASE UNCHANGED gatewayVars
  <2>1. LoaderFrame
    BY <1>9 DEF gatewayVars, LoaderFrame
  <2> QED BY <2>1, LoaderUntouched
<1> QED BY <1>1, <1>2, <1>3, <1>4, <1>5, <1>6, <1>7, <1>8, <1>9 DEF GatewayNext

THEOREM GatewayLoads == GatewaySpec => []LoadInv
BY LoadStart, LoadStep, GatewayTimes, PTL DEF GatewaySpec

\* However many requests ask for vectors, one at a time reads the big model, none after an
\* attempt that succeeded, and after one that failed none before the pause is over
\* (embedding.py:23-31).
THEOREM LoadsOnce == GatewaySpec => []NoLoadStorm
<1>1. TimeInv /\ LoadInv => NoLoadStorm
  <2> SUFFICES ASSUME TimeInv, LoadInv PROVE NoLoadStorm
    OBVIOUS
  <2> DEFINE readers == {c \in Callers : call[c].at = "build"}
  <2>1. Cardinality(readers) <= 1
    <3>1. readers = {} \/ \E c \in Callers : readers = {c}
      BY DEF LoadInv, LockInv
    <3>2. CASE readers = {}
      BY <3>2, FS_EmptySet
    <3>3. CASE \E c \in Callers : readers = {c}
      <4>1. PICK c : readers = {c}
        BY <3>3
      <4>2. Cardinality({c}) = 1
        BY FS_Singleton
      <4> QED BY <4>1, <4>2
    <3> QED BY <3>1, <3>2, <3>3
  <2>2. \A i \in DOMAIN builds : \A j \in DOMAIN builds :
          i < j => ~builds[i].good /\ builds[j].from - builds[i].to >= Cooldown
    BY DEF LoadInv, Apart
  <2>3. ASSUME NEW c \in Callers, call[c].at = "build", builds # <<>>
        PROVE  ~builds[Len(builds)].good /\ call[c].from - builds[Len(builds)].to >= Cooldown
    BY <2>3 DEF LoadInv, MarksInv, BuilderInv, LastBuild
  <2> QED BY <2>1, <2>2, <2>3 DEF NoLoadStorm
<1> QED BY <1>1, GatewayTimes, GatewayLoads, PTL

-----------------------------------------------------------------------------
(* The turns of the chat: their tasks.                                     *)

Busy == {"asked", "judging", "shopping", "answering", "finding", "writing"}
Statuses == {200, 400, 500}

WorkFields(w) ==
  w = [at |-> w.at, said |-> w.said, lane |-> w.lane, status |-> w.status, since |-> w.since,
       shown |-> w.shown, declined |-> w.declined, searched |-> w.searched, cut |-> w.cut]

\* A task has a status exactly when it is done.
WorkShape(w) ==
  /\ WorkFields(w)
  /\ w.at \in Busy \cup Over \cup {"none"} /\ w.since \in Nat /\ w.shown \in BOOLEAN
  /\ w.at = "done" => w.status \in Statuses
  /\ w.at # "done" => w.status = 0

\* The words of a message send it to a search, or are left to the judge.
Routed(m) == ~Decided(m).sure \/ Lane(Decided(m)) = "recommend"

\* How a task came where it looks for books, or past it.
WayOK(w) ==
  /\ w.at = "judging" => ~Decided(w.said).sure
  /\ w.at \in {"asked", "judging", "none"} => ~w.searched
  /\ w.at = "finding" \/ w.searched => w.declined \/ ~w.said.shopping \/ Routed(w.said)

-----------------------------------------------------------------------------
(* What a stream carries.                                                  *)

EndOf(w) == IF w.at \in Over THEN <<"end">> ELSE <<>>

Carried(w, q, e) ==
  \/ ~w.shown /\ e = <<>> /\ q = EndOf(w)
  \/ w.shown /\ e = <<>> /\ q = <<"text">> \o EndOf(w)
  \/ w.shown /\ e = <<"delta">> /\ q = EndOf(w)

StreamOK(w, q, e, c) ==
  /\ c \in {"no", "here", "gone", "ended"}
  /\ w.at = "none" <=> c = "no"
  /\ c = "no" => q = <<>> /\ e = <<>>
  /\ c = "here" => Carried(w, q, e)
  /\ c = "gone" => e \in {<<>>, <<"delta">>}
  /\ c = "ended" => /\ w.at \in Over
                    /\ e = IF w.shown THEN <<"delta", LastEvent(w)>> ELSE <<LastEvent(w)>>

-----------------------------------------------------------------------------
(* What is said of a job.                                                  *)

Replies == [code : {202, 404} \cup Statuses, final : BOOLEAN, text : BOOLEAN]
PollRecords == [reply : Replies, due : BOOLEAN]

Result(w) == [code |-> IF w.at = "done" THEN w.status ELSE 500, final |-> TRUE, text |-> FALSE]

Forgotten(r) == r \notin DOMAIN jobs \/ age - jobs[r] > Keep

\* An answer stays true of its job.
PollStands(a, w, forgotten) ==
  /\ a.reply.code = 404 => a.due /\ forgotten
  /\ a.reply.final => w.at \in Over /\ a.reply = Result(w)
  /\ a.reply.text => w.shown

PollsAgree(p) ==
  \A i \in DOMAIN p : \A j \in DOMAIN p :
    i < j =>
      /\ p[i].reply.final => p[j].reply = p[i].reply \/ p[j].reply.code = 404
      /\ p[i].reply.text => p[j].reply.text \/ p[j].reply.code # 202
      /\ p[i].reply.code = 404 => p[j].reply.code = 404

PollOK(w, p, forgotten) ==
  /\ p \in Seq(PollRecords) /\ (w.at = "none" => p = <<>>)
  /\ \A i \in DOMAIN p : PollStands(p[i], w, forgotten)
  /\ PollsAgree(p)

\* A job that is not known any more has had its time, or its process.
JobOK(r) ==
  work[r].at # "none" =>
    stops > 0 \/ age - work[r].since > Keep \/ (r \in DOMAIN jobs /\ jobs[r] = work[r].since)

DeliveryType ==
  /\ age \in Nat /\ stops \in Nat /\ DOMAIN jobs \subseteq Polled
  /\ \A r \in DOMAIN jobs : jobs[r] \in Nat
  /\ work = [r \in Asked |-> work[r]] /\ queue = [r \in Asked |-> queue[r]]
  /\ events = [r \in Asked |-> events[r]] /\ client = [r \in Asked |-> client[r]]
  /\ polls = [r \in Asked |-> polls[r]]

RequestsInv == \A r \in Asked : WorkShape(work[r]) /\ WayOK(work[r])
StreamsInv == \A r \in Streams : StreamOK(work[r], queue[r], events[r], client[r])
PollsInv == \A r \in Polled : PollOK(work[r], polls[r], Forgotten(r)) /\ JobOK(r) /\ client[r] = "no"

DeliveryInv == DeliveryType /\ RequestsInv /\ StreamsInv /\ PollsInv

\* What SearchHasReason asks of a message that is sent to a search.
SearchReason(m) ==
  LET finds == m.signs \cap {"recommend", "condition"} # {}
      asked == LastQuestion(m.turns) IN
  /\ "cart" \notin m.signs
  /\ finds \/ asked \in {"ask", "fork"} \/ ~Decided(m).sure
  /\ "buy" \in m.signs => finds \/ asked = "ask"
  /\ {"interest", "pointer"} \subseteq m.signs /\ asked = "none" => finds \/ "comparison" \in m.signs

\* The first of the rules that fits is the one that decides.
LEMMA FirstRule ==
  ASSUME NEW signs, NEW shown, NEW asked, NEW rules, rules = Rules(signs, shown, asked),
         NEW d, d = Decide(signs, shown, asked)
  PROVE  \E i \in 1 .. 11 : /\ rules[i][1] /\ d = rules[i][2]
                            /\ \A k \in 1 .. 11 : k < i => ~rules[k][1]
<1> DEFINE fits == {i \in DOMAIN rules : rules[i][1]}
<1>1. DOMAIN rules = 1 .. 11 /\ rules[11][1]
  BY DEF Rules
<1>2. \A i \in fits : i \in Nat /\ i \in 1 .. 11
  BY <1>1
<1>3. 11 \in fits
  BY <1>1
<1>4. PICK i \in fits : \A j \in fits : i <= j
  BY <1>2, <1>3, LeastNumber
<1>5. (CHOOSE k \in fits : \A j \in fits : k <= j) = i
  <2>1. \A k \in fits : (\A j \in fits : k <= j) => k = i
    BY <1>2, <1>4
  <2> QED BY <1>4, <2>1
<1>6. d = rules[i][2]
  BY <1>5 DEF Decide
<1>7. i \in 1 .. 11 /\ rules[i][1]
  BY <1>2
<1>8. \A k \in 1 .. 11 : k < i => ~rules[k][1]
  BY <1>1, <1>2, <1>4
<1> QED BY <1>6, <1>7, <1>8

\* The rules send a message about shown cards to a search, or leave it to the judge, only
\* with a reason.
LEMMA SearchRules ==
  ASSUME NEW signs, NEW shown, NEW q, NEW d, d = Decide(signs, shown, q)
  PROVE  shown = TRUE /\ (~d.sure \/ (~d.card /\ d.kind = "recommend")) =>
         /\ "cart" \notin signs
         /\ "recommend" \in signs \/ "condition" \in signs \/ q \in {"ask", "fork"} \/ ~d.sure
         /\ "buy" \in signs => "recommend" \in signs \/ "condition" \in signs \/ q = "ask"
         /\ "interest" \in signs /\ "pointer" \in signs /\ q = "none" =>
              "recommend" \in signs \/ "condition" \in signs \/ "comparison" \in signs
<1>1. PICK rules : rules = Rules(signs, shown, q)
  OBVIOUS
<1>2. PICK i \in 1 .. 11 :
        /\ rules[i][1] /\ d = rules[i][2]
        /\ \A k \in 1 .. 11 : k < i => ~rules[k][1]
  BY <1>1, FirstRule
<1> SUFFICES ASSUME shown = TRUE, ~d.sure \/ (~d.card /\ d.kind = "recommend")
             PROVE  /\ "cart" \notin signs
                    /\ "recommend" \in signs \/ "condition" \in signs \/ q \in {"ask", "fork"} \/ ~d.sure
                    /\ "buy" \in signs => "recommend" \in signs \/ "condition" \in signs \/ q = "ask"
                    /\ "interest" \in signs /\ "pointer" \in signs /\ q = "none" =>
                         "recommend" \in signs \/ "condition" \in signs \/ "comparison" \in signs
  OBVIOUS
<1>3. /\ rules[1][1] <=> "cart" \in signs
      /\ rules[2][1] <=> q = "ask"
      /\ rules[3][1] <=> q # "action" /\ "condition" \in signs
      /\ rules[4][1] <=> "recommend" \notin signs /\ "buy" \in signs
      /\ rules[5][1] <=> q = "fork" /\ "pointer" \notin signs
      /\ rules[6][1] <=> /\ q # "action" /\ "recommend" \notin signs /\ "interest" \in signs
                         /\ "pointer" \in signs /\ "comparison" \notin signs
      /\ rules[8][1] <=> "pointer" \in signs /\ "recommend" \in signs
      /\ rules[10][1] <=> "recommend" \in signs
  BY <1>1 DEF Rules
<1>4. /\ i = 1 => d.sure /\ d.kind # "recommend"
      /\ i = 4 => d.sure /\ d.kind # "recommend"
      /\ i = 6 => d.sure /\ d.card
      /\ i = 9 => d.kind # "recommend"
      /\ i = 11 => d.kind # "recommend"
      /\ i = 7 => ~d.sure
  <2>1. /\ rules[1][2].sure /\ rules[1][2].kind # "recommend"
        /\ rules[4][2].sure /\ rules[4][2].kind # "recommend"
        /\ rules[7][2].sure = FALSE
        /\ rules[9][2].kind # "recommend" /\ rules[11][2].kind # "recommend"
    BY <1>1 DEF Rules, Decision
  <2>2. rules[6][2].sure /\ rules[6][2].card
    BY <1>1 DEF Rules, Decision
  <2> QED BY <1>2, <2>1, <2>2
<1>5. i # 1 /\ i # 4 /\ i # 6
  BY <1>4
<1>6. ~rules[1][1] /\ (i > 4 => ~rules[4][1]) /\ (i > 6 => ~rules[6][1])
  BY <1>2, <1>5
<1>7. "cart" \notin signs
  BY <1>3, <1>6
<1>8. CASE i = 2
  BY <1>2, <1>3, <1>7, <1>8
<1>9. CASE i = 3
  BY <1>2, <1>3, <1>7, <1>9
<1>10. CASE i = 5
  BY <1>2, <1>3, <1>6, <1>7, <1>10
<1>11. CASE i > 6
  <2>1. ~(q # "action" /\ "recommend" \notin signs /\ "interest" \in signs
          /\ "pointer" \in signs /\ "comparison" \notin signs)
    BY <1>3, <1>6, <1>11
  <2>2. ~("recommend" \notin signs /\ "buy" \in signs)
    BY <1>3, <1>6, <1>11
  <2>3. i \in {7, 8, 9, 10, 11}
    BY <1>11
  <2>4. i \in {8, 10} => "recommend" \in signs
    BY <1>2, <1>3
  <2>5. i \in {7, 9, 11} => ~d.sure
    BY <1>4
  <2> QED BY <1>7, <2>1, <2>2, <2>3, <2>4, <2>5
<1>12. i \in {2, 3, 5} \/ i > 6
  BY <1>5
<1> QED BY <1>8, <1>9, <1>10, <1>11, <1>12

LEMMA RoutedHasReason ==
  ASSUME NEW m, m.shown = TRUE, Routed(m)
  PROVE  SearchReason(m)
<1>1. PICK signs, q, shown : signs = m.signs /\ q = LastQuestion(m.turns) /\ shown = m.shown
  OBVIOUS
<1>2. PICK d : d = Decide(signs, shown, q)
  OBVIOUS
<1>3. Decided(m) = d
  BY <1>1, <1>2 DEF Decided
<1>4. ~d.sure \/ (~d.card /\ d.kind = "recommend")
  BY <1>3 DEF Routed, Lane
<1>5. /\ "cart" \notin signs
      /\ "recommend" \in signs \/ "condition" \in signs \/ q \in {"ask", "fork"} \/ ~d.sure
      /\ "buy" \in signs => "recommend" \in signs \/ "condition" \in signs \/ q = "ask"
      /\ "interest" \in signs /\ "pointer" \in signs /\ q = "none" =>
           "recommend" \in signs \/ "condition" \in signs \/ "comparison" \in signs
  BY <1>1, <1>2, <1>4, SearchRules
<1>6. /\ signs \cap {"recommend", "condition"} # {} <=> "recommend" \in signs \/ "condition" \in signs
      /\ {"interest", "pointer"} \subseteq signs <=> "interest" \in signs /\ "pointer" \in signs
  OBVIOUS
<1> QED BY <1>1, <1>3, <1>5, <1>6 DEF SearchReason

\* An answer to a poll stands while its task keeps what it has shown and how it ended.
LEMMA PollLater ==
  ASSUME NEW w, NEW v, NEW p, NEW f, NEW g, PollOK(w, p, f), f => g, w.shown => v.shown,
         w.at \in Over => v.at = w.at /\ v.status = w.status, v.at = "none" => w.at = "none"
  PROVE  PollOK(v, p, g)
<1>1. ASSUME w.at \in Over
      PROVE  Result(v) = Result(w)
  <2>1. v.at = w.at /\ v.status = w.status
    BY <1>1
  <2>2. PICK at, status : at = w.at /\ status = w.status
    OBVIOUS
  <2>3. /\ Result(w) = [code |-> IF at = "done" THEN status ELSE 500, final |-> TRUE, text |-> FALSE]
        /\ Result(v) = [code |-> IF at = "done" THEN status ELSE 500, final |-> TRUE, text |-> FALSE]
    BY <2>1, <2>2 DEF Result
  <2> QED BY <2>3
<1>2. ASSUME NEW i \in DOMAIN p
      PROVE  PollStands(p[i], v, g)
  <2>1. PollStands(p[i], w, f)
    BY DEF PollOK
  <2> QED BY <1>1, <2>1 DEF PollStands
<1> QED BY <1>2 DEF PollOK

\* The task of a stream goes on, or ends and puts its end behind the other pieces.
LEMMA StreamMoves ==
  ASSUME NEW w, NEW v, NEW q, NEW e, NEW c, NEW q2, StreamOK(w, q, e, c), w.at \in Busy,
         v.at \in Busy \cup Over, v.shown = w.shown,
         q2 = IF v.at \in Over THEN q \o <<"end">> ELSE q
  PROVE  StreamOK(v, q2, e, c)
<1>1. w.at \notin Over /\ w.at # "none" /\ v.at # "none"
  BY DEF Busy, Over
<1>2. c \in {"here", "gone"} /\ (c = "here" => Carried(w, q, e)) /\ (c = "gone" => e \in {<<>>, <<"delta">>})
  BY <1>1 DEF StreamOK
<1>3. EndOf(w) = <<>>
  BY <1>1 DEF EndOf
<1>4. ASSUME c = "here"
      PROVE  Carried(v, q2, e)
  <2>1. \/ ~w.shown /\ e = <<>> /\ q = <<>>
        \/ w.shown /\ e = <<>> /\ q = <<"text">>
        \/ w.shown /\ e = <<"delta">> /\ q = <<>>
    <3>1. <<"text">> \o <<>> = <<"text">>
      OBVIOUS
    <3> QED BY <1>2, <1>3, <1>4, <3>1 DEF Carried
  <2>2. q2 = q \o EndOf(v)
    <3>1. CASE v.at \in Over
      BY <3>1 DEF EndOf
    <3>2. CASE v.at \notin Over
      <4>1. q \o <<>> = q
        BY <2>1
      <4> QED BY <3>2, <4>1 DEF EndOf
    <3> QED BY <3>1, <3>2
  <2>3. <<>> \o EndOf(v) = EndOf(v)
    BY DEF EndOf
  <2> QED BY <2>1, <2>2, <2>3 DEF Carried
<1> QED BY <1>1, <1>2, <1>4 DEF StreamOK

LEMMA StreamSame ==
  ASSUME NEW w, NEW v, NEW q, NEW e, NEW c, StreamOK(w, q, e, c), v.at = w.at,
         v.shown = w.shown, v.status = w.status
  PROVE  StreamOK(v, q, e, c)
<1>1. EndOf(v) = EndOf(w) /\ LastEvent(v) = LastEvent(w)
  BY DEF EndOf, LastEvent
<1> QED BY <1>1 DEF StreamOK, Carried

\* Nothing of the other requests changes.
Elsewhere(r) ==
  \A d \in Asked \ {r} :
    /\ work'[d] = work[d] /\ queue'[d] = queue[d] /\ events'[d] = events[d]
    /\ client'[d] = client[d] /\ polls'[d] = polls[d]

LEMMA OneMoves ==
  ASSUME DeliveryInv, NEW r \in Asked, Elsewhere(r), UNCHANGED <<age, jobs, stops>>, DeliveryType',
         WorkShape(work'[r]), WayOK(work'[r]),
         r \in Streams => StreamOK(work'[r], queue'[r], events'[r], client'[r]),
         r \in Polled => /\ PollOK(work'[r], polls'[r], Forgotten(r)) /\ client'[r] = "no"
                         /\ work[r].at # "none" /\ work'[r].since = work[r].since
  PROVE  DeliveryInv'
<1>1. RequestsInv'
  <2> SUFFICES ASSUME NEW d \in Asked PROVE WorkShape(work'[d]) /\ WayOK(work'[d])
    BY DEF RequestsInv
  <2>1. WorkShape(work[d]) /\ WayOK(work[d])
    BY DEF DeliveryInv, RequestsInv
  <2> QED BY <2>1 DEF Elsewhere
<1>2. StreamsInv'
  <2> SUFFICES ASSUME NEW d \in Streams
               PROVE  StreamOK(work'[d], queue'[d], events'[d], client'[d])
    BY DEF StreamsInv
  <2>1. d \in Asked /\ StreamOK(work[d], queue[d], events[d], client[d])
    BY DEF DeliveryInv, StreamsInv, Asked
  <2> QED BY <2>1 DEF Elsewhere
<1>3. PollsInv'
  <2>1. \A d : Forgotten(d)' <=> Forgotten(d)
    BY DEF Forgotten
  <2> SUFFICES ASSUME NEW d \in Polled
               PROVE  PollOK(work'[d], polls'[d], Forgotten(d)') /\ JobOK(d)' /\ client'[d] = "no"
    BY DEF PollsInv
  <2>2. d \in Asked /\ PollOK(work[d], polls[d], Forgotten(d)) /\ JobOK(d) /\ client[d] = "no"
    BY DEF DeliveryInv, PollsInv, Asked
  <2>3. PollOK(work'[d], polls'[d], Forgotten(d)) /\ client'[d] = "no"
    BY <2>2 DEF Elsewhere
  <2>4. work'[d].at # "none" => work[d].at # "none" /\ work'[d].since = work[d].since
    BY <2>2 DEF Elsewhere
  <2>5. JobOK(d)'
    BY <2>2, <2>4 DEF JobOK
  <2>6. PICK f, g : f = Forgotten(d) /\ g = Forgotten(d)'
    OBVIOUS
  <2>7. PollOK(work'[d], polls'[d], g)
    BY <2>1, <2>3, <2>6, PollLater
  <2> QED BY <2>3, <2>5, <2>6, <2>7
<1> QED BY <1>1, <1>2, <1>3 DEF DeliveryInv

TaskMoves(r, new) ==
  /\ work[r].at \in Busy /\ WorkShape(new) /\ WayOK(new) /\ new.at \in Busy \cup Over
  /\ new.shown = work[r].shown /\ new.since = work[r].since
  /\ work' = [work EXCEPT ![r] = new] /\ queue' = Ended(r, new.at)
  /\ UNCHANGED <<age, events, client, jobs, polls, stops>>

LEMMA TaskMovesKeeps ==
  ASSUME DeliveryInv, NEW r \in Asked, NEW new, TaskMoves(r, new)
  PROVE  DeliveryInv'
<1>1. DeliveryType
  BY DEF DeliveryInv
<1>2. PICK q2 : q2 = IF new.at \in Over /\ r \in Streams THEN queue[r] \o <<"end">> ELSE queue[r]
  OBVIOUS
<1>3. queue' = [queue EXCEPT ![r] = q2] /\ work' = [work EXCEPT ![r] = new]
  <2>1. queue' = Ended(r, new.at) /\ queue = [d \in Asked |-> queue[d]]
    BY <1>1 DEF TaskMoves, DeliveryType
  <2>2. CASE new.at \in Over /\ r \in Streams
    BY <1>2, <2>1, <2>2 DEF Ended, Pieces, TaskMoves
  <2>3. CASE ~(new.at \in Over /\ r \in Streams)
    BY <1>2, <2>1, <2>3 DEF Ended, Pieces, TaskMoves
  <2> QED BY <2>2, <2>3
<1>4. DeliveryType' /\ work'[r] = new /\ queue'[r] = q2 /\ Elsewhere(r)
  BY <1>1, <1>3 DEF DeliveryType, Elsewhere, TaskMoves
<1>5. ASSUME r \in Streams
      PROVE  StreamOK(work'[r], queue'[r], events'[r], client'[r])
  <2>1. StreamOK(work[r], queue[r], events[r], client[r]) /\ events' = events /\ client' = client
    BY <1>5 DEF DeliveryInv, StreamsInv, TaskMoves
  <2>2. q2 = IF new.at \in Over THEN queue[r] \o <<"end">> ELSE queue[r]
    BY <1>2, <1>5
  <2> QED BY <1>4, <2>1, <2>2, StreamMoves DEF TaskMoves
<1>6. ASSUME r \in Polled
      PROVE  /\ PollOK(work'[r], polls'[r], Forgotten(r)) /\ client'[r] = "no"
             /\ work[r].at # "none" /\ work'[r].since = work[r].since
  <2>1. PollOK(work[r], polls[r], Forgotten(r)) /\ client[r] = "no" /\ polls' = polls /\ client' = client
    BY <1>6 DEF DeliveryInv, PollsInv, TaskMoves
  <2>2. work[r].at \notin Over /\ work[r].at # "none" /\ new.at # "none"
        /\ new.shown = work[r].shown /\ new.since = work[r].since
    BY DEF TaskMoves, Busy, Over
  <2>3. PICK f : f = Forgotten(r)
    OBVIOUS
  <2>4. PollOK(new, polls[r], f)
    BY <2>1, <2>2, <2>3, PollLater
  <2> QED BY <1>4, <2>1, <2>2, <2>3, <2>4
<1> QED BY <1>4, <1>5, <1>6, OneMoves DEF TaskMoves

\* One step of a task from where it is not over.
LEMMA StepMoves ==
  ASSUME DeliveryInv, NEW r \in Asked, NEW at \in Busy, NEW new, Step(r, at, new),
         WorkShape(new), WayOK(new), new.at \in Busy \cup Over,
         new.shown = work[r].shown, new.since = work[r].since
  PROVE  DeliveryInv'
<1>1. TaskMoves(r, new)
  BY DEF Step, TaskMoves
<1> QED BY <1>1, TaskMovesKeeps

\* A task that goes on, one that is done, and one that nobody expected to fail.
LEMMA GoingIs ==
  ASSUME NEW r, WorkShape(work[r]), work[r].at \in Busy, NEW at \in Busy, NEW lane
  PROVE  LET v == Going(r, at, lane) IN
         /\ WorkShape(v) /\ v.at = at /\ v.shown = work[r].shown /\ v.since = work[r].since
         /\ v.said = work[r].said /\ v.declined = work[r].declined /\ v.searched = work[r].searched
<1>1. PICK w : w = work[r]
  OBVIOUS
<1>2. w = [at |-> w.at, said |-> w.said, lane |-> w.lane, status |-> w.status, since |-> w.since,
           shown |-> w.shown, declined |-> w.declined, searched |-> w.searched, cut |-> w.cut]
  BY <1>1 DEF WorkShape, WorkFields
<1>3. PICK v : v = [w EXCEPT !.at = at, !.lane = lane]
  OBVIOUS
<1>4. v = [at |-> at, said |-> w.said, lane |-> lane, status |-> w.status, since |-> w.since,
           shown |-> w.shown, declined |-> w.declined, searched |-> w.searched, cut |-> w.cut]
  BY <1>2, <1>3
<1>5. w.at # "done" /\ at # "done"
  BY <1>1 DEF Busy
<1>6. WorkShape(v)
  BY <1>1, <1>4, <1>5 DEF WorkShape, WorkFields
<1>7. v = Going(r, at, lane)
  BY <1>1, <1>3 DEF Going
<1> QED BY <1>1, <1>4, <1>6, <1>7

LEMMA RepliedIs ==
  ASSUME NEW r, WorkShape(work[r]), work[r].at \in Busy, NEW status \in Statuses
  PROVE  LET v == Replied(r, status) IN
         /\ WorkShape(v) /\ v.at = "done" /\ v.shown = work[r].shown /\ v.since = work[r].since
         /\ v.said = work[r].said /\ v.declined = work[r].declined /\ v.searched = work[r].searched
<1>1. PICK w : w = work[r]
  OBVIOUS
<1>2. w = [at |-> w.at, said |-> w.said, lane |-> w.lane, status |-> w.status, since |-> w.since,
           shown |-> w.shown, declined |-> w.declined, searched |-> w.searched, cut |-> w.cut]
  BY <1>1 DEF WorkShape, WorkFields
<1>3. PICK v : v = [w EXCEPT !.at = "done", !.status = status]
  OBVIOUS
<1>4. v = [at |-> "done", said |-> w.said, lane |-> w.lane, status |-> status, since |-> w.since,
           shown |-> w.shown, declined |-> w.declined, searched |-> w.searched, cut |-> w.cut]
  BY <1>2, <1>3
<1>5. "done" \in Over
  BY DEF Over
<1>6. WorkShape(v)
  BY <1>1, <1>4, <1>5 DEF WorkShape, WorkFields
<1>7. v = Replied(r, status)
  BY <1>1, <1>3 DEF Replied
<1> QED BY <1>1, <1>4, <1>6, <1>7

EarlyEnd(w, v) ==
  /\ WorkShape(v) /\ v.shown = w.shown /\ v.since = w.since /\ v.said = w.said
  /\ v.declined = w.declined /\ v.searched = w.searched

LEMMA EndedEarly ==
  ASSUME NEW w, WorkShape(w), w.at \in Busy, NEW at, at \in {"failed", "cancelled"}, NEW v,
         v = [w EXCEPT !.at = at]
  PROVE  EarlyEnd(w, v) /\ v.at = at
<1>1. w = [at |-> w.at, said |-> w.said, lane |-> w.lane, status |-> w.status, since |-> w.since,
           shown |-> w.shown, declined |-> w.declined, searched |-> w.searched, cut |-> w.cut]
  BY DEF WorkShape, WorkFields
<1>2. v = [at |-> at, said |-> w.said, lane |-> w.lane, status |-> w.status, since |-> w.since,
           shown |-> w.shown, declined |-> w.declined, searched |-> w.searched, cut |-> w.cut]
  BY <1>1
<1>3. w.at # "done" /\ at # "done" /\ at \in Over
  BY DEF Busy, Over
<1>4. WorkShape(v)
  BY <1>2, <1>3 DEF WorkShape, WorkFields
<1> QED BY <1>2, <1>4 DEF EarlyEnd

LEMMA MarkedIs ==
  ASSUME NEW v, WorkShape(v)
  PROVE  /\ LET d == [v EXCEPT !.declined = TRUE] IN
            /\ WorkShape(d) /\ d.at = v.at /\ d.shown = v.shown /\ d.since = v.since
            /\ d.said = v.said /\ d.declined /\ d.searched = v.searched
         /\ LET s == [v EXCEPT !.searched = TRUE] IN
            /\ WorkShape(s) /\ s.at = v.at /\ s.shown = v.shown /\ s.since = v.since
            /\ s.said = v.said /\ s.declined = v.declined
<1>1. PICK d, s : d = [v EXCEPT !.declined = TRUE] /\ s = [v EXCEPT !.searched = TRUE]
  OBVIOUS
<1>2. v = [at |-> v.at, said |-> v.said, lane |-> v.lane, status |-> v.status, since |-> v.since,
           shown |-> v.shown, declined |-> v.declined, searched |-> v.searched, cut |-> v.cut]
  BY DEF WorkShape, WorkFields
<1>3. d = [at |-> v.at, said |-> v.said, lane |-> v.lane, status |-> v.status, since |-> v.since,
           shown |-> v.shown, declined |-> TRUE, searched |-> v.searched, cut |-> v.cut]
  BY <1>1, <1>2
<1>4. s = [at |-> v.at, said |-> v.said, lane |-> v.lane, status |-> v.status, since |-> v.since,
           shown |-> v.shown, declined |-> v.declined, searched |-> TRUE, cut |-> v.cut]
  BY <1>1, <1>2
<1>5. WorkShape(d) /\ WorkShape(s)
  BY <1>3, <1>4 DEF WorkShape, WorkFields
<1> QED BY <1>1, <1>3, <1>4, <1>5

\* Once a task is past the gate, how it came there does not change any more.
LEMMA WayKept ==
  ASSUME NEW w, NEW v, WayOK(w), v.said = w.said, v.declined = w.declined,
         v.searched = w.searched, v.at \in {"done", "failed", "cancelled"}
  PROVE  WayOK(v)
BY DEF WayOK

LEMMA GateKeeps ==
  ASSUME DeliveryInv, NEW r \in Asked, Gate(r)
  PROVE  DeliveryInv'
<1>1. work[r].at = "asked" /\ "asked" \in Busy /\ WorkShape(work[r]) /\ WayOK(work[r])
  BY DEF Gate, DeliveryInv, RequestsInv, Busy
<1>2. PICK m, d : m = work[r].said /\ d = Decided(m)
  OBVIOUS
<1>3. \/ ~m.shopping /\ Step(r, "asked", Going(r, "finding", "recommend"))
      \/ m.shopping /\ d.sure /\ Step(r, "asked", Going(r, By(Lane(d)), Lane(d)))
      \/ m.shopping /\ ~d.sure /\ Step(r, "asked", Going(r, "judging", "none"))
  BY <1>2 DEF Gate
<1>4. ~work[r].searched
  BY <1>1 DEF WayOK
<1>5. ASSUME NEW at \in Busy, NEW lane, Step(r, "asked", Going(r, at, lane)),
             at = "judging" => ~d.sure, at = "finding" => ~m.shopping \/ Routed(m)
      PROVE  DeliveryInv'
  <2>1. PICK v : v = Going(r, at, lane)
    OBVIOUS
  <2>2. /\ WorkShape(v) /\ v.at = at /\ v.shown = work[r].shown /\ v.since = work[r].since
        /\ v.said = work[r].said /\ v.searched = work[r].searched
    BY <1>1, <2>1, GoingIs
  <2>3. WayOK(v)
    BY <1>2, <1>4, <1>5, <2>2 DEF WayOK
  <2> QED BY <1>1, <1>5, <2>1, <2>2, <2>3, StepMoves
<1>6. CASE ~m.shopping /\ Step(r, "asked", Going(r, "finding", "recommend"))
  <2>1. "finding" \in Busy
    BY DEF Busy
  <2> QED BY <1>5, <1>6, <2>1
<1>7. CASE m.shopping /\ d.sure /\ Step(r, "asked", Going(r, By(Lane(d)), Lane(d)))
  <2>1. PICK at, lane : at = By(Lane(d)) /\ lane = Lane(d)
    OBVIOUS
  <2>2. at \in Busy /\ at # "judging" /\ (at = "finding" => lane = "recommend")
    BY <2>1 DEF By, Lane, Busy
  <2>3. at = "finding" => Routed(m)
    BY <1>2, <2>1, <2>2 DEF Routed
  <2> QED BY <1>5, <1>7, <2>1, <2>2, <2>3
<1>8. CASE m.shopping /\ ~d.sure /\ Step(r, "asked", Going(r, "judging", "none"))
  <2>1. "judging" \in Busy
    BY DEF Busy
  <2> QED BY <1>5, <1>8, <2>1
<1> QED BY <1>3, <1>6, <1>7, <1>8

LEMMA JudgeKeeps ==
  ASSUME DeliveryInv, NEW r \in Asked, Judge(r)
  PROVE  DeliveryInv'
<1>1. work[r].at = "judging" /\ "judging" \in Busy /\ WorkShape(work[r]) /\ WayOK(work[r])
  BY DEF Judge, DeliveryInv, RequestsInv, Busy
<1>2. PICK lane : Step(r, "judging", Going(r, By(lane), lane))
  BY DEF Judge
<1>3. PICK at : at = By(lane)
  OBVIOUS
<1>4. at \in Busy /\ at # "judging"
  BY <1>3 DEF By, Busy
<1>5. PICK v : v = Going(r, at, lane)
  OBVIOUS
<1>6. /\ WorkShape(v) /\ v.at = at /\ v.shown = work[r].shown /\ v.since = work[r].since
      /\ v.said = work[r].said /\ v.searched = work[r].searched
  BY <1>1, <1>4, <1>5, GoingIs
<1>7. ~work[r].searched /\ Routed(work[r].said)
  BY <1>1 DEF WayOK, Routed
<1>8. WayOK(v)
  BY <1>4, <1>6, <1>7 DEF WayOK
<1> QED BY <1>1, <1>2, <1>3, <1>4, <1>5, <1>6, <1>8, StepMoves

\* A task ends with a status.
LEMMA ReplyKeeps ==
  ASSUME DeliveryInv, NEW r \in Asked, NEW at \in Busy, NEW status \in Statuses,
         Step(r, at, Replied(r, status))
  PROVE  DeliveryInv'
<1>1. work[r].at = at /\ WorkShape(work[r]) /\ WayOK(work[r])
  BY DEF Step, DeliveryInv, RequestsInv
<1>2. PICK v : v = Replied(r, status)
  OBVIOUS
<1>3. /\ WorkShape(v) /\ v.at = "done" /\ v.shown = work[r].shown /\ v.since = work[r].since
      /\ v.said = work[r].said /\ v.declined = work[r].declined /\ v.searched = work[r].searched
  BY <1>1, <1>2, RepliedIs
<1>4. WayOK(v)
  BY <1>1, <1>3, WayKept
<1>5. v.at \in Busy \cup Over
  BY <1>3 DEF Over
<1> QED BY <1>2, <1>3, <1>4, <1>5, StepMoves

LEMMA ShopKeeps ==
  ASSUME DeliveryInv, NEW r \in Asked, Shop(r)
  PROVE  DeliveryInv'
<1>1. "shopping" \in Busy /\ "finding" \in Busy
  BY DEF Busy
<1>2. CASE \E status \in {200, 400, 500} : Step(r, "shopping", Replied(r, status))
  BY <1>1, <1>2, ReplyKeeps DEF Statuses
<1>3. CASE Step(r, "shopping", [Going(r, "finding", "recommend") EXCEPT !.declined = TRUE])
  <2>1. work[r].at = "shopping" /\ WorkShape(work[r]) /\ WayOK(work[r])
    BY <1>3 DEF Step, DeliveryInv, RequestsInv
  <2>2. PICK g : g = Going(r, "finding", "recommend")
    OBVIOUS
  <2>3. WorkShape(g) /\ g.at = "finding" /\ g.shown = work[r].shown /\ g.since = work[r].since
    BY <1>1, <2>1, <2>2, GoingIs
  <2>4. PICK v : v = [g EXCEPT !.declined = TRUE]
    OBVIOUS
  <2>5. WorkShape(v) /\ v.at = "finding" /\ v.shown = work[r].shown /\ v.since = work[r].since /\ v.declined
    BY <2>3, <2>4, MarkedIs
  <2>6. WayOK(v)
    BY <2>5 DEF WayOK
  <2>7. Step(r, "shopping", v) /\ v.at \in Busy \cup Over
    BY <1>1, <1>3, <2>2, <2>4, <2>5
  <2> QED BY <1>1, <2>5, <2>6, <2>7, StepMoves
<1> QED BY <1>2, <1>3 DEF Shop

LEMMA RecommendKeeps ==
  ASSUME DeliveryInv, NEW r \in Asked, Recommend(r)
  PROVE  DeliveryInv'
<1>1. "finding" \in Busy /\ "writing" \in Busy /\ 200 \in Statuses /\ 500 \in Statuses
  BY DEF Busy, Statuses
<1>2. CASE Step(r, "finding", Replied(r, 200))
  BY <1>1, <1>2, ReplyKeeps
<1>3. ASSUME NEW g, NEW lane, g = Going(r, "writing", lane) \/ g = Replied(r, 500),
             Step(r, "finding", [g EXCEPT !.searched = TRUE])
      PROVE  DeliveryInv'
  <2>1. work[r].at = "finding" /\ WorkShape(work[r]) /\ WayOK(work[r])
    BY <1>3 DEF Step, DeliveryInv, RequestsInv
  <2>2. /\ WorkShape(g) /\ g.at \in {"writing", "done"} /\ g.shown = work[r].shown
        /\ g.since = work[r].since /\ g.said = work[r].said /\ g.declined = work[r].declined
    <3>1. CASE g = Going(r, "writing", lane)
      BY <1>1, <2>1, <3>1, GoingIs
    <3>2. CASE g = Replied(r, 500)
      BY <1>1, <2>1, <3>2, RepliedIs
    <3> QED BY <1>3, <3>1, <3>2
  <2>3. PICK v : v = [g EXCEPT !.searched = TRUE]
    OBVIOUS
  <2>4. /\ WorkShape(v) /\ v.at \in {"writing", "done"} /\ v.shown = work[r].shown
        /\ v.since = work[r].since /\ v.said = work[r].said /\ v.declined = work[r].declined
    BY <2>2, <2>3, MarkedIs
  <2>5. v.declined \/ ~v.said.shopping \/ Routed(v.said)
    BY <2>1, <2>4 DEF WayOK
  <2>6. WayOK(v)
    BY <2>4, <2>5 DEF WayOK
  <2>7. Step(r, "finding", v) /\ v.at \in Busy \cup Over
    BY <1>3, <2>3, <2>4 DEF Busy, Over
  <2> QED BY <1>1, <2>4, <2>6, <2>7, StepMoves
<1>4. CASE \E status \in {0, 500} :
        Step(r, "finding",
             [IF status = 0 THEN Going(r, "writing", work[r].lane) ELSE Replied(r, status)
                EXCEPT !.searched = TRUE])
  <2>1. PICK status \in {0, 500} :
          Step(r, "finding",
               [IF status = 0 THEN Going(r, "writing", work[r].lane) ELSE Replied(r, status)
                  EXCEPT !.searched = TRUE])
    BY <1>4
  <2>2. PICK g, lane : /\ g = IF status = 0 THEN Going(r, "writing", work[r].lane) ELSE Replied(r, status)
                       /\ lane = work[r].lane
    OBVIOUS
  <2>3. g = Going(r, "writing", lane) \/ g = Replied(r, 500)
    BY <2>1, <2>2
  <2>4. Step(r, "finding", [g EXCEPT !.searched = TRUE])
    BY <2>1, <2>2
  <2> QED BY <1>3, <2>3, <2>4
<1> QED BY <1>2, <1>4 DEF Recommend

LEMMA RaisesKeeps ==
  ASSUME DeliveryInv, NEW r \in Asked, Raises(r)
  PROVE  DeliveryInv'
<1>1. PICK at \in Busy : Step(r, at, [work[r] EXCEPT !.at = "failed"])
  BY DEF Raises, Busy
<1>2. work[r].at = at /\ WorkShape(work[r]) /\ WayOK(work[r])
  BY <1>1 DEF Step, DeliveryInv, RequestsInv
<1>3. PICK w, v, end : w = work[r] /\ v = [w EXCEPT !.at = end] /\ end = "failed"
  OBVIOUS
<1>4. /\ WorkShape(v) /\ v.at = end /\ v.shown = w.shown /\ v.since = w.since
      /\ v.said = w.said /\ v.declined = w.declined /\ v.searched = w.searched
  <2>1. end \in {"failed", "cancelled"}
    BY <1>3
  <2>2. WorkShape(w) /\ w.at \in Busy
    BY <1>2, <1>3
  <2>3. EarlyEnd(w, v) /\ v.at = end
    BY <1>3, <2>1, <2>2, EndedEarly
  <2> QED BY <2>3 DEF EarlyEnd
<1>5. WayOK(v) /\ v.at \in Busy \cup Over
  <2>1. v.at \in Over
    BY <1>3, <1>4 DEF Over
  <2>2. v.at \in {"done", "failed", "cancelled"} /\ WayOK(w)
    BY <1>2, <1>3, <1>4
  <2>3. WayOK(v)
    BY <1>4, <2>2, WayKept
  <2> QED BY <2>1, <2>3
<1> QED BY <1>1, <1>3, <1>4, <1>5, StepMoves

LEMMA CancelledKeeps ==
  ASSUME DeliveryInv, NEW r \in Asked, Cancelled(r)
  PROVE  DeliveryInv'
<1>1. WorkShape(work[r]) /\ WayOK(work[r]) /\ work[r].at \in Busy
  BY DEF Cancelled, Running, DeliveryInv, RequestsInv, WorkShape
<1>2. PICK w, v, end : w = work[r] /\ v = [w EXCEPT !.at = end] /\ end = "cancelled"
  OBVIOUS
<1>3. /\ WorkShape(v) /\ v.at = end /\ v.shown = w.shown /\ v.since = w.since
      /\ v.said = w.said /\ v.declined = w.declined /\ v.searched = w.searched
  <2>1. end \in {"failed", "cancelled"}
    BY <1>2
  <2>2. WorkShape(w) /\ w.at \in Busy
    BY <1>1, <1>2
  <2>3. EarlyEnd(w, v) /\ v.at = end
    BY <1>2, <2>1, <2>2, EndedEarly
  <2> QED BY <2>3 DEF EarlyEnd
<1>4. WayOK(v) /\ v.at \in Busy \cup Over
  <2>1. v.at \in Over
    BY <1>2, <1>3 DEF Over
  <2>2. v.at \in {"done", "failed", "cancelled"} /\ WayOK(w)
    BY <1>1, <1>2, <1>3
  <2>3. WayOK(v)
    BY <1>3, <2>2, WayKept
  <2> QED BY <2>1, <2>3
<1>5. work' = [work EXCEPT ![r] = v] /\ queue' = Ended(r, "cancelled")
      /\ UNCHANGED <<age, events, client, jobs, polls, stops>>
  BY <1>2 DEF Cancelled
<1>6. TaskMoves(r, v)
  BY <1>1, <1>2, <1>3, <1>4, <1>5 DEF TaskMoves
<1> QED BY <1>6, TaskMovesKeeps

LEMMA PreviewKeeps ==
  ASSUME DeliveryInv, NEW r \in Asked, Preview(r)
  PROVE  DeliveryInv'
<1>1. /\ DeliveryType /\ WorkShape(work[r]) /\ WayOK(work[r])
      /\ work[r].at = "writing" /\ ~work[r].shown
      /\ UNCHANGED <<age, events, client, jobs, polls, stops>>
  BY DEF Preview, DeliveryInv, RequestsInv
<1>2. PICK w, v : w = work[r] /\ v = [w EXCEPT !.shown = TRUE]
  OBVIOUS
<1>3. w = [at |-> w.at, said |-> w.said, lane |-> w.lane, status |-> w.status, since |-> w.since,
           shown |-> w.shown, declined |-> w.declined, searched |-> w.searched, cut |-> w.cut]
  BY <1>1, <1>2 DEF WorkShape, WorkFields
<1>4. v = [at |-> w.at, said |-> w.said, lane |-> w.lane, status |-> w.status, since |-> w.since,
           shown |-> TRUE, declined |-> w.declined, searched |-> w.searched, cut |-> w.cut]
  BY <1>2, <1>3
<1>5. v.shown = TRUE /\ v.at = w.at /\ v.since = w.since /\ v.at = "writing"
  BY <1>1, <1>2, <1>4
<1>6. WorkShape(v)
  BY <1>1, <1>2, <1>4 DEF WorkShape, WorkFields
<1>7. WayOK(v)
  BY <1>1, <1>2, <1>4 DEF WayOK
<1>8. PICK q2 : q2 = IF r \in Streams THEN queue[r] \o <<"text">> ELSE queue[r]
  OBVIOUS
<1>9. queue' = [queue EXCEPT ![r] = q2] /\ work' = [work EXCEPT ![r] = v]
  <2>1. queue' = Pieces(r, <<"text">>) /\ work' = [work EXCEPT ![r] = v]
    BY <1>2 DEF Preview
  <2>2. Pieces(r, <<"text">>) = [queue EXCEPT ![r] = q2]
    <3>1. CASE r \in Streams
      BY <1>8, <3>1 DEF Pieces
    <3>2. CASE r \notin Streams
      BY <1>8, <3>2 DEF Pieces
    <3> QED BY <3>1, <3>2
  <2> QED BY <2>1, <2>2
<1>10. DeliveryType' /\ work'[r] = v /\ queue'[r] = q2 /\ Elsewhere(r)
  BY <1>1, <1>9 DEF DeliveryType, Elsewhere
<1>11. ASSUME r \in Streams
       PROVE  StreamOK(v, q2, events[r], client[r])
  <2>1. PICK q, e, c : q = queue[r] /\ e = events[r] /\ c = client[r]
    OBVIOUS
  <2>2. StreamOK(w, q, e, c) /\ q2 = q \o <<"text">> /\ ~w.shown
    BY <1>1, <1>2, <1>8, <1>11, <2>1 DEF DeliveryInv, StreamsInv
  <2>3. w.at = "writing" /\ "writing" \notin Over
    BY <1>1, <1>2 DEF Over
  <2>4. EndOf(w) = <<>> /\ EndOf(v) = <<>>
    BY <1>5, <2>3 DEF EndOf
  <2>5. c \in {"here", "gone"}
    BY <2>2, <2>3 DEF StreamOK
  <2>6. c = "here" => q = <<>> /\ e = <<>>
    BY <2>2, <2>4 DEF StreamOK, Carried
  <2>7. <<>> \o <<"text">> = <<"text">> \o <<>>
    OBVIOUS
  <2>8. c = "here" => Carried(v, q2, e)
    BY <1>5, <2>2, <2>4, <2>6, <2>7 DEF Carried
  <2>9. c = "gone" => e \in {<<>>, <<"delta">>}
    BY <2>2 DEF StreamOK
  <2>10. StreamOK(v, q2, e, c)
    BY <1>5, <2>3, <2>5, <2>8, <2>9 DEF StreamOK
  <2> QED BY <2>1, <2>10
<1>12. ASSUME r \in Polled
       PROVE  PollOK(v, polls[r], Forgotten(r)) /\ client[r] = "no"
  <2>1. PICK f : f = Forgotten(r)
    OBVIOUS
  <2>2. PollOK(w, polls[r], f) /\ client[r] = "no" /\ w.at \notin Over
    BY <1>1, <1>2, <1>12, <2>1 DEF DeliveryInv, PollsInv, Over
  <2>3. w.shown => v.shown
    BY <1>1, <1>2
  <2>4. (w.at \in Over => v.at = w.at /\ v.status = w.status) /\ (v.at = "none" => w.at = "none")
    BY <1>5, <2>2
  <2>5. PollOK(v, polls[r], f)
    BY <2>2, <2>3, <2>4, PollLater
  <2> QED BY <2>1, <2>2, <2>5
<1>13. work[r].at # "none" /\ work'[r].since = work[r].since
  BY <1>1, <1>2, <1>5, <1>10
<1> QED BY <1>1, <1>6, <1>7, <1>10, <1>11, <1>12, <1>13, OneMoves

\* A request as it comes in.
LEMMA NewWorkIs ==
  ASSUME NEW m, NEW now \in Nat, NEW at, at = "asked" \/ at = "none", NEW v,
         v = [at |-> at, said |-> m, lane |-> "none", status |-> 0, since |-> now,
              shown |-> FALSE, declined |-> FALSE, searched |-> FALSE, cut |-> FALSE]
  PROVE  WorkShape(v) /\ WayOK(v) /\ v.at = at /\ v.since = now /\ ~v.shown /\ ~v.searched
<1>1. /\ v.at = at /\ v.said = m /\ v.lane = "none" /\ v.status = 0 /\ v.since = now
      /\ v.shown = FALSE /\ v.declined = FALSE /\ v.searched = FALSE /\ v.cut = FALSE
  OBVIOUS
<1>2. WorkFields(v)
  BY DEF WorkFields
<1>3. at \in Busy \cup Over \cup {"none"} /\ at # "done"
  BY DEF Busy
<1>4. WorkShape(v)
  BY <1>1, <1>2, <1>3 DEF WorkShape
<1>5. WayOK(v)
  BY <1>1 DEF WayOK
<1> QED BY <1>1, <1>4, <1>5

NewWork(m, now) == [NoWork EXCEPT !.at = "asked", !.said = m, !.since = now]

LEMMA AskedIs ==
  ASSUME NEW m, NEW now \in Nat, NEW v, v = NewWork(m, now)
  PROVE  WorkShape(v) /\ WayOK(v) /\ v.at = "asked" /\ v.since = now /\ ~v.shown
<1>1. PICK at : at = "asked"
  OBVIOUS
<1>2. v = [at |-> at, said |-> m, lane |-> "none", status |-> 0, since |-> now,
           shown |-> FALSE, declined |-> FALSE, searched |-> FALSE, cut |-> FALSE]
  BY <1>1 DEF NoWork, NewWork
<1>3. PICK u : u = [at |-> at, said |-> m, lane |-> "none", status |-> 0, since |-> now,
                    shown |-> FALSE, declined |-> FALSE, searched |-> FALSE, cut |-> FALSE]
  OBVIOUS
<1>4. WorkShape(u) /\ WayOK(u) /\ u.at = at /\ u.since = now /\ ~u.shown
  BY <1>1, <1>3, NewWorkIs
<1> QED BY <1>1, <1>2, <1>3, <1>4

LEMMA OpenStreamKeeps ==
  ASSUME DeliveryInv, NEW r \in Asked, NEW m, OpenStream(r, m)
  PROVE  DeliveryInv'
<1>1. /\ DeliveryType /\ r \in Streams /\ work[r].at = "none"
      /\ StreamOK(work[r], queue[r], events[r], client[r])
      /\ UNCHANGED <<age, queue, events, jobs, polls, stops>>
  BY DEF OpenStream, DeliveryInv, StreamsInv
<1>2. PICK v : v = NewWork(m, age)
  OBVIOUS
<1>3. WorkShape(v) /\ WayOK(v) /\ v.at = "asked" /\ v.since = age /\ ~v.shown
  <2>1. PICK now : now = age
    OBVIOUS
  <2>2. now \in Nat
    BY <1>1, <2>1 DEF DeliveryType
  <2> QED BY <1>2, <2>1, <2>2, AskedIs
<1>4. work' = [work EXCEPT ![r] = v] /\ client' = [client EXCEPT ![r] = "here"]
  BY <1>2 DEF OpenStream, Asks, NewWork
<1>5. DeliveryType' /\ work'[r] = v /\ client'[r] = "here" /\ Elsewhere(r)
  BY <1>1, <1>4 DEF DeliveryType, Elsewhere
<1>6. queue[r] = <<>> /\ events[r] = <<>>
  BY <1>1 DEF StreamOK
<1>7. EndOf(v) = <<>>
  BY <1>3 DEF EndOf, Over
<1>8. StreamOK(v, queue[r], events[r], "here")
  BY <1>3, <1>6, <1>7 DEF StreamOK, Carried
<1>9. r \notin Polled
  BY <1>1, DeliveryAssumption
<1> QED BY <1>1, <1>3, <1>5, <1>8, <1>9, OneMoves

LEMMA PairIs ==
  ASSUME NEW a, NEW b
  PROVE  Append(<<a>>, b) = <<a, b>> /\ <<a>> \o <<b>> = <<a, b>>
<1>1. PICK S, s, t : S = {a, b} /\ s = <<a>> /\ t = <<a, b>>
  OBVIOUS
<1>2. s \in Seq(S) /\ <<b>> \in Seq(S) /\ a \in S /\ b \in S
  <2>1. a \in S /\ b \in S
    BY <1>1
  <2>2. <<a>> \in Seq(S)
    BY <2>1
  <2>3. <<b>> \in Seq(S)
    BY <2>1
  <2> QED BY <1>1, <2>1, <2>2, <2>3
<1>3. Len(s) = 1 /\ s[1] = a /\ Len(t) = 2 /\ t[1] = a /\ t[2] = b /\ t \in Seq(S)
  <2>1. Len(s) = 1 /\ s[1] = a
    BY <1>1
  <2>2. Len(t) = 2 /\ t[1] = a /\ t[2] = b
    BY <1>1
  <2>3. t \in Seq(S)
    <3>1. t \in [1 .. 2 -> S]
      <4>1. DOMAIN t = 1 .. 2 /\ t = [i \in 1 .. 2 |-> t[i]]
        BY <1>1
      <4>2. \A i \in 1 .. 2 : t[i] \in S
        BY <1>2, <2>2
      <4> QED BY <4>1, <4>2
    <3> QED BY <3>1, SeqDef
  <2> QED BY <2>1, <2>2, <2>3
<1>4. PICK u : u = Append(s, b)
  OBVIOUS
<1>5. u \in Seq(S) /\ Len(u) = 2 /\ u[1] = a /\ u[2] = b
  <2>1. /\ u \in Seq(S) /\ Len(u) = Len(s) + 1 /\ u[Len(s) + 1] = b
        /\ \A i \in 1 .. Len(s) : u[i] = s[i]
    BY <1>2, <1>4, AppendProperties
  <2> QED BY <1>3, <2>1
<1>6. u = t
  <2>1. \A i \in 1 .. Len(u) : u[i] = t[i]
    BY <1>3, <1>5
  <2> QED BY <1>2, <1>3, <1>5, <2>1, SeqEqual
<1>7. Append(s, b) = s \o <<b>>
  BY <1>2, AppendIsConcat
<1> QED BY <1>1, <1>4, <1>6, <1>7

LEMMA SendKeeps ==
  ASSUME DeliveryInv, NEW r \in Asked, Send(r)
  PROVE  DeliveryInv'
<1>1. /\ DeliveryType /\ client[r] = "here" /\ queue[r] # <<>>
      /\ WorkShape(work[r]) /\ WayOK(work[r])
      /\ UNCHANGED <<age, work, jobs, polls, stops>>
  BY DEF Send, DeliveryInv, RequestsInv
<1>2. r \notin Polled /\ r \in Streams
  BY <1>1 DEF DeliveryInv, PollsInv, Asked
<1>3. PICK w, q, e, piece : w = work[r] /\ q = queue[r] /\ e = events[r] /\ piece = Head(q)
  OBVIOUS
<1>4. PICK e2, c2 : /\ e2 = Append(e, IF piece = "text" THEN "delta" ELSE LastEvent(w))
                    /\ c2 = IF piece = "text" THEN "here" ELSE "ended"
  OBVIOUS
<1>5. /\ events' = [events EXCEPT ![r] = e2] /\ client' = [client EXCEPT ![r] = c2]
      /\ queue' = [queue EXCEPT ![r] = Tail(q)]
  BY <1>1, <1>3, <1>4 DEF Send
<1>6. /\ DeliveryType' /\ events'[r] = e2 /\ client'[r] = c2 /\ queue'[r] = Tail(q) /\ Elsewhere(r)
  BY <1>1, <1>5 DEF DeliveryType, Elsewhere
<1>7. StreamOK(w, q, e, "here") /\ q # <<>>
  BY <1>1, <1>2, <1>3 DEF DeliveryInv, StreamsInv
<1>8. Carried(w, q, e) /\ w.at # "none"
  BY <1>7 DEF StreamOK
<1>9. StreamOK(w, Tail(q), e2, c2)
  <2>1. CASE w.shown /\ e = <<>> /\ q = <<"text">> \o EndOf(w)
    <3>1. piece = "text" /\ Tail(q) = EndOf(w)
      <4>1. CASE w.at \in Over
        <5>1. EndOf(w) = <<"end">> /\ q = <<"text", "end">>
          <6>1. PICK a, b : a = "text" /\ b = "end"
            OBVIOUS
          <6>2. <<a>> \o <<b>> = <<a, b>>
            BY PairIs
          <6>3. EndOf(w) = <<b>>
            BY <4>1, <6>1 DEF EndOf
          <6> QED BY <2>1, <6>1, <6>2, <6>3
        <5> QED BY <1>3, <5>1
      <4>2. CASE w.at \notin Over
        <5>1. EndOf(w) = <<>> /\ q = <<"text">>
          BY <2>1, <4>2 DEF EndOf
        <5> QED BY <1>3, <5>1
      <4> QED BY <4>1, <4>2
    <3>2. e2 = <<"delta">> /\ c2 = "here"
      BY <1>4, <2>1, <3>1
    <3> QED BY <1>8, <2>1, <3>1, <3>2 DEF StreamOK, Carried
  <2>2. CASE q = EndOf(w)
    <3>1. w.at \in Over /\ q = <<"end">>
      BY <1>7, <2>2 DEF EndOf
    <3>2. piece = "end"
      BY <1>3, <3>1
    <3>3. e2 = Append(e, LastEvent(w)) /\ c2 = "ended"
      BY <1>4, <3>2
    <3>4. CASE w.shown
      <4>1. e = <<"delta">>
        BY <1>8, <3>1, <3>4 DEF Carried, EndOf
      <4>2. e2 = <<"delta", LastEvent(w)>>
        <5>1. PICK x : x = LastEvent(w)
          OBVIOUS
        <5>2. PICK d : d = "delta"
          OBVIOUS
        <5>3. Append(<<d>>, x) = <<d, x>>
          BY PairIs
        <5> QED BY <3>3, <4>1, <5>1, <5>2, <5>3
      <4> QED BY <1>8, <3>1, <3>3, <3>4, <4>2 DEF StreamOK
    <3>5. CASE ~w.shown
      <4>1. e = <<>>
        BY <1>8, <3>5 DEF Carried
      <4>2. e2 = <<LastEvent(w)>>
        BY <3>3, <4>1
      <4> QED BY <1>8, <3>1, <3>3, <3>5, <4>2 DEF StreamOK
    <3> QED BY <3>4, <3>5
  <2> QED BY <1>8, <2>1, <2>2 DEF Carried
<1> QED BY <1>1, <1>2, <1>3, <1>6, <1>9, OneMoves

\* A mark on a task that it was cancelled changes nothing else of it.
CutOnly(w, v) ==
  /\ WorkShape(w) => WorkShape(v)
  /\ WayOK(w) => WayOK(v)
  /\ v.at = w.at /\ v.shown = w.shown /\ v.status = w.status /\ v.since = w.since

LEMMA CutIs ==
  ASSUME NEW w, WorkShape(w), NEW cut, NEW v, v = [w EXCEPT !.cut = cut]
  PROVE  CutOnly(w, v)
<1>1. w = [at |-> w.at, said |-> w.said, lane |-> w.lane, status |-> w.status, since |-> w.since,
           shown |-> w.shown, declined |-> w.declined, searched |-> w.searched, cut |-> w.cut]
  BY DEF WorkShape, WorkFields
<1>2. v = [at |-> w.at, said |-> w.said, lane |-> w.lane, status |-> w.status, since |-> w.since,
           shown |-> w.shown, declined |-> w.declined, searched |-> w.searched, cut |-> cut]
  BY <1>1
<1>3. WorkShape(v)
  BY <1>2 DEF WorkShape, WorkFields
<1>4. WayOK(w) => WayOK(v)
  BY <1>2 DEF WayOK
<1> QED BY <1>2, <1>3, <1>4 DEF CutOnly

LEMMA HangUpKeeps ==
  ASSUME DeliveryInv, NEW r \in Asked, HangUp(r)
  PROVE  DeliveryInv'
<1>1. /\ DeliveryType /\ client[r] = "here" /\ WorkShape(work[r]) /\ WayOK(work[r])
      /\ UNCHANGED <<age, queue, events, jobs, polls, stops>>
  BY DEF HangUp, DeliveryInv, RequestsInv
<1>2. r \notin Polled /\ r \in Streams
  BY <1>1 DEF DeliveryInv, PollsInv, Asked
<1>3. PICK cut, v : cut = Running(r) /\ v = [work[r] EXCEPT !.cut = cut]
  OBVIOUS
<1>4. work' = [work EXCEPT ![r] = v] /\ client' = [client EXCEPT ![r] = "gone"]
  BY <1>3 DEF HangUp
<1>5. DeliveryType' /\ work'[r] = v /\ client'[r] = "gone" /\ Elsewhere(r)
  BY <1>1, <1>4 DEF DeliveryType, Elsewhere
<1>6. CutOnly(work[r], v)
  BY <1>1, <1>3, CutIs
<1>7. StreamOK(work[r], queue[r], events[r], "here")
  BY <1>1, <1>2 DEF DeliveryInv, StreamsInv
<1>8. StreamOK(v, queue[r], events[r], "gone")
  BY <1>6, <1>7 DEF StreamOK, Carried, CutOnly
<1> QED BY <1>1, <1>2, <1>5, <1>6, <1>8, OneMoves DEF CutOnly

-----------------------------------------------------------------------------
(* What moves more than one request: the sweep, a restart and the clock.   *)

\* The sweep cuts the tasks whose time is over, and nothing else of them.
LEMMA CutSweptIs ==
  ASSUME DeliveryInv, NEW w, NEW r \in Asked, WorkShape(w[r])
  PROVE  CutOnly(w[r], CutSwept(w)[r])
<1>1. PICK x, v : x = w[r] /\ v = CutSwept(w)[r]
  OBVIOUS
<1>2. v = IF r \in Swept /\ Running(r) THEN [x EXCEPT !.cut = TRUE] ELSE x
  BY <1>1 DEF CutSwept
<1>3. CASE v = x
  BY <1>1, <1>3 DEF CutOnly
<1>4. CASE v = [x EXCEPT !.cut = TRUE]
  <2>1. PICK cut : cut = TRUE
    OBVIOUS
  <2>2. WorkShape(x) /\ v = [x EXCEPT !.cut = cut]
    BY <1>1, <1>4, <2>1
  <2>3. CutOnly(x, v)
    BY <2>2, CutIs
  <2> QED BY <1>1, <2>3
<1> QED BY <1>2, <1>3, <1>4

\* A job that is kept stays as young as it was; the others are forgotten already.
LEMMA KeptIs ==
  ASSUME NEW r
  PROVE  (r \in DOMAIN Kept <=> ~Forgotten(r)) /\ (r \in DOMAIN Kept => Kept[r] = jobs[r])
BY DEF Kept, Swept, Forgotten

\* Where jobs are swept, nothing that was known is known longer, and nothing is lost early.
LEMMA SweptJobs ==
  ASSUME DeliveryInv, NEW r \in Polled, age' = age, stops' = stops,
         r \in DOMAIN jobs' <=> r \in DOMAIN Kept, r \in DOMAIN Kept => jobs'[r] = Kept[r],
         work'[r].since = work[r].since, work'[r].at = "none" <=> work[r].at = "none"
  PROVE  (Forgotten(r)' <=> Forgotten(r)) /\ JobOK(r)'
<1>1. (r \in DOMAIN Kept <=> ~Forgotten(r)) /\ (r \in DOMAIN Kept => Kept[r] = jobs[r])
  BY KeptIs
<1>2. JobOK(r)
  BY DEF DeliveryInv, PollsInv
<1>3. Forgotten(r)' <=> Forgotten(r)
  BY <1>1 DEF Forgotten
<1>4. ASSUME work'[r].at # "none"
      PROVE  stops > 0 \/ age - work[r].since > Keep \/ (r \in DOMAIN jobs' /\ jobs'[r] = work[r].since)
  <2>1. CASE Forgotten(r)
    BY <1>2, <1>4, <2>1 DEF JobOK, Forgotten
  <2>2. CASE ~Forgotten(r)
    <3>1. r \in DOMAIN jobs' /\ jobs'[r] = jobs[r]
      BY <1>1, <2>2
    <3> QED BY <1>2, <1>4, <3>1 DEF JobOK
  <2> QED BY <2>1, <2>2
<1>5. JobOK(r)'
  BY <1>4 DEF JobOK
<1> QED BY <1>3, <1>5

LEMMA SweepKeeps ==
  ASSUME DeliveryInv, DeliveryType', UNCHANGED <<age, queue, events, client, stops>>, NEW r \in Polled,
         \A d \in Asked \ {r} : CutOnly(work[d], work'[d]) /\ polls'[d] = polls[d],
         \A d \in Polled \ {r} : /\ d \in DOMAIN jobs' <=> d \in DOMAIN Kept
                                 /\ d \in DOMAIN Kept => jobs'[d] = Kept[d],
         WorkShape(work'[r]), WayOK(work'[r]), PollOK(work'[r], polls'[r], Forgotten(r)'), JobOK(r)'
  PROVE  DeliveryInv'
<1>1. RequestsInv'
  <2> SUFFICES ASSUME NEW d \in Asked PROVE WorkShape(work'[d]) /\ WayOK(work'[d])
    BY DEF RequestsInv
  <2>1. CASE d = r
    BY <2>1
  <2>2. CASE d # r
    <3>1. WorkShape(work[d]) /\ WayOK(work[d]) /\ CutOnly(work[d], work'[d])
      BY <2>2 DEF DeliveryInv, RequestsInv
    <3> QED BY <3>1 DEF CutOnly
  <2> QED BY <2>1, <2>2
<1>2. StreamsInv'
  <2> SUFFICES ASSUME NEW d \in Streams
               PROVE  StreamOK(work'[d], queue[d], events[d], client[d])
    BY DEF StreamsInv
  <2>1. d \in Asked /\ d # r
    BY DeliveryAssumption DEF Asked
  <2>2. StreamOK(work[d], queue[d], events[d], client[d]) /\ CutOnly(work[d], work'[d])
    BY <2>1 DEF DeliveryInv, StreamsInv
  <2>3. work'[d].at = work[d].at /\ work'[d].shown = work[d].shown /\ work'[d].status = work[d].status
    BY <2>2 DEF CutOnly
  <2>4. PICK w, v : w = work[d] /\ v = work'[d]
    OBVIOUS
  <2> QED BY <2>2, <2>3, <2>4, StreamSame
<1>3. PollsInv'
  <2> SUFFICES ASSUME NEW d \in Polled
               PROVE  PollOK(work'[d], polls'[d], Forgotten(d)') /\ JobOK(d)' /\ client[d] = "no"
    BY DEF PollsInv
  <2>1. d \in Asked /\ client[d] = "no"
    BY DEF DeliveryInv, PollsInv, Asked
  <2>2. CASE d = r
    BY <2>1, <2>2
  <2>3. CASE d # r
    <3>1. CutOnly(work[d], work'[d]) /\ polls'[d] = polls[d] /\ PollOK(work[d], polls[d], Forgotten(d))
      BY <2>1, <2>3 DEF DeliveryInv, PollsInv
    <3>2. /\ work'[d].at = work[d].at /\ work'[d].shown = work[d].shown
          /\ work'[d].status = work[d].status /\ work'[d].since = work[d].since
      BY <3>1 DEF CutOnly
    <3>3. (Forgotten(d)' <=> Forgotten(d)) /\ JobOK(d)'
      BY <2>3, <3>2, SweptJobs
    <3>4. PICK w, v, p, f, g : /\ w = work[d] /\ v = work'[d] /\ p = polls[d]
                               /\ f = Forgotten(d) /\ g = Forgotten(d)'
      OBVIOUS
    <3>5. PollOK(w, p, f) /\ (f => g) /\ v.at = w.at /\ v.shown = w.shown /\ v.status = w.status
      BY <3>1, <3>2, <3>3, <3>4
    <3>6. PollOK(v, p, g)
      <4>1. w.shown => v.shown
        BY <3>5
      <4> QED BY <3>5, <4>1, PollLater
    <3> QED BY <2>1, <3>1, <3>3, <3>4, <3>6
  <2> QED BY <2>2, <2>3
<1> QED BY <1>1, <1>2, <1>3 DEF DeliveryInv

LEMMA HandInKeeps ==
  ASSUME DeliveryInv, NEW r \in Asked, NEW m, HandIn(r, m)
  PROVE  DeliveryInv'
<1>1. /\ DeliveryType /\ r \in Polled /\ work[r].at = "none" /\ age \in Nat
      /\ UNCHANGED <<age, queue, events, client, polls, stops>>
  BY DEF HandIn, DeliveryInv, DeliveryType
<1>2. work' = CutSwept(Asks(r, m)) /\ jobs' = [q \in DOMAIN Kept \cup {r} |-> IF q = r THEN age ELSE Kept[q]]
  BY DEF HandIn
<1>3. PICK v : v = NewWork(m, age)
  OBVIOUS
<1>4. Asks(r, m) = [work EXCEPT ![r] = v]
  BY <1>3 DEF Asks, NewWork
<1>5. WorkShape(v) /\ WayOK(v) /\ v.at = "asked" /\ v.since = age
  <2>1. PICK now : now = age
    OBVIOUS
  <2> QED BY <1>1, <1>3, <2>1, AskedIs
<1>6. work'[r] = v
  BY <1>1, <1>2, <1>4 DEF CutSwept, Running, DeliveryType
<1>7. ASSUME NEW d \in Asked \ {r}
      PROVE  CutOnly(work[d], work'[d])
  <2>1. PICK a : a = Asks(r, m)
    OBVIOUS
  <2>2. a[d] = work[d] /\ WorkShape(work[d])
    BY <1>1, <1>4, <2>1 DEF DeliveryType, DeliveryInv, RequestsInv
  <2>3. CutOnly(a[d], CutSwept(a)[d])
    BY <2>2, CutSweptIs
  <2> QED BY <1>2, <2>1, <2>2, <2>3
<1>8. DOMAIN jobs' = DOMAIN Kept \cup {r} /\ jobs'[r] = age
      /\ \A d \in Polled \ {r} : d \in DOMAIN Kept => jobs'[d] = Kept[d]
  BY <1>2
<1>9. DOMAIN Kept \subseteq DOMAIN jobs /\ \A d \in DOMAIN Kept : Kept[d] = jobs[d]
  BY DEF Kept
<1>10. DeliveryType'
  <2>1. DOMAIN jobs' \subseteq Polled /\ \A d \in DOMAIN jobs' : jobs'[d] \in Nat
    BY <1>1, <1>2, <1>8, <1>9 DEF DeliveryType
  <2>2. work' = [d \in Asked |-> work'[d]]
    BY <1>2 DEF CutSwept
  <2> QED BY <1>1, <2>1, <2>2 DEF DeliveryType
<1>11. JobOK(r)'
  BY <1>1, <1>5, <1>6, <1>8 DEF JobOK
<1>12. PollOK(work'[r], polls'[r], Forgotten(r)')
  <2>1. PollOK(work[r], polls[r], Forgotten(r))
    BY <1>1 DEF DeliveryInv, PollsInv
  <2>2. polls[r] = <<>>
    BY <1>1, <2>1 DEF PollOK
  <2>3. PICK g : g = Forgotten(r)'
    OBVIOUS
  <2>4. PollOK(v, <<>>, g)
    BY DEF PollOK, PollsAgree
  <2> QED BY <1>1, <1>6, <2>2, <2>3, <2>4
<1> QED BY <1>1, <1>5, <1>6, <1>7, <1>8, <1>10, <1>11, <1>12, SweepKeeps

\* What a poll is answered: the job is forgotten, still goes on, or has its result.
Answer(w, forgotten) ==
  IF forgotten THEN [code |-> 404, final |-> FALSE, text |-> FALSE]
  ELSE IF w.at \notin Over THEN [code |-> 202, final |-> FALSE, text |-> w.shown]
  ELSE Result(w)

LEMMA ResultIs ==
  ASSUME NEW w, WorkShape(w)
  PROVE  Result(w) \in Replies /\ Result(w).code \notin {202, 404} /\ Result(w).final /\ ~Result(w).text
<1>1. PICK c : c = IF w.at = "done" THEN w.status ELSE 500
  OBVIOUS
<1>2. c \in Statuses
  BY <1>1 DEF WorkShape, Statuses
<1>3. PICK a : a = [code |-> c, final |-> TRUE, text |-> FALSE]
  OBVIOUS
<1>4. Result(w) = a
  BY <1>1, <1>3 DEF Result
<1>5. a \in Replies /\ a.code \notin {202, 404} /\ a.final /\ ~a.text
  BY <1>2, <1>3 DEF Replies, Statuses
<1> QED BY <1>4, <1>5

\* One more answer agrees with the ones before it.
LEMMA PollGrows ==
  ASSUME NEW w, NEW p, NEW f, PollOK(w, p, f), WorkShape(w), w.at # "none",
         NEW due \in BOOLEAN, f => due, NEW a, a = [reply |-> Answer(w, f), due |-> due]
  PROVE  PollOK(w, Append(p, a), f)
<1>1. PICK reply : reply = Answer(w, f)
  OBVIOUS
<1>2. a = [reply |-> reply, due |-> due] /\ a.reply = reply /\ a.due = due
  BY <1>1
<1>3. PICK result : result = Result(w)
  OBVIOUS
<1>4. result \in Replies /\ result.code \notin {202, 404} /\ result.final /\ ~result.text
  BY <1>3, ResultIs
<1>5. reply \in Replies /\ (reply.final => w.at \in Over /\ reply = result) /\ (reply.text => w.shown)
      /\ (reply.code = 404 => f)
  <2>1. CASE f
    <3>1. reply = [code |-> 404, final |-> FALSE, text |-> FALSE]
      BY <1>1, <2>1 DEF Answer
    <3>2. reply \in Replies /\ ~reply.final /\ ~reply.text
      BY <3>1 DEF Replies
    <3> QED BY <2>1, <3>2
  <2>2. CASE ~f /\ w.at \notin Over
    <3>1. PICK shown : shown = w.shown
      OBVIOUS
    <3>2. shown \in BOOLEAN
      BY <3>1 DEF WorkShape
    <3>3. reply = [code |-> 202, final |-> FALSE, text |-> shown]
      BY <1>1, <2>2, <3>1 DEF Answer
    <3>4. reply \in Replies /\ ~reply.final /\ reply.code = 202 /\ reply.text = shown
      BY <3>2, <3>3 DEF Replies
    <3> QED BY <3>1, <3>4
  <2>3. CASE ~f /\ w.at \in Over
    <3>1. reply = result
      BY <1>1, <1>3, <2>3 DEF Answer
    <3> QED BY <1>4, <2>3, <3>1
  <2> QED BY <2>1, <2>2, <2>3
<1>6. /\ f => reply.code = 404
      /\ ~f /\ w.at \notin Over => reply.text = w.shown
      /\ ~f /\ w.at \in Over => reply = result
  <2>1. ASSUME f PROVE reply.code = 404
    BY <1>1, <2>1 DEF Answer
  <2>2. ASSUME ~f, w.at \notin Over PROVE reply.text = w.shown
    BY <1>1, <2>2 DEF Answer
  <2>3. ASSUME ~f, w.at \in Over PROVE reply = result
    BY <1>1, <1>3, <2>3 DEF Answer
  <2> QED BY <2>1, <2>2, <2>3
<1>7. a \in PollRecords
  BY <1>2, <1>5 DEF PollRecords
<1>8. PollStands(a, w, f)
  BY <1>2, <1>3, <1>5 DEF PollStands
<1>9. PICK n \in Nat : n = Len(p) /\ p \in Seq(PollRecords)
  BY DEF PollOK
<1>10. PICK p2 : p2 = Append(p, a)
  OBVIOUS
<1>11. /\ p2 \in Seq(PollRecords) /\ Len(p2) = n + 1 /\ DOMAIN p2 = 1 .. n + 1 /\ DOMAIN p = 1 .. n
       /\ \A i \in 1 .. n : p2[i] = p[i]
       /\ p2[n + 1] = a
  BY <1>7, <1>9, <1>10, AppendProperties
<1>12. \A i \in DOMAIN p2 : PollStands(p2[i], w, f)
  BY <1>8, <1>11 DEF PollOK
<1>13. ASSUME NEW i \in 1 .. n
       PROVE  /\ p[i].reply.final => reply = p[i].reply \/ reply.code = 404
              /\ p[i].reply.text => reply.text \/ reply.code # 202
              /\ p[i].reply.code = 404 => reply.code = 404
  <2>1. PollStands(p[i], w, f)
    BY <1>11 DEF PollOK
  <2>2. p[i].reply.final => w.at \in Over /\ p[i].reply = result
    BY <1>3, <2>1 DEF PollStands
  <2>3. p[i].reply.text => w.shown
    BY <2>1 DEF PollStands
  <2>4. p[i].reply.code = 404 => f
    BY <2>1 DEF PollStands
  <2>5. w.shown => reply.text \/ reply.code # 202
    <3>1. CASE f
      BY <1>6, <3>1
    <3>2. CASE ~f /\ w.at \notin Over
      BY <1>6, <3>2
    <3>3. CASE ~f /\ w.at \in Over
      BY <1>4, <1>6, <3>3
    <3> QED BY <3>1, <3>2, <3>3
  <2> QED BY <1>6, <2>2, <2>3, <2>4, <2>5
<1>14. PollsAgree(p2)
  <2> SUFFICES ASSUME NEW i \in DOMAIN p2, NEW j \in DOMAIN p2, i < j
               PROVE  /\ p2[i].reply.final => p2[j].reply = p2[i].reply \/ p2[j].reply.code = 404
                      /\ p2[i].reply.text => p2[j].reply.text \/ p2[j].reply.code # 202
                      /\ p2[i].reply.code = 404 => p2[j].reply.code = 404
    BY DEF PollsAgree
  <2>1. CASE j \in 1 .. n
    <3>1. i \in 1 .. n /\ p2[i] = p[i] /\ p2[j] = p[j]
      BY <1>11, <2>1
    <3>2. PollsAgree(p)
      BY DEF PollOK
    <3> QED BY <1>11, <2>1, <3>1, <3>2 DEF PollsAgree
  <2>2. CASE j = n + 1
    <3>1. i \in 1 .. n /\ p2[i] = p[i] /\ p2[j] = a
      BY <1>11, <2>2
    <3> QED BY <1>2, <1>13, <3>1
  <2> QED BY <1>11, <2>1, <2>2
<1> QED BY <1>10, <1>11, <1>12, <1>14 DEF PollOK

LEMMA PollKeeps ==
  ASSUME DeliveryInv, NEW r \in Asked, Poll(r)
  PROVE  DeliveryInv'
<1>1. /\ DeliveryType /\ r \in Polled /\ work[r].at # "none" /\ WorkShape(work[r]) /\ WayOK(work[r])
      /\ UNCHANGED <<age, queue, events, client, stops>> /\ jobs' = Kept /\ work' = CutSwept(work)
  BY DEF Poll, DeliveryInv, RequestsInv
<1>2. PICK w, v, p, f, g : /\ w = work[r] /\ v = work'[r] /\ p = polls[r]
                           /\ f = Forgotten(r) /\ g = Forgotten(r)'
  OBVIOUS
<1>3. PollOK(w, p, f) /\ JobOK(r)
  BY <1>1, <1>2 DEF DeliveryInv, PollsInv
<1>4. PICK due \in BOOLEAN : due <=> stops > 0 \/ age - work[r].since > Keep
  <2>1. TRUE \in BOOLEAN /\ FALSE \in BOOLEAN
    OBVIOUS
  <2> QED BY <2>1
<1>5. Reply(r) = Answer(w, f)
  <2>1. r \in DOMAIN Kept <=> ~f
    BY <1>2, KeptIs
  <2>2. Running(r) <=> w.at \notin Over
    BY <1>1, <1>2 DEF Running
  <2>3. Result(w) = [code |-> IF work[r].at = "done" THEN work[r].status ELSE 500,
                     final |-> TRUE, text |-> FALSE]
    BY <1>2 DEF Result
  <2> QED BY <1>2, <2>1, <2>2, <2>3 DEF Reply, Answer
<1>6. PICK a : a = [reply |-> Answer(w, f), due |-> due]
  OBVIOUS
<1>7. polls' = [polls EXCEPT ![r] = Append(p, a)]
  <2>1. (stops > 0 \/ age - work[r].since > Keep) = due
    BY <1>4
  <2> QED BY <1>1, <1>2, <1>5, <1>6, <2>1 DEF Poll
<1>8. f => due
  BY <1>1, <1>2, <1>3, <1>4 DEF JobOK, Forgotten
<1>9. PollOK(w, Append(p, a), f)
  BY <1>1, <1>2, <1>3, <1>6, <1>8, PollGrows
<1>10. \A d \in Asked : CutOnly(work[d], work'[d])
  <2>1. PICK x : x = work
    OBVIOUS
  <2>2. ASSUME NEW d \in Asked PROVE CutOnly(x[d], CutSwept(x)[d])
    BY <2>1, CutSweptIs DEF DeliveryInv, RequestsInv
  <2> QED BY <1>1, <2>1, <2>2
<1>11. CutOnly(w, v)
  BY <1>2, <1>10
<1>12. WorkShape(v) /\ WayOK(v) /\ v.at = w.at /\ v.shown = w.shown /\ v.status = w.status /\ v.since = w.since
  BY <1>1, <1>2, <1>11 DEF CutOnly
<1>13. (g <=> f) /\ JobOK(r)'
  BY <1>1, <1>2, <1>12, SweptJobs
<1>14. PollOK(v, Append(p, a), g)
  <2>1. PICK b : b = Append(p, a)
    OBVIOUS
  <2>2. PollOK(w, b, f) /\ (f => g) /\ (w.shown => v.shown)
    BY <1>9, <1>12, <1>13, <2>1
  <2>3. PollOK(v, b, g)
    BY <1>12, <2>2, PollLater
  <2> QED BY <2>1, <2>3
<1>15. polls'[r] = Append(p, a) /\ \A d \in Asked \ {r} : polls'[d] = polls[d]
  BY <1>1, <1>7 DEF DeliveryType
<1>16. DeliveryType'
  <2>1. DOMAIN Kept \subseteq DOMAIN jobs /\ \A d \in DOMAIN Kept : Kept[d] = jobs[d]
    BY DEF Kept
  <2>2. work' = [d \in Asked |-> work'[d]]
    BY <1>1 DEF CutSwept
  <2>3. polls' = [d \in Asked |-> polls'[d]]
    BY <1>1, <1>7 DEF DeliveryType
  <2> QED BY <1>1, <2>1, <2>2, <2>3 DEF DeliveryType
<1> QED BY <1>1, <1>2, <1>10, <1>12, <1>13, <1>14, <1>15, <1>16, SweepKeeps

\* A task at a restart: it is cancelled where it was not over.
LEMMA RestartTask ==
  ASSUME DeliveryInv, NEW r \in Asked, Restart, NEW w, w = work[r], NEW v, v = work'[r]
  PROVE  /\ WorkShape(v) /\ WayOK(v) /\ v.shown = w.shown
         /\ w.at \in Over \cup {"none"} => v = w
         /\ w.at \notin Over \cup {"none"} => v.at = "cancelled"
<1>1. WorkShape(w) /\ WayOK(w)
  BY DEF DeliveryInv, RequestsInv
<1>2. v = IF w.at \notin Over \cup {"none"} THEN [w EXCEPT !.at = "cancelled"] ELSE w
  BY DEF Restart, Running
<1>3. CASE w.at \in Over \cup {"none"}
  BY <1>1, <1>2, <1>3
<1>4. CASE w.at \notin Over \cup {"none"}
  <2>1. PICK end : end = "cancelled"
    OBVIOUS
  <2>2. w.at \in Busy /\ end \in {"failed", "cancelled"} /\ v = [w EXCEPT !.at = end]
    BY <1>1, <1>2, <1>4, <2>1 DEF WorkShape
  <2>3. EarlyEnd(w, v) /\ v.at = end
    BY <1>1, <2>2, EndedEarly
  <2>4. WorkShape(v) /\ v.shown = w.shown /\ v.said = w.said /\ v.declined = w.declined
        /\ v.searched = w.searched /\ v.at \in {"done", "failed", "cancelled"}
    BY <2>1, <2>3 DEF EarlyEnd
  <2>5. WayOK(v)
    BY <1>1, <2>4, WayKept
  <2> QED BY <1>4, <2>1, <2>3, <2>4, <2>5
<1> QED BY <1>3, <1>4

LEMMA RestartKeeps ==
  ASSUME DeliveryInv, Restart
  PROVE  DeliveryInv'
<1>1. /\ DeliveryType /\ stops' = stops + 1 /\ jobs' = [r \in {} |-> 0]
      /\ client' = [r \in Asked |-> IF client[r] = "here" THEN "gone" ELSE client[r]]
      /\ UNCHANGED <<age, queue, events, polls>>
  BY DEF Restart, DeliveryInv
<1>2. DOMAIN jobs' = {} /\ stops' \in Nat /\ stops' > 0
  BY <1>1 DEF DeliveryType
<1>3. DeliveryType'
  <2>1. work' = [r \in Asked |-> work'[r]] /\ client' = [r \in Asked |-> client'[r]]
    BY <1>1 DEF Restart
  <2>2. age' \in Nat /\ queue' = [r \in Asked |-> queue'[r]] /\ events' = [r \in Asked |-> events'[r]]
        /\ polls' = [r \in Asked |-> polls'[r]]
    BY <1>1 DEF DeliveryType
  <2> QED BY <1>2, <2>1, <2>2 DEF DeliveryType
<1>4. RequestsInv'
  <2> SUFFICES ASSUME NEW r \in Asked PROVE WorkShape(work'[r]) /\ WayOK(work'[r])
    BY DEF RequestsInv
  <2>1. PICK w, v : w = work[r] /\ v = work'[r]
    OBVIOUS
  <2> QED BY <2>1, RestartTask
<1>5. StreamsInv'
  <2> SUFFICES ASSUME NEW r \in Streams
               PROVE  StreamOK(work'[r], queue[r], events[r], client'[r])
    BY <1>1 DEF StreamsInv
  <2>1. PICK w, v, q, e, c, c2 : /\ w = work[r] /\ v = work'[r] /\ q = queue[r] /\ e = events[r]
                                 /\ c = client[r] /\ c2 = client'[r]
    OBVIOUS
  <2>2. r \in Asked /\ StreamOK(w, q, e, c) /\ c2 = IF c = "here" THEN "gone" ELSE c
    BY <1>1, <2>1 DEF DeliveryInv, StreamsInv, Asked
  <2>3. /\ v.shown = w.shown
        /\ w.at \in Over \cup {"none"} => v = w
        /\ w.at \notin Over \cup {"none"} => v.at = "cancelled"
    BY <2>1, <2>2, RestartTask
  <2>4. CASE w.at \notin Over \cup {"none"}
    <3>1. c \in {"here", "gone"} /\ e \in {<<>>, <<"delta">>}
      BY <2>2, <2>4 DEF StreamOK, Carried
    <3>2. c2 = "gone" /\ v.at # "none"
      BY <2>2, <2>3, <2>4, <3>1
    <3> QED BY <2>1, <3>1, <3>2 DEF StreamOK
  <2>5. CASE w.at \in Over \cup {"none"} /\ c = "here"
    <3>1. e \in {<<>>, <<"delta">>} /\ w.at # "none"
      BY <2>2, <2>5 DEF StreamOK, Carried
    <3> QED BY <2>1, <2>2, <2>3, <2>5, <3>1 DEF StreamOK
  <2>6. CASE w.at \in Over \cup {"none"} /\ c # "here"
    BY <2>1, <2>2, <2>3, <2>6
  <2> QED BY <2>4, <2>5, <2>6
<1>6. PollsInv'
  <2> SUFFICES ASSUME NEW r \in Polled
               PROVE  PollOK(work'[r], polls[r], Forgotten(r)') /\ JobOK(r)' /\ client'[r] = "no"
    BY <1>1 DEF PollsInv
  <2>1. PICK w, v, p, f, g : /\ w = work[r] /\ v = work'[r] /\ p = polls[r]
                             /\ f = Forgotten(r) /\ g = Forgotten(r)'
    OBVIOUS
  <2>2. r \in Asked /\ PollOK(w, p, f) /\ client[r] = "no"
    BY <2>1 DEF DeliveryInv, PollsInv, Asked
  <2>3. g
    BY <1>2, <2>1 DEF Forgotten
  <2>4. /\ v.shown = w.shown
        /\ w.at \in Over \cup {"none"} => v = w
        /\ w.at \notin Over \cup {"none"} => v.at = "cancelled"
    BY <2>1, <2>2, RestartTask
  <2>5. /\ w.shown => v.shown
        /\ w.at \in Over => v.at = w.at /\ v.status = w.status
        /\ v.at = "none" => w.at = "none"
    BY <2>4
  <2>6. PollOK(v, p, g)
    BY <2>2, <2>3, <2>5, PollLater
  <2>7. JobOK(r)'
    BY <1>2 DEF JobOK
  <2>8. client'[r] = "no"
    BY <1>1, <2>2
  <2> QED BY <2>1, <2>6, <2>7, <2>8
<1> QED BY <1>3, <1>4, <1>5, <1>6 DEF DeliveryInv

LEMMA AgesKeeps ==
  ASSUME DeliveryInv, Ages
  PROVE  DeliveryInv'
<1>1. /\ DeliveryType /\ age \in Nat /\ age' = age + 1
      /\ UNCHANGED <<work, queue, events, client, jobs, polls, stops>>
  BY DEF Ages, DeliveryInv, DeliveryType
<1>2. DeliveryType' /\ RequestsInv' /\ StreamsInv'
  <2>1. DeliveryType'
    BY <1>1 DEF DeliveryType
  <2>2. RequestsInv'
    BY <1>1 DEF DeliveryInv, RequestsInv
  <2>3. StreamsInv'
    BY <1>1 DEF DeliveryInv, StreamsInv
  <2> QED BY <2>1, <2>2, <2>3
<1>3. PollsInv'
  <2> SUFFICES ASSUME NEW r \in Polled
               PROVE  PollOK(work[r], polls[r], Forgotten(r)') /\ JobOK(r)' /\ client[r] = "no"
    BY <1>1 DEF PollsInv
  <2>1. PICK w, p, f, g : w = work[r] /\ p = polls[r] /\ f = Forgotten(r) /\ g = Forgotten(r)'
    OBVIOUS
  <2>2. r \in Asked /\ PollOK(w, p, f) /\ JobOK(r) /\ client[r] = "no" /\ WorkShape(w)
    BY <2>1 DEF DeliveryInv, PollsInv, RequestsInv, Asked
  <2>3. f => g
    <3>1. PICK job : job = jobs[r] /\ (r \in DOMAIN jobs => job \in Nat)
      BY <1>1 DEF DeliveryType
    <3>2. ASSUME r \in DOMAIN jobs, age - job > Keep
          PROVE  age + 1 - job > Keep
      BY <1>1, <3>1, <3>2, DeliveryAssumption
    <3>3. (Forgotten(r) <=> r \notin DOMAIN jobs \/ age - job > Keep)
          /\ (Forgotten(r)' <=> r \notin DOMAIN jobs \/ age + 1 - job > Keep)
      BY <1>1, <3>1 DEF Forgotten
    <3>4. Forgotten(r) => Forgotten(r)'
      BY <3>2, <3>3
    <3> QED BY <2>1, <3>4
  <2>4. PollOK(w, p, g)
    BY <2>2, <2>3, PollLater
  <2>5. JobOK(r)'
    <3>1. work[r].since \in Nat
      BY <2>1, <2>2 DEF WorkShape
    <3> QED BY <1>1, <2>2, <3>1, DeliveryAssumption DEF JobOK
  <2> QED BY <2>1, <2>2, <2>4, <2>5
<1> QED BY <1>2, <1>3 DEF DeliveryInv

LEMMA DeliveryStart == DeliveryInit => DeliveryInv
<1> SUFFICES ASSUME DeliveryInit PROVE DeliveryInv
  OBVIOUS
<1>1. NoWork = [at |-> "none", said |-> <<>>, lane |-> "none", status |-> 0, since |-> 0,
                shown |-> FALSE, declined |-> FALSE, searched |-> FALSE, cut |-> FALSE]
  BY DEF NoWork
<1>2. PICK m, at, now, v :
        /\ m = <<>> /\ at = "none" /\ now = 0 /\ now \in Nat
        /\ v = [at |-> at, said |-> m, lane |-> "none", status |-> 0, since |-> now,
                shown |-> FALSE, declined |-> FALSE, searched |-> FALSE, cut |-> FALSE]
  OBVIOUS
<1>3. v = NoWork
  BY <1>1, <1>2
<1>4. WorkShape(v) /\ WayOK(v) /\ v.at = "none"
  BY <1>2, NewWorkIs
<1>5. \A r \in Asked : /\ work[r] = v /\ queue[r] = <<>> /\ events[r] = <<>>
                       /\ client[r] = "no" /\ polls[r] = <<>>
  BY <1>3 DEF DeliveryInit
<1>6. DeliveryType
  <2>1. age \in Nat /\ stops \in Nat /\ DOMAIN jobs = {}
    BY DEF DeliveryInit
  <2> QED BY <1>5, <2>1 DEF DeliveryInit, DeliveryType
<1>7. RequestsInv
  BY <1>4, <1>5 DEF RequestsInv
<1>8. StreamsInv
  <2>1. StreamOK(v, <<>>, <<>>, "no")
    BY <1>4 DEF StreamOK
  <2> QED BY <1>5, <2>1 DEF StreamsInv, Asked
<1>9. PollsInv
  <2> SUFFICES ASSUME NEW r \in Polled
               PROVE  PollOK(work[r], polls[r], Forgotten(r)) /\ JobOK(r) /\ client[r] = "no"
    BY DEF PollsInv
  <2>1. PICK f : f = Forgotten(r)
    OBVIOUS
  <2>2. PollOK(v, <<>>, f)
    BY DEF PollOK, PollsAgree
  <2>3. r \in Asked
    BY DEF Asked
  <2>4. JobOK(r)
    BY <1>4, <1>5, <2>3 DEF JobOK
  <2> QED BY <1>5, <2>1, <2>2, <2>3, <2>4
<1> QED BY <1>6, <1>7, <1>8, <1>9 DEF DeliveryInv

\* AnswerAboutCard and Written are tasks that end with 200.
LEMMA WorksKeeps ==
  ASSUME DeliveryInv, NEW r \in Asked, Works(r)
  PROVE  DeliveryInv'
<1>1. "answering" \in Busy /\ "writing" \in Busy /\ 200 \in Statuses
  BY DEF Busy, Statuses
<1>2. CASE AnswerAboutCard(r)
  BY <1>1, <1>2, ReplyKeeps DEF AnswerAboutCard
<1>3. CASE Written(r)
  BY <1>1, <1>3, ReplyKeeps DEF Written
<1> QED BY <1>2, <1>3, GateKeeps, JudgeKeeps, ShopKeeps, RecommendKeeps, PreviewKeeps, CancelledKeeps
       DEF Works

LEMMA DeliveryStep == DeliveryInv /\ [DeliveryNext]_deliveryVars => DeliveryInv'
<1> SUFFICES ASSUME DeliveryInv, [DeliveryNext]_deliveryVars PROVE DeliveryInv'
  OBVIOUS
<1>1. ASSUME NEW r \in Asked, Works(r) \/ Raises(r) \/ Send(r) \/ HangUp(r) \/ Poll(r)
      PROVE  DeliveryInv'
  BY <1>1, WorksKeeps, RaisesKeeps, SendKeeps, HangUpKeeps, PollKeeps
<1>2. ASSUME NEW r \in Asked, NEW m, OpenStream(r, m) \/ HandIn(r, m)
      PROVE  DeliveryInv'
  BY <1>2, OpenStreamKeeps, HandInKeeps
<1>3. CASE UNCHANGED deliveryVars
  BY <1>3 DEF deliveryVars, DeliveryInv, DeliveryType, RequestsInv, StreamsInv, PollsInv, JobOK, Forgotten
<1> QED BY <1>1, <1>2, <1>3, RestartKeeps, AgesKeeps DEF DeliveryNext

\* The tasks, streams and jobs of the chat fit together at every moment (streaming.py, jobs.py).
THEOREM DeliveryFits == DeliverySpec => []DeliveryInv
BY DeliveryStart, DeliveryStep, PTL DEF DeliverySpec

\* A stream has one last event, the one of its result.
THEOREM OneEnd == DeliverySpec => []StreamEndsOnce
<1>1. DeliveryInv => StreamEndsOnce
  <2> SUFFICES ASSUME DeliveryInv, NEW r \in Streams
               PROVE  LET e == events[r]  last == {i \in DOMAIN e : e[i] # "delta"} IN
                      /\ Cardinality(last) = (IF client[r] = "ended" THEN 1 ELSE 0)
                      /\ last \subseteq {Len(e)} /\ Len(e) <= 2
                      /\ client[r] = "ended" => /\ work[r].at \in Over
                                                /\ work[r].shown => e[1] = "delta"
                                                /\ (e[Len(e)] = "done") = (work[r].status = 200)
    BY DEF StreamEndsOnce
  <2>e. PICK e, last : e = events[r] /\ last = {i \in DOMAIN e : e[i] # "delta"}
    OBVIOUS
  <2>f. SUFFICES /\ Cardinality(last) = (IF client[r] = "ended" THEN 1 ELSE 0)
                 /\ last \subseteq {Len(e)} /\ Len(e) <= 2
                 /\ client[r] = "ended" => /\ work[r].at \in Over
                                           /\ work[r].shown => e[1] = "delta"
                                           /\ (e[Len(e)] = "done") = (work[r].status = 200)
    BY <2>e
  <2>1. PICK w, q, c : w = work[r] /\ q = queue[r] /\ c = client[r]
    OBVIOUS
  <2>2. StreamOK(w, q, e, c) /\ WorkShape(w)
    BY <2>e, <2>1 DEF DeliveryInv, StreamsInv, RequestsInv, Asked
  <2>3. CASE c # "ended"
    <3>1. e = <<>> \/ e = <<"delta">>
      BY <2>2, <2>3 DEF StreamOK, Carried
    <3>2. last = {} /\ Len(e) <= 2
      BY <2>e, <3>1
    <3> QED BY <2>1, <2>3, <3>2, FS_EmptySet
  <2>4. CASE c = "ended"
    <3>1. PICK x : x = LastEvent(w)
      OBVIOUS
    <3>2. w.at \in Over /\ (w.shown => e = <<"delta", x>>) /\ (~w.shown => e = <<x>>)
      BY <2>2, <2>4, <3>1 DEF StreamOK
    <3>3. x # "delta" /\ (x = "done" <=> w.status = 200)
      BY <2>2, <3>1 DEF LastEvent, WorkShape
    <3>4. /\ e[Len(e)] = x /\ Len(e) <= 2 /\ last = {Len(e)}
          /\ w.shown => e[1] = "delta"
      <4>1. CASE w.shown
        <5>1. e = <<"delta", x>> /\ Len(e) = 2 /\ DOMAIN e = {1, 2} /\ e[1] = "delta" /\ e[2] = x
          BY <3>2, <4>1
        <5> QED BY <2>e, <3>3, <5>1
      <4>2. CASE ~w.shown
        <5>1. e = <<x>> /\ Len(e) = 1 /\ DOMAIN e = {1} /\ e[1] = x
          BY <3>2, <4>2
        <5> QED BY <2>e, <3>3, <4>2, <5>1
      <4> QED BY <4>1, <4>2
    <3>5. Cardinality(last) = 1
      BY <3>4, FS_Singleton
    <3>6. (e[Len(e)] = "done") = (w.status = 200)
      BY <3>3, <3>4
    <3> QED BY <2>1, <2>4, <3>2, <3>4, <3>5, <3>6
  <2> QED BY <2>3, <2>4
<1> QED BY <1>1, DeliveryFits, PTL

\* What is once said of a job stays said, and it is forgotten only when it is due.
THEOREM AnswersStay == DeliverySpec => []JobAnswersStay
<1>1. DeliveryInv => JobAnswersStay
  <2> SUFFICES ASSUME DeliveryInv, NEW r \in Polled, NEW i \in DOMAIN polls[r], NEW j \in DOMAIN polls[r]
               PROVE  LET a == polls[r][i]  b == polls[r][j] IN
                      /\ a.reply.code = 404 => a.due
                      /\ i < j /\ a.reply.final => b.reply = a.reply \/ b.reply.code = 404
                      /\ i < j /\ a.reply.text => b.reply.text \/ b.reply.code # 202
                      /\ i < j /\ a.reply.code = 404 => b.reply.code = 404
    BY DEF JobAnswersStay
  <2>1. PICK w, p, f : w = work[r] /\ p = polls[r] /\ f = Forgotten(r)
    OBVIOUS
  <2>2. PollOK(w, p, f)
    BY <2>1 DEF DeliveryInv, PollsInv
  <2>3. PollStands(p[i], w, f) /\ PollsAgree(p)
    BY <2>1, <2>2 DEF PollOK
  <2>4. p[i].reply.code = 404 => p[i].due
    BY <2>3 DEF PollStands
  <2>5. i < j => /\ p[i].reply.final => p[j].reply = p[i].reply \/ p[j].reply.code = 404
                 /\ p[i].reply.text => p[j].reply.text \/ p[j].reply.code # 202
                 /\ p[i].reply.code = 404 => p[j].reply.code = 404
    BY <2>1, <2>3 DEF PollsAgree
  <2> QED BY <2>1, <2>4, <2>5
<1> QED BY <1>1, DeliveryFits, PTL

\* No search takes the cards from the screen without a reason the rules know.
THEOREM SearchForAReason == DeliverySpec => []SearchHasReason
<1>1. DeliveryInv => SearchHasReason
  <2> SUFFICES ASSUME DeliveryInv, NEW r \in Asked, work[r].searched, ~work[r].declined,
                      work[r].said.shopping, work[r].said.shown
               PROVE  SearchReason(work[r].said)
    BY DEF SearchHasReason, SearchReason
  <2>1. PICK m : m = work[r].said
    OBVIOUS
  <2>2. WayOK(work[r])
    BY DEF DeliveryInv, RequestsInv
  <2>3. Routed(m)
    BY <2>1, <2>2 DEF WayOK
  <2>4. m.shown = TRUE
    BY <2>1
  <2> QED BY <2>1, <2>3, <2>4, RoutedHasReason
<1> QED BY <1>1, DeliveryFits, PTL

-----------------------------------------------------------------------------
(* The vectors of the books.                                               *)

RunNames == {"at", "n", "model", "last", "books", "todo", "touched"}
RunPlaces == {"off", "scan", "compare", "batch", "drop", "check", "ended"}
Rows == [id : Books, text : Nat]

\* The rows of the last scan that are still looked at: all of them, then those to embed.
Pending(r) == IF r.at = "compare" THEN r.books ELSE IF r.at = "batch" THEN r.todo ELSE <<>>

\* How far the scan has come.
Reach(r) ==
  IF r.at = "compare" THEN r.books[Len(r.books)].id
  ELSE IF r.at \in {"drop", "check", "ended"} THEN LastBook
  ELSE IF r.at = "off" THEN 0 ELSE r.last

\* A book has a vector of this model and, with hashes kept, of its present text.
Settled(b, model, txt, vec, h, kept) ==
  txt[b] # 0 => /\ b \in DOMAIN vec /\ vec[b].model = model
                /\ kept => b \in DOMAIN h /\ h[b] = txt[b]

\* A hash is that of its vector's text, where that is known, and such a vector has one.
DocsFit(vec, h, kept) ==
  /\ \A b \in DOMAIN h : kept /\ b \in DOMAIN vec /\ (vec[b].sure => h[b] = vec[b].of)
  /\ \A b \in DOMAIN vec : vec[b].sure => b \in DOMAIN h

\* A row that waits is as the book is by now, unless that was changed meanwhile.
PendingFits(s, touched, txt) ==
  /\ s \in Seq(Rows)
  /\ \A i \in 1 .. Len(s) : s[i].id \notin touched => s[i].text = txt[s[i].id]

Waits(b, s) == \E i \in 1 .. Len(s) : s[i].id = b

\* No book so far is left behind: it is settled, or its row is still to be looked at.
NoneLeft(r, txt, vec, h, kept) ==
  \A b \in Books \ r.touched :
    b <= Reach(r) => Settled(b, r.model, txt, vec, h, kept) \/ Waits(b, Pending(r))

\* With hashes kept no vector is left without a book.
NothingExtra(r, txt, vec, kept) ==
  r.at \in {"check", "ended"} /\ kept => \A b \in Books \ r.touched : (txt[b] # 0) = (b \in DOMAIN vec)

RunFits(r, txt, vec, h, kept) ==
  /\ DOMAIN r = RunNames /\ r.at \in RunPlaces /\ r.last \in Nat /\ Reach(r) \in Nat
  /\ r.at = "compare" => r.books # <<>>
  /\ PendingFits(Pending(r), r.touched, txt)
  /\ NoneLeft(r, txt, vec, h, kept) /\ NothingExtra(r, txt, vec, kept)

EmbedInv ==
  /\ hashed \in BOOLEAN /\ text \in [Books -> Nat]
  /\ DOMAIN vector \subseteq Books /\ DocsFit(vector, hash, hashed)
  /\ RunFits(run, text, vector, hash, hashed)

LEMMA NotRunning ==
  ASSUME NEW r, DOMAIN r = RunNames, r.at = "off", r.last = 0, r.touched = {},
         NEW txt, NEW vec, NEW h, NEW kept
  PROVE  RunFits(r, txt, vec, h, kept)
<1>1. Pending(r) = <<>> /\ Reach(r) = 0
  BY DEF Pending, Reach
<1>2. NoneLeft(r, txt, vec, h, kept)
  BY <1>1, JobsAssumption DEF NoneLeft, Books
<1>3. NothingExtra(r, txt, vec, kept)
  BY DEF NothingExtra
<1>4. PendingFits(Pending(r), r.touched, txt)
  BY <1>1 DEF PendingFits
<1> QED BY <1>1, <1>2, <1>3, <1>4 DEF RunFits, RunPlaces

LEMMA EmbedStart == EmbedInit => EmbedInv
<1> SUFFICES ASSUME EmbedInit PROVE EmbedInv
  OBVIOUS
<1>1. hashed \in BOOLEAN /\ text \in [Books -> Nat] /\ hash = Empty /\ run = NoRun
  BY DEF EmbedInit
<1>2. DOMAIN vector \subseteq Books /\ \A b \in DOMAIN vector : ~vector[b].sure
  BY DEF EmbedInit
<1>3. DOMAIN hash = {}
  BY <1>1 DEF Empty
<1>4. DocsFit(vector, hash, hashed)
  BY <1>2, <1>3 DEF DocsFit
<1>5. DOMAIN run = RunNames /\ run.at = "off" /\ run.last = 0 /\ run.touched = {}
  BY <1>1 DEF NoRun, RunNames
<1>6. RunFits(run, text, vector, hash, hashed)
  BY <1>5, NotRunning
<1> QED BY <1>1, <1>2, <1>4, <1>6 DEF EmbedInv

LEMMA EditFits ==
  ASSUME EmbedInv, NEW b \in Books, Edit(b)
  PROVE  EmbedInv'
<1>1. PICK new \in 0 .. 2 : text' = [text EXCEPT ![b] = new]
  BY DEF Edit
<1>2. vector' = vector /\ hash' = hash /\ hashed' = hashed
  BY DEF Edit
<1>3. PICK q : q = run'
  OBVIOUS
<1>4. PICK r : r = run
  OBVIOUS
<1>5. DOMAIN r = RunNames /\ RunFits(r, text, vector, hash, hashed) /\ text \in [Books -> Nat]
  BY <1>4 DEF EmbedInv, RunFits
<1>6. /\ DOMAIN q = RunNames /\ q.touched = r.touched \cup {b} /\ q.at = r.at /\ q.last = r.last
      /\ q.books = r.books /\ q.todo = r.todo /\ q.model = r.model
  <2>1. q = [r EXCEPT !.touched = @ \cup {b}]
    BY <1>3, <1>4 DEF Edit
  <2> QED BY <1>5, <2>1 DEF RunNames
<1>7. Pending(q) = Pending(r) /\ Reach(q) = Reach(r)
  BY <1>6 DEF Pending, Reach
<1>8. text' \in [Books -> Nat] /\ \A c \in Books \ q.touched : text'[c] = text[c] /\ c \notin r.touched
  BY <1>1, <1>5, <1>6
<1>9. PendingFits(Pending(q), q.touched, text')
  <2>1. PICK s : s = Pending(r)
    OBVIOUS
  <2>2. s \in Seq(Rows) /\ \A i \in 1 .. Len(s) : s[i].id \notin r.touched => s[i].text = text[s[i].id]
    BY <1>5, <2>1 DEF RunFits, PendingFits
  <2>3. \A i \in 1 .. Len(s) : s[i].id \in Books
    <3>1. \A i \in 1 .. Len(s) : s[i] \in Rows
      BY <2>2
    <3> QED BY <3>1 DEF Rows
  <2> QED BY <1>6, <1>7, <1>8, <2>1, <2>2, <2>3 DEF PendingFits
<1>10. NoneLeft(q, text', vector', hash', hashed')
  BY <1>2, <1>5, <1>6, <1>7, <1>8 DEF NoneLeft, RunFits, Settled
<1>11. NothingExtra(q, text', vector', hashed')
  BY <1>2, <1>5, <1>6, <1>8 DEF NothingExtra, RunFits
<1>12. RunFits(q, text', vector', hash', hashed')
  BY <1>5, <1>6, <1>7, <1>9, <1>10, <1>11 DEF RunFits
<1> QED BY <1>2, <1>3, <1>8, <1>12 DEF EmbedInv

LEMMA StopFits ==
  ASSUME EmbedInv, \/ \E model \in Models : StartRun(model)
                   \/ RunDies
  PROVE  EmbedInv'
<1>1. text' = text /\ vector' = vector /\ hash' = hash /\ hashed' = hashed
  BY DEF StartRun, RunDies
<1>2. PICK q : q = run'
  OBVIOUS
<1>3. CASE RunDies
  <2>1. DOMAIN q = RunNames /\ q.at = "off" /\ q.last = 0 /\ q.touched = {}
    BY <1>2, <1>3 DEF RunDies, NoRun, RunNames
  <2> QED BY <1>1, <1>2, <2>1, NotRunning DEF EmbedInv
<1>4. ASSUME NEW model \in Models, StartRun(model) PROVE EmbedInv'
  <2>1. DOMAIN q = RunNames /\ q.at = "scan" /\ q.last = 0 /\ q.touched = {}
    BY <1>2, <1>4 DEF StartRun, NoRun, RunNames
  <2>2. Pending(q) = <<>> /\ Reach(q) = 0
    BY <2>1 DEF Pending, Reach
  <2>3. NoneLeft(q, text, vector, hash, hashed)
    BY <2>2, JobsAssumption DEF NoneLeft, Books
  <2>4. NothingExtra(q, text, vector, hashed) /\ PendingFits(Pending(q), q.touched, text)
    BY <2>1, <2>2 DEF NothingExtra, PendingFits
  <2>5. RunFits(q, text, vector, hash, hashed)
    BY <2>1, <2>2, <2>3, <2>4 DEF RunFits, RunPlaces
  <2> QED BY <1>1, <1>2, <2>5 DEF EmbedInv
<1> QED BY <1>3, <1>4

LEMMA ScanFits ==
  ASSUME EmbedInv, Scan
  PROVE  EmbedInv'
<1>1. text' = text /\ vector' = vector /\ hash' = hash /\ hashed' = hashed
  BY DEF Scan
<1>2. PICK q : q = run'
  OBVIOUS
<1>3. PICK r : r = run
  OBVIOUS
<1>4. /\ DOMAIN r = RunNames /\ RunFits(r, text, vector, hash, hashed) /\ text \in [Books -> Nat]
      /\ r.at = "scan" /\ r.last \in Nat
  BY <1>3 DEF EmbedInv, RunFits, Scan
<1>5. PICK next : next = {b \in Books : b > r.last /\ text[b] # 0}
  OBVIOUS
<1>6. next \subseteq Nat /\ IsFiniteSet(next)
  <2>1. next \subseteq Books /\ Books \subseteq Nat
    BY <1>5, JobsAssumption DEF Books
  <2>2. IsFiniteSet(Books)
    <3>1. 1 \in Int /\ LastBook \in Int
      BY JobsAssumption
    <3> QED BY <3>1, FS_Interval DEF Books
  <2> QED BY <2>1, <2>2, FS_Subset
<1>7. PICK f : f = ByItself(next) /\ f = [b \in next |-> <<b>>]
  BY DEF ByItself
<1>8. PICK row : row = Take(ByKey(WithKeys(f, next)), ScanSize)
  OBVIOUS
<1>9. q = IF next = {} THEN [r EXCEPT !.at = IF hashed THEN "drop" ELSE "ended"]
          ELSE [r EXCEPT !.at = "compare",
                  !.books = [i \in 1 .. Len(row) |-> [id |-> row[i], text |-> text[row[i]]]]]
  <2>1. WithKeys(f, next) = {<< <<b>>, b>> : b \in next}
    BY <1>7 DEF WithKeys
  <2>2. run' = IF next = {} THEN [run EXCEPT !.at = IF hashed THEN "drop" ELSE "ended"]
               ELSE [run EXCEPT !.at = "compare",
                  !.books = [i \in 1 .. Len(row) |-> [id |-> row[i], text |-> text[row[i]]]]]
    BY <1>3, <1>5, <1>8, <2>1, Zenon DEF Scan, Ordered
  <2> QED BY <1>2, <1>3, <2>2
<1>10. Pending(r) = <<>> /\ Reach(r) = r.last
  BY <1>4 DEF Pending, Reach
<1>11. ASSUME NEW b \in Books, b \notin r.touched, b <= r.last
       PROVE  Settled(b, r.model, text, vector, hash, hashed)
  <2>1. ~Waits(b, Pending(r))
    BY <1>10 DEF Waits
  <2>2. NoneLeft(r, text, vector, hash, hashed)
    BY <1>4 DEF RunFits
  <2> QED BY <1>10, <1>11, <2>1, <2>2 DEF NoneLeft
<1>12. CASE next = {}
  <2>1. PICK p \in {"drop", "ended"} : p = (IF hashed THEN "drop" ELSE "ended")
    OBVIOUS
  <2>2. q = [r EXCEPT !.at = p]
    BY <1>9, <1>12, <2>1
  <2>3. /\ DOMAIN q = RunNames /\ q.touched = r.touched /\ q.at = p /\ q.last = r.last
        /\ q.model = r.model
    BY <1>4, <2>2 DEF RunNames
  <2>4. Pending(q) = <<>> /\ Reach(q) = LastBook /\ LastBook \in Nat
    BY <2>1, <2>3, JobsAssumption DEF Pending, Reach
  <2>5. NoneLeft(q, text, vector, hash, hashed)
    <3>1. ASSUME NEW b \in Books, b \notin r.touched
          PROVE  Settled(b, r.model, text, vector, hash, hashed)
      <4>1. CASE b <= r.last
        BY <1>11, <3>1, <4>1
      <4>2. CASE text[b] = 0
        BY <4>2 DEF Settled
      <4>3. b \in Nat
        BY JobsAssumption DEF Books
      <4> QED BY <1>4, <1>5, <1>12, <4>1, <4>2, <4>3
    <3> QED BY <2>3, <3>1 DEF NoneLeft
  <2>6. NothingExtra(q, text, vector, hashed)
    <3>1. hashed => q.at = "drop"
      BY <2>1, <2>3
    <3> QED BY <3>1 DEF NothingExtra
  <2>7. RunFits(q, text, vector, hash, hashed)
    <3>1. PendingFits(Pending(q), q.touched, text)
      BY <2>4 DEF PendingFits
    <3>2. q.at \in RunPlaces /\ q.at # "compare"
      BY <2>3 DEF RunPlaces
    <3> QED BY <1>4, <2>3, <2>4, <2>5, <2>6, <3>1, <3>2 DEF RunFits
  <2> QED BY <1>1, <1>2, <2>7 DEF EmbedInv
<1>13. CASE next # {}
  <2>1. PICK books : books = [i \in 1 .. Len(row) |-> [id |-> row[i], text |-> text[row[i]]]]
    OBVIOUS
  <2>2. q = [r EXCEPT !.at = "compare", !.books = books]
    BY <1>9, <1>13, <2>1
  <2>3. /\ DOMAIN q = RunNames /\ q.touched = r.touched /\ q.at = "compare" /\ q.last = r.last
        /\ q.model = r.model /\ q.books = books
    BY <1>4, <2>2 DEF RunNames
  <2>4. /\ row \in Seq(next) /\ row # <<>>
        /\ \A b \in next : b <= row[Len(row)] => \E i \in 1 .. Len(row) : row[i] = b
    <3>1. ScanSize \in Nat \ {0}
      BY JobsAssumption
    <3>2. FirstOf(Take(ByKey(WithKeys(ByItself(next), next)), ScanSize), next)
      BY <1>6, <1>13, <3>1, FirstFew
    <3> QED BY <1>7, <1>8, <3>2 DEF FirstOf
  <2>5. PICK n \in Nat \ {0} : n = Len(row)
    BY <2>4
  <2>6. \A i \in 1 .. n : row[i] \in Books
    BY <1>5, <2>4, <2>5
  <2>7. books \in Seq(Rows) /\ Len(books) = n
    <3>1. \A i \in 1 .. n : [id |-> row[i], text |-> text[row[i]]] \in Rows
      BY <1>4, <2>6 DEF Rows
    <3>2. books \in [1 .. n -> Rows]
      BY <2>1, <2>5, <3>1
    <3> QED BY <3>2, SeqDef
  <2>8. \A i \in 1 .. n : books[i].id = row[i] /\ books[i].text = text[row[i]]
    BY <2>1, <2>5
  <2>9. n \in 1 .. n /\ row[n] \in Nat
    <3>1. n \in 1 .. n /\ row[n] \in next
      BY <2>4, <2>5
    <3> QED BY <1>6, <3>1
  <2>10. Pending(q) = books /\ Reach(q) = row[n]
    BY <2>3, <2>7, <2>8, <2>9 DEF Pending, Reach
  <2>11. PendingFits(Pending(q), q.touched, text)
    BY <2>7, <2>8, <2>10 DEF PendingFits
  <2>12. NoneLeft(q, text, vector, hash, hashed)
    <3>1. ASSUME NEW b \in Books, b \notin r.touched, b <= row[n]
          PROVE  Settled(b, r.model, text, vector, hash, hashed) \/ Waits(b, books)
      <4>1. CASE b <= r.last
        BY <1>11, <3>1, <4>1
      <4>2. CASE text[b] = 0
        BY <4>2 DEF Settled
      <4>3. CASE b \in next
        <5>1. \E i \in 1 .. n : row[i] = b
          BY <2>4, <2>5, <3>1, <4>3
        <5> QED BY <2>7, <2>8, <5>1 DEF Waits
      <4>4. b \in Nat
        BY JobsAssumption DEF Books
      <4> QED BY <1>4, <1>5, <4>1, <4>2, <4>3, <4>4
    <3> QED BY <2>3, <2>10, <3>1 DEF NoneLeft
  <2>13. NothingExtra(q, text, vector, hashed)
    BY <2>3 DEF NothingExtra
  <2>14. RunFits(q, text, vector, hash, hashed)
    <3>1. q.books # <<>>
      BY <2>3, <2>7
    <3>2. q.at \in RunPlaces
      BY <2>3 DEF RunPlaces
    <3> QED BY <1>4, <2>3, <2>9, <2>10, <2>11, <2>12, <2>13, <3>1, <3>2 DEF RunFits
  <2> QED BY <1>1, <1>2, <2>14 DEF EmbedInv
<1> QED BY <1>12, <1>13

\* What is settled stays so while the vectors only gain.
LEMMA CompareFits ==
  ASSUME EmbedInv, Compare
  PROVE  EmbedInv'
<1>1. text' = text /\ vector' = vector /\ hashed' = hashed /\ hashed \in BOOLEAN
  BY DEF Compare, EmbedInv
<1>2. PICK q : q = run'
  OBVIOUS
<1>3. PICK r : r = run
  OBVIOUS
<1>4. /\ DOMAIN r = RunNames /\ RunFits(r, text, vector, hash, hashed) /\ text \in [Books -> Nat]
      /\ r.at = "compare" /\ r.books # <<>> /\ DocsFit(vector, hash, hashed) /\ DOMAIN vector \subseteq Books
  BY <1>3 DEF EmbedInv, RunFits, Compare
<1>5. PICK books : books = r.books
  OBVIOUS
<1>6. Pending(r) = books /\ Reach(r) = books[Len(books)].id
  BY <1>4, <1>5 DEF Pending, Reach
<1>7. /\ books \in Seq(Rows) /\ books # <<>> /\ Reach(r) \in Nat
      /\ \A i \in 1 .. Len(books) : books[i].id \notin r.touched => books[i].text = text[books[i].id]
  BY <1>4, <1>5, <1>6 DEF RunFits, PendingFits
<1>8. PICK n \in Nat : n = Len(books) /\ DOMAIN books = 1 .. n
  BY <1>7
<1>9. PICK T : T = {book \in ToSet(books) : Todo(book)}
  OBVIOUS
<1>10. PICK todo : todo = Only(books, T)
  OBVIOUS
<1>11. q = [r EXCEPT !.at = "batch", !.todo = todo, !.last = books[Len(books)].id]
  BY <1>2, <1>3, <1>5, <1>9, <1>10, Zenon DEF Compare
<1>12. /\ DOMAIN q = RunNames /\ q.touched = r.touched /\ q.at = "batch" /\ q.last = Reach(r)
       /\ q.model = r.model /\ q.todo = todo
  BY <1>4, <1>6, <1>11 DEF RunNames
<1>13. Pending(q) = todo /\ Reach(q) = Reach(r)
  BY <1>12 DEF Pending, Reach
<1>14. /\ todo \in Seq(Rows \cap T) /\ Len(todo) \in Nat
       /\ \A k \in 1 .. Len(todo) : todo[k] \in Rows \cap T /\ \E i \in 1 .. Len(books) : todo[k] = books[i]
       /\ \A i \in 1 .. Len(books) : books[i] \in T => \E k \in 1 .. Len(todo) : todo[k] = books[i]
  <2>1. OnlyOf(todo, books, T, Rows)
    BY <1>7, <1>10, OnlyIs
  <2> QED BY <2>1 DEF OnlyOf
<1>15. PendingFits(Pending(q), q.touched, text)
  <2>1. todo \in Seq(Rows)
    BY <1>14
  <2>2. ASSUME NEW k \in 1 .. Len(todo), todo[k].id \notin r.touched
        PROVE  todo[k].text = text[todo[k].id]
    <3>1. PICK i \in 1 .. Len(books) : todo[k] = books[i]
      BY <1>14
    <3> QED BY <1>7, <2>2, <3>1
  <2> QED BY <1>12, <1>13, <2>1, <2>2 DEF PendingFits
<1> DEFINE fill == {i \in DOMAIN run.books : hashed /\ Done(run.books[i].id) /\ ~Has(hash, run.books[i].id)}
           ids == {run.books[i].id : i \in fill}
           First(b) == CHOOSE i \in fill : run.books[i].id = b
<1>16. hash' = [b \in DOMAIN hash \cup ids |-> IF Has(hash, b) THEN hash[b] ELSE run.books[First(b)].text]
  BY Zenon DEF Compare
<1>17. /\ \A i : i \in fill <=> i \in 1 .. n /\ hashed /\ Done(books[i].id) /\ ~Has(hash, books[i].id)
       /\ \A b : b \in ids <=> \E i \in fill : books[i].id = b
       /\ \A b \in ids : First(b) \in fill /\ books[First(b)].id = b
  <2>1. run.books = books
    BY <1>3, <1>5
  <2>2. \A i : i \in fill <=> i \in 1 .. n /\ hashed /\ Done(books[i].id) /\ ~Has(hash, books[i].id)
    BY <1>8, <2>1
  <2>3. \A b : b \in ids <=> \E i \in fill : books[i].id = b
    <3> HIDE DEF fill
    <3> QED BY <2>1
  <2>4. ASSUME NEW b \in ids PROVE First(b) \in fill /\ books[First(b)].id = b
    <3>1. \E i \in fill : run.books[i].id = b
      <4> HIDE DEF fill
      <4> QED OBVIOUS
    <3> HIDE DEF fill
    <3> QED BY <2>1, <3>1
  <2> HIDE DEF fill, ids, First
  <2> QED BY <2>2, <2>3, <2>4
<1>18. hash' = [b \in DOMAIN hash \cup ids |-> IF Has(hash, b) THEN hash[b] ELSE books[First(b)].text]
  <2>1. run.books = books
    BY <1>3, <1>5
  <2> HIDE DEF fill, ids, First
  <2> QED BY <1>16, <2>1
<1> HIDE DEF fill, ids, First
<1>19. \A b \in DOMAIN hash : b \in DOMAIN hash' /\ hash'[b] = hash[b]
  BY <1>18 DEF Has
<1>20. ASSUME NEW b \in DOMAIN hash', b \notin DOMAIN hash
       PROVE  /\ hashed /\ b \in DOMAIN vector
              /\ \E i \in 1 .. n : books[i].id = b /\ hash'[b] = books[i].text
  <2>1. b \in ids
    BY <1>18, <1>20
  <2>2. PICK i : i = First(b)
    OBVIOUS
  <2>3. i \in fill /\ books[i].id = b
    BY <1>17, <2>1, <2>2
  <2>4. hash'[b] = books[i].text
    BY <1>18, <1>20, <2>1, <2>2 DEF Has
  <2>5. i \in 1 .. n /\ hashed /\ Done(b)
    BY <1>17, <2>3
  <2> QED BY <2>3, <2>4, <2>5 DEF Done, Has
<1>21. DocsFit(vector, hash', hashed)
  <2>1. ASSUME NEW b \in DOMAIN hash'
        PROVE  hashed /\ b \in DOMAIN vector /\ (vector[b].sure => hash'[b] = vector[b].of)
    <3>1. CASE b \in DOMAIN hash
      BY <1>4, <1>19, <3>1 DEF DocsFit
    <3>2. CASE b \notin DOMAIN hash
      <4>1. hashed /\ b \in DOMAIN vector
        BY <1>20, <2>1, <3>2
      <4>2. ~vector[b].sure
        BY <1>4, <3>2, <4>1 DEF DocsFit
      <4> QED BY <4>1, <4>2
    <3> QED BY <3>1, <3>2
  <2>2. \A b \in DOMAIN vector : vector[b].sure => b \in DOMAIN hash'
    BY <1>4, <1>19 DEF DocsFit
  <2> QED BY <2>1, <2>2 DEF DocsFit
<1>22. NoneLeft(q, text, vector, hash', hashed)
  <2>1. ASSUME NEW b \in Books, b \notin r.touched, b <= Reach(r)
        PROVE  Settled(b, r.model, text, vector, hash', hashed) \/ Waits(b, todo)
    <3>1. Settled(b, r.model, text, vector, hash, hashed) \/ Waits(b, books)
      BY <1>4, <1>6, <2>1 DEF RunFits, NoneLeft
    <3>2. CASE Settled(b, r.model, text, vector, hash, hashed)
      BY <1>19, <3>2 DEF Settled
    <3>3. CASE Waits(b, books)
      <4>1. PICK i \in 1 .. n : books[i].id = b
        BY <1>8, <3>3 DEF Waits
      <4>2. books[i].text = text[b]
        BY <1>7, <1>8, <2>1, <4>1
      <4>3. CASE Todo(books[i])
        <5>1. books[i] \in T
          <6>1. books[i] \in ToSet(books)
            BY <1>8, <4>1 DEF ToSet
          <6> QED BY <1>9, <4>3, <6>1
        <5>2. \E k \in 1 .. Len(todo) : todo[k] = books[i]
          BY <1>8, <1>14, <5>1
        <5> QED BY <4>1, <5>2 DEF Waits
      <4>4. CASE ~Todo(books[i])
        <5>1. b \in DOMAIN vector /\ vector[b].model = r.model
          BY <1>3, <4>1, <4>4 DEF Todo, Done, Has
        <5>2. hashed /\ b \in DOMAIN hash => hash[b] = text[b]
          BY <4>1, <4>2, <4>4 DEF Todo, Has
        <5>3. ASSUME hashed PROVE b \in DOMAIN hash' /\ hash'[b] = text[b]
          <6>1. CASE b \in DOMAIN hash
            BY <1>19, <5>2, <5>3, <6>1
          <6>2. CASE b \notin DOMAIN hash
            <7>1. i \in fill
              BY <1>3, <1>17, <4>1, <5>1, <5>3, <6>2 DEF Done, Has
            <7>2. b \in DOMAIN hash'
              BY <1>17, <1>18, <4>1, <7>1
            <7>3. PICK j \in 1 .. n : books[j].id = b /\ hash'[b] = books[j].text
              BY <1>20, <6>2, <7>2
            <7>4. books[j].text = text[b]
              BY <1>7, <1>8, <2>1, <7>3
            <7> QED BY <7>2, <7>3, <7>4
          <6> QED BY <6>1, <6>2
        <5> QED BY <5>1, <5>3 DEF Settled
      <4> QED BY <4>3, <4>4
    <3> QED BY <3>1, <3>2, <3>3
  <2> QED BY <1>12, <1>13, <2>1 DEF NoneLeft
<1>23. NothingExtra(q, text, vector, hashed)
  BY <1>12 DEF NothingExtra
<1>24. RunFits(q, text, vector, hash', hashed)
  <2>1. q.at \in RunPlaces /\ q.at # "compare"
    BY <1>12 DEF RunPlaces
  <2> QED BY <1>7, <1>12, <1>13, <1>15, <1>22, <1>23, <2>1 DEF RunFits
<1> QED BY <1>1, <1>2, <1>4, <1>21, <1>24 DEF EmbedInv

\* What is in a batch gets a vector of its row, the rest keeps what it had.
LEMMA BatchFits ==
  ASSUME EmbedInv, Batch
  PROVE  EmbedInv'
<1>1. text' = text /\ hashed' = hashed /\ hashed \in BOOLEAN
  BY DEF Batch, EmbedInv
<1>2. PICK q : q = run'
  OBVIOUS
<1>3. PICK r : r = run
  OBVIOUS
<1>4. /\ DOMAIN r = RunNames /\ RunFits(r, text, vector, hash, hashed) /\ text \in [Books -> Nat]
      /\ r.at = "batch" /\ DocsFit(vector, hash, hashed) /\ DOMAIN vector \subseteq Books /\ r.last \in Nat
  BY <1>3 DEF EmbedInv, RunFits, Batch
<1>5. PICK todo : todo = r.todo
  OBVIOUS
<1>6. Pending(r) = todo /\ Reach(r) = r.last
  BY <1>4, <1>5 DEF Pending, Reach
<1>7. /\ todo \in Seq(Rows)
      /\ \A i \in 1 .. Len(todo) : todo[i].id \notin r.touched => todo[i].text = text[todo[i].id]
  BY <1>4, <1>6 DEF RunFits, PendingFits
<1>8. PICK n \in Nat : n = Len(todo) /\ DOMAIN todo = 1 .. n
  BY <1>7
<1> DEFINE batch == Take(run.todo, BatchSize)
           ids == {batch[i].id : i \in DOMAIN batch}
           the(b) == batch[CHOOSE i \in DOMAIN batch : batch[i].id = b]
<1>9. batch = Take(todo, BatchSize)
  BY <1>3, <1>5
<1>28. /\ vector' = [b \in DOMAIN vector \cup ids |->
            IF b \in ids THEN [of |-> the(b).text, model |-> run.model, sure |-> hashed] ELSE vector[b]]
       /\ hash' = IF ~hashed THEN hash
                  ELSE [b \in DOMAIN hash \cup ids |-> IF b \in ids THEN Hashed(the(b)) ELSE hash[b]]
       /\ run' = [run EXCEPT !.todo = SubSeq(@, Len(batch) + 1, Len(@)),
                            !.at = IF Len(batch) = Len(run.todo) THEN "scan" ELSE "batch"]
  BY Zenon DEF Batch
<1> HIDE DEF batch
<1>10. PICK m \in Nat : m <= n /\ Len(batch) = m /\ batch = SubSeq(todo, 1, m) /\ batch \in Seq(Rows)
  <2>1. BatchSize \in Nat
    BY JobsAssumption
  <2>2. /\ Take(todo, BatchSize) = SubSeq(todo, 1, IF BatchSize <= Len(todo) THEN BatchSize ELSE Len(todo))
        /\ Take(todo, BatchSize) \in Seq(Rows)
        /\ Len(Take(todo, BatchSize)) = IF BatchSize <= Len(todo) THEN BatchSize ELSE Len(todo)
    BY <1>7, <2>1, TakeIs
  <2> QED BY <1>8, <1>9, <2>1, <2>2
<1>11. DOMAIN batch = 1 .. m /\ \A i \in 1 .. m : batch[i] = todo[i]
  BY <1>7, <1>8, <1>10
<1>12. /\ vector' = [b \in DOMAIN vector \cup ids |->
            IF b \in ids THEN [of |-> the(b).text, model |-> r.model, sure |-> hashed] ELSE vector[b]]
       /\ hash' = IF ~hashed THEN hash
                  ELSE [b \in DOMAIN hash \cup ids |-> IF b \in ids THEN Hashed(the(b)) ELSE hash[b]]
       /\ q = [r EXCEPT !.todo = SubSeq(@, Len(batch) + 1, Len(@)),
                        !.at = IF Len(batch) = Len(todo) THEN "scan" ELSE "batch"]
  <2> HIDE DEF ids, the
  <2> QED BY <1>2, <1>3, <1>5, <1>28, Zenon
<1>13. ASSUME NEW b \in ids
       PROVE  /\ b \in Books /\ the(b).text \in Nat
              /\ b \notin r.touched => the(b).text = text[b]
  <2>1. \E i \in DOMAIN batch : batch[i].id = b
    OBVIOUS
  <2>2. PICK i : i = CHOOSE j \in DOMAIN batch : batch[j].id = b
    OBVIOUS
  <2>3. i \in DOMAIN batch /\ batch[i].id = b
    BY <2>1, <2>2
  <2>4. the(b) = batch[i]
    BY <2>2
  <2>5. i \in 1 .. Len(todo) /\ batch[i] = todo[i] /\ batch[i] \in Rows
    BY <1>7, <1>8, <1>10, <1>11, <2>3
  <2> HIDE DEF ids, the
  <2> QED BY <1>7, <2>3, <2>4, <2>5 DEF Rows
<1>14. \A i \in 1 .. m : todo[i].id \in ids
  BY <1>11
<1> HIDE DEF ids, the
<1>15. /\ DOMAIN vector' = DOMAIN vector \cup ids
       /\ \A b \in ids : vector'[b] = [of |-> the(b).text, model |-> r.model, sure |-> hashed]
       /\ \A b \in DOMAIN vector : b \notin ids => vector'[b] = vector[b]
  BY <1>12
<1>16. /\ DOMAIN vector \cup ids \subseteq Books
       /\ ~hashed => hash' = hash
       /\ hashed => /\ DOMAIN hash' = DOMAIN hash \cup ids
                    /\ \A b \in ids : hash'[b] = the(b).text
                    /\ \A b \in DOMAIN hash : b \notin ids => hash'[b] = hash[b]
  <2>1. CASE hashed
    <3>1. hash' = [b \in DOMAIN hash \cup ids |-> IF b \in ids THEN Hashed(the(b)) ELSE hash[b]]
      BY <1>12, <2>1, Zenon
    <3> QED BY <1>4, <1>13, <2>1, <3>1 DEF Hashed
  <2>2. CASE ~hashed
    <3>1. hash' = hash
      BY <1>12, <2>2, Zenon
    <3> QED BY <1>4, <1>13, <2>2, <3>1
  <2> QED BY <2>1, <2>2
<1>17. DocsFit(vector', hash', hashed)
  <2>1. ASSUME NEW b \in DOMAIN hash'
        PROVE  hashed /\ b \in DOMAIN vector' /\ (vector'[b].sure => hash'[b] = vector'[b].of)
    <3>1. CASE b \in ids /\ hashed
      <4>1. vector'[b].of = the(b).text /\ hash'[b] = the(b).text
        BY <1>15, <1>16, <3>1
      <4> QED BY <1>15, <3>1, <4>1
    <3>2. CASE b \notin ids \/ ~hashed
      <4>1. b \in DOMAIN hash /\ hash'[b] = hash[b]
        BY <1>16, <2>1, <3>2
      <4>2. hashed /\ b \in DOMAIN vector /\ (vector[b].sure => hash[b] = vector[b].of)
        BY <1>4, <4>1 DEF DocsFit
      <4>3. b \notin ids
        BY <3>2, <4>2
      <4> QED BY <1>15, <4>1, <4>2, <4>3
    <3> QED BY <3>1, <3>2
  <2>2. ASSUME NEW b \in DOMAIN vector', vector'[b].sure PROVE b \in DOMAIN hash'
    <3>1. CASE b \in ids
      <4>1. hashed
        <5>1. vector'[b].sure = hashed
          BY <1>15, <3>1
        <5> QED BY <2>2, <5>1, Zenon
      <4> QED BY <1>16, <3>1, <4>1
    <3>2. CASE b \notin ids
      <4>1. b \in DOMAIN vector /\ vector'[b] = vector[b]
        BY <1>15, <2>2, <3>2
      <4>2. b \in DOMAIN hash
        BY <1>4, <2>2, <4>1 DEF DocsFit
      <4> QED BY <1>16, <4>2
    <3> QED BY <3>1, <3>2
  <2> QED BY <2>1, <2>2 DEF DocsFit
<1>18. PICK rest : rest = SubSeq(todo, m + 1, n)
  OBVIOUS
<1>19. PICK p \in {"scan", "batch"} : p = (IF Len(batch) = Len(todo) THEN "scan" ELSE "batch")
  OBVIOUS
<1>20. /\ DOMAIN q = RunNames /\ q.touched = r.touched /\ q.at = p /\ q.last = r.last
       /\ q.model = r.model /\ q.todo = rest
  <2>1. q = [r EXCEPT !.todo = rest, !.at = p]
    BY <1>4, <1>5, <1>8, <1>10, <1>12, <1>18, <1>19
  <2> QED BY <1>4, <2>1 DEF RunNames
<1>21. /\ rest \in Seq(Rows) /\ Len(rest) = n - m
       /\ \A i \in 1 .. n - m : rest[i] = todo[m + i]
  <2>1. m + 1 \in Int /\ n \in Int /\ \A i \in m + 1 .. n : todo[i] \in Rows
    BY <1>7, <1>8
  <2>2. SubSeq(todo, m + 1, n) \in Seq(Rows)
    BY <2>1, SubSeqProperties
  <2>3. Len(SubSeq(todo, m + 1, n)) = n - m
    BY <1>7, <1>8, <1>10
  <2>4. \A i \in 1 .. n - m : SubSeq(todo, m + 1, n)[i] = todo[m + i]
    BY <1>7, <1>8, <1>10
  <2> QED BY <1>18, <2>2, <2>3, <2>4
<1>22. PICK s : s = Pending(q)
  OBVIOUS
<1>23. s \in {rest, <<>>} /\ (m # n => s = rest) /\ Reach(q) = r.last
  BY <1>8, <1>10, <1>19, <1>20, <1>22 DEF Pending, Reach
<1>24. PendingFits(s, r.touched, text)
  <2>1. CASE s = <<>>
    BY <2>1 DEF PendingFits
  <2>2. CASE s = rest
    <3>1. ASSUME NEW i \in 1 .. n - m, rest[i].id \notin r.touched
          PROVE  rest[i].text = text[rest[i].id]
      <4>1. PICK k \in 1 .. n : k = m + i /\ rest[i] = todo[k]
        BY <1>10, <1>21
      <4> QED BY <1>7, <1>8, <3>1, <4>1
    <3> QED BY <1>21, <2>2, <3>1 DEF PendingFits
  <2> QED BY <1>23, <2>1, <2>2
<1>25. NoneLeft(q, text, vector', hash', hashed)
  <2>1. ASSUME NEW b \in Books, b \notin r.touched, b <= r.last
        PROVE  Settled(b, r.model, text, vector', hash', hashed) \/ Waits(b, s)
    <3>1. Settled(b, r.model, text, vector, hash, hashed) \/ Waits(b, todo)
      BY <1>4, <1>6, <2>1 DEF RunFits, NoneLeft
    <3>2. CASE b \in ids
      <4>1. b \in DOMAIN vector' /\ vector'[b].model = r.model
        BY <1>15, <3>2
      <4>2. hashed => b \in DOMAIN hash' /\ hash'[b] = text[b]
        BY <1>13, <1>16, <2>1, <3>2
      <4> QED BY <4>1, <4>2 DEF Settled
    <3>3. CASE b \notin ids /\ Settled(b, r.model, text, vector, hash, hashed)
      <4>1. ASSUME text[b] # 0 PROVE b \in DOMAIN vector' /\ vector'[b].model = r.model
        BY <1>15, <3>3, <4>1 DEF Settled
      <4>2. ASSUME text[b] # 0, hashed PROVE b \in DOMAIN hash' /\ hash'[b] = text[b]
        BY <1>16, <3>3, <4>2 DEF Settled
      <4> QED BY <4>1, <4>2 DEF Settled
    <3>4. CASE b \notin ids /\ Waits(b, todo)
      <4>1. PICK i \in 1 .. n : todo[i].id = b
        BY <1>8, <3>4 DEF Waits
      <4>2. ~(i <= m)
        <5>1. i <= m => i \in 1 .. m
          OBVIOUS
        <5> QED BY <1>14, <3>4, <4>1, <5>1
      <4>3. PICK k \in 1 .. n - m : i = m + k
        <5>1. i - m \in 1 .. n - m /\ i = m + (i - m)
          BY <1>8, <1>10, <4>1, <4>2
        <5> QED BY <5>1
      <4>4. s = rest /\ rest[k] = todo[i]
        BY <1>10, <1>21, <1>23, <4>2, <4>3
      <4> QED BY <1>21, <4>1, <4>3, <4>4 DEF Waits
    <3> QED BY <3>1, <3>2, <3>3, <3>4
  <2> QED BY <1>20, <1>22, <1>23, <2>1 DEF NoneLeft
<1>26. NothingExtra(q, text, vector', hashed)
  BY <1>19, <1>20 DEF NothingExtra
<1>27. RunFits(q, text, vector', hash', hashed)
  <2>1. q.at \in RunPlaces /\ q.at # "compare"
    BY <1>19, <1>20 DEF RunPlaces
  <2> QED BY <1>4, <1>20, <1>22, <1>23, <1>24, <1>25, <1>26, <2>1 DEF RunFits
<1> QED BY <1>1, <1>2, <1>4, <1>15, <1>16, <1>17, <1>27 DEF EmbedInv

LEMMA DropFits ==
  ASSUME EmbedInv, Drop \/ Check
  PROVE  EmbedInv'
<1>1. text' = text /\ hashed' = hashed /\ hashed \in BOOLEAN
  BY DEF Drop, Check, EmbedInv
<1>2. PICK q : q = run'
  OBVIOUS
<1>3. PICK r : r = run
  OBVIOUS
<1>4. /\ DOMAIN r = RunNames /\ RunFits(r, text, vector, hash, hashed) /\ text \in [Books -> Nat]
      /\ r.at \in {"drop", "check"} /\ DocsFit(vector, hash, hashed) /\ DOMAIN vector \subseteq Books
      /\ r.last \in Nat /\ LastBook \in Nat
  BY <1>3, JobsAssumption DEF EmbedInv, RunFits, Drop, Check
<1>5. Pending(r) = <<>> /\ Reach(r) = LastBook
  BY <1>4 DEF Pending, Reach
<1>6. \A b \in Books \ r.touched : Settled(b, r.model, text, vector, hash, hashed)
  <2>1. \A b \in Books : b <= LastBook
    BY <1>4 DEF Books
  <2>2. \A b : ~Waits(b, <<>>)
    BY DEF Waits
  <2> QED BY <1>4, <1>5, <2>1, <2>2 DEF RunFits, NoneLeft
<1>7. ASSUME q.at \in {"check", "ended"}, DOMAIN q = RunNames, q.last = r.last, q.touched = r.touched,
             q.model = r.model
      PROVE  /\ q.at \in RunPlaces /\ q.at # "compare" /\ Reach(q) = LastBook
             /\ PendingFits(Pending(q), q.touched, text)
  BY <1>7 DEF Pending, Reach, PendingFits, RunPlaces
<1>8. CASE Drop
  <2>1. PICK kept : kept = {b \in DOMAIN vector : text[b] # 0}
    OBVIOUS
  <2>2. vector' = [b \in kept |-> vector[b]] /\ hash' = [b \in kept \cap DOMAIN hash |-> hash[b]]
    BY <1>8, <2>1, Zenon DEF Drop
  <2>3. q = [r EXCEPT !.at = "check"]
    BY <1>2, <1>3, <1>8 DEF Drop
  <2>4. /\ DOMAIN q = RunNames /\ q.touched = r.touched /\ q.at = "check" /\ q.last = r.last
        /\ q.model = r.model
    BY <1>4, <2>3 DEF RunNames
  <2>5. DocsFit(vector', hash', hashed) /\ DOMAIN vector' \subseteq Books
    BY <1>4, <2>1, <2>2 DEF DocsFit
  <2>6. NothingExtra(q, text, vector', hashed)
    <3>1. \A b \in Books \ r.touched : (text[b] # 0) = (b \in DOMAIN vector')
      BY <1>6, <2>1, <2>2 DEF Settled
    <3> QED BY <2>4, <3>1 DEF NothingExtra
  <2>7. NoneLeft(q, text, vector', hash', hashed)
    <3>1. \A b \in Books \ r.touched : Settled(b, r.model, text, vector', hash', hashed)
      BY <1>6, <2>1, <2>2 DEF Settled
    <3> QED BY <2>4, <3>1 DEF NoneLeft
  <2>8. RunFits(q, text, vector', hash', hashed)
    BY <1>4, <1>7, <2>4, <2>6, <2>7 DEF RunFits
  <2> QED BY <1>1, <1>2, <1>4, <2>5, <2>8 DEF EmbedInv
<1>9. CASE Check
  <2>1. vector' = vector /\ hash' = hash
    BY <1>9 DEF Check
  <2>2. CASE Missing = {}
    <3>1. q = [r EXCEPT !.at = "ended"]
      BY <1>2, <1>3, <1>9, <2>2 DEF Check
    <3>2. /\ DOMAIN q = RunNames /\ q.touched = r.touched /\ q.at = "ended" /\ q.last = r.last
          /\ q.model = r.model
      BY <1>4, <3>1 DEF RunNames
    <3>3. NothingExtra(q, text, vector, hashed)
      <4>1. r.at = "check"
        BY <1>3, <1>9 DEF Check
      <4> QED BY <1>4, <3>2, <4>1 DEF NothingExtra, RunFits
    <3>4. NoneLeft(q, text, vector, hash, hashed)
      BY <1>6, <3>2 DEF NoneLeft
    <3>5. RunFits(q, text, vector, hash, hashed)
      BY <1>4, <1>7, <3>2, <3>3, <3>4 DEF RunFits
    <3> QED BY <1>1, <1>2, <1>4, <2>1, <3>5 DEF EmbedInv
  <2>3. CASE Missing # {}
    <3>1. q = [NoRun EXCEPT !.n = run.n]
      BY <1>2, <1>9, <2>3 DEF Check
    <3>2. DOMAIN q = RunNames /\ q.at = "off" /\ q.last = 0 /\ q.touched = {}
      BY <3>1 DEF NoRun, RunNames
    <3> QED BY <1>1, <1>2, <1>4, <2>1, <3>2, NotRunning DEF EmbedInv
  <2> QED BY <2>2, <2>3
<1> QED BY <1>8, <1>9

LEMMA EmbedStep == EmbedInv /\ [EmbedNext \/ ClassNext]_jobsVars => EmbedInv'
<1> SUFFICES ASSUME EmbedInv, [EmbedNext \/ ClassNext]_jobsVars PROVE EmbedInv'
  OBVIOUS
<1>1. CASE EmbedNext
  BY <1>1, EditFits, StopFits, ScanFits, CompareFits, BatchFits, DropFits, Zenon DEF EmbedNext
<1>2. CASE UNCHANGED embedVars
  BY <1>2 DEF embedVars, EmbedInv
<1>3. ClassNext => UNCHANGED embedVars
  BY DEF ClassNext, StartLoad, CopyLine, Commit, LoadDies
<1> QED BY <1>1, <1>2, <1>3 DEF jobsVars

\* The inductive invariant of the embedding job, for every catalogue, size of scan and batch,
\* number of changes and runs: no book so far is left behind (embed_books.run).
THEOREM EmbedFits == JobsSpec => []EmbedInv
BY EmbedStart, EmbedStep, PTL DEF JobsSpec

\* A job that ends well leaves every book that nobody changed meanwhile with a vector of its
\* model and its text, whatever runs died before it (embed_books.run, _split_by_hash).
THEOREM NobodyLeftBehind == JobsSpec => []EmbedResumes
<1>1. ASSUME EmbedInv PROVE EmbedResumes
  <2>1. \A b \in DOMAIN hash : hashed /\ Has(vector, b) /\ (vector[b].sure => hash[b] = vector[b].of)
    BY <1>1 DEF EmbedInv, DocsFit, Has
  <2>2. ASSUME run.at = "ended", NEW b \in Books \ run.touched
        PROVE  /\ text[b] # 0 => Done(b) /\ (vector[b].sure => vector[b].of = text[b])
               /\ hashed => (text[b] # 0) = Has(vector, b) /\ (Has(vector, b) => hash[b] = text[b])
    <3>1. Pending(run) = <<>> /\ Reach(run) = LastBook
      BY <2>2 DEF Pending, Reach
    <3>2. b <= LastBook /\ ~Waits(b, <<>>)
      BY JobsAssumption DEF Books, Waits
    <3>3. Settled(b, run.model, text, vector, hash, hashed)
      BY <1>1, <3>1, <3>2 DEF EmbedInv, RunFits, NoneLeft
    <3>4. ASSUME hashed PROVE (text[b] # 0) = Has(vector, b)
      BY <1>1, <2>2, <3>4 DEF EmbedInv, RunFits, NothingExtra, Has
    <3>5. ASSUME text[b] # 0, vector[b].sure PROVE vector[b].of = text[b]
      <4>1. b \in DOMAIN vector
        BY <3>3, <3>5 DEF Settled
      <4>2. b \in DOMAIN hash
        BY <1>1, <3>5, <4>1 DEF EmbedInv, DocsFit
      <4>3. hashed /\ hash[b] = vector[b].of
        BY <2>1, <3>5, <4>2
      <4> QED BY <3>3, <3>5, <4>3 DEF Settled
    <3> QED BY <3>3, <3>4, <3>5 DEF Settled, Done, Has
  <2> QED BY <2>1, <2>2 DEF EmbedResumes
<1> QED BY <1>1, EmbedFits, PTL

-----------------------------------------------------------------------------
(* What the answer of an extraction holds.                                 *)

\* The model has answered, and what was found is what its answer comes to.
SaidBy(r, talks, answers) ==
  /\ r.tries # <<>> /\ r.tries[Len(r.tries)] = "good"
  /\ r.talk \in talks /\ r.heard \in answers /\ r.found = Screen(r.heard, Said(r.talk))

\* Nothing is found before an answer, and nothing is kept of a request that failed.
FoundFits(r, talks, answers) ==
  r.kind = "extract" =>
    /\ r.at \in Waiting => r.found = <<>> /\ r.talk \in talks
    /\ r.at \in Loading => SaidBy(r, talks, answers)
    /\ r.at = "done" => IF r.code = 200 /\ r.tries # <<>> THEN SaidBy(r, talks, answers)
                        ELSE r.found = <<>>

FoundInv == \A c \in Callers : FoundFits(call[c], Talks[c], Answers[c])

\* The request of one caller is another one, or stays as it was.
LEMMA OneFound ==
  ASSUME TimeInv, FoundInv, NEW c \in Callers, NEW r, FoundFits(r, Talks[c], Answers[c]),
         Becomes(c, r)
  PROVE  FoundInv'
<1>1. \A d \in Callers : call'[d] = IF d = c THEN r ELSE call[d]
  BY DEF Becomes, TimeInv
<1>2. \A d \in Callers : FoundFits(call[d], Talks[d], Answers[d])
  BY DEF FoundInv
<1>3. \A d \in Callers : FoundFits(call'[d], Talks[d], Answers[d])
  BY <1>1, <1>2
<1> QED BY <1>3 DEF FoundInv

\* A request that is elsewhere by now, with another code or other findings.
SameBut(r, new, at, code, found) ==
  /\ new.at = at /\ new.code = code /\ new.found = found
  /\ new.kind = r.kind /\ new.talk = r.talk /\ new.heard = r.heard /\ new.tries = r.tries

LEMMA EndedBut ==
  ASSUME NEW r, Fields(r), NEW code
  PROVE  /\ SameBut(r, Finish(r, code), "done", code, r.found)
         /\ SameBut(r, [Finish(r, code) EXCEPT !.found = <<>>], "done", code, <<>>)
<1> PICK took : took = clock - r.since
  OBVIOUS
<1>1. PICK f : f = Finish(r, code)
  OBVIOUS
<1>2. f = [at |-> "done", kind |-> r.kind, since |-> 0, from |-> 0, talk |-> r.talk,
           heard |-> r.heard, tries |-> r.tries, found |-> r.found, code |-> code,
           took |-> took]
  BY <1>1, FinishIs
<1>3. SameBut(r, f, "done", code, r.found)
  BY <1>2 DEF SameBut
<1>4. PICK g : g = [f EXCEPT !.found = <<>>]
  OBVIOUS
<1>5. g = [at |-> "done", kind |-> r.kind, since |-> 0, from |-> 0, talk |-> r.talk,
           heard |-> r.heard, tries |-> r.tries, found |-> <<>>, code |-> code,
           took |-> took]
  BY <1>2, <1>4
<1>6. SameBut(r, g, "done", code, <<>>)
  BY <1>5 DEF SameBut
<1> QED BY <1>1, <1>3, <1>4, <1>6

LEMMA MovedBut ==
  ASSUME NEW r, Fields(r), NEW at, NEW begun, NEW found
  PROVE  /\ SameBut(r, [r EXCEPT !.from = begun], r.at, r.code, r.found)
         /\ SameBut(r, [r EXCEPT !.at = at], at, r.code, r.found)
         /\ SameBut(r, [r EXCEPT !.at = at, !.from = begun], at, r.code, r.found)
         /\ SameBut(r, [r EXCEPT !.at = at, !.found = found, !.from = begun], at, r.code, found)
<1>1. PICK a : a = [r EXCEPT !.at = at]
  OBVIOUS
<1>2. Fields(a) /\ SameBut(r, a, at, r.code, r.found)
  BY <1>1 DEF Fields, SameBut
<1>3. PICK b : b = [a EXCEPT !.found = found]
  OBVIOUS
<1>4. Fields(b) /\ SameBut(r, b, at, r.code, found)
  BY <1>2, <1>3 DEF Fields, SameBut
<1>5. SameBut(r, [a EXCEPT !.from = begun], at, r.code, r.found)
  BY <1>2 DEF Fields, SameBut
<1>6. SameBut(r, [b EXCEPT !.from = begun], at, r.code, found)
  BY <1>4 DEF Fields, SameBut
<1>7. SameBut(r, [r EXCEPT !.from = begun], r.at, r.code, r.found)
  BY DEF Fields, SameBut
<1> QED BY <1>1, <1>2, <1>3, <1>5, <1>6, <1>7

TriedFields(r, new, tries) ==
  /\ Fields(new) /\ new.tries = tries /\ new.at = r.at /\ new.kind = r.kind
  /\ new.talk = r.talk /\ new.found = r.found /\ new.code = r.code

LEMMA TriedIs ==
  ASSUME NEW r, Fields(r), NEW tries, NEW new, new = [r EXCEPT !.tries = tries]
  PROVE  TriedFields(r, new, tries)
BY DEF Fields, TriedFields

LEMMA HeardIs ==
  ASSUME NEW r, Fields(r), NEW heard, NEW new, new = [r EXCEPT !.heard = heard]
  PROVE  TriedFields(r, new, r.tries) /\ new.heard = heard
BY DEF Fields, TriedFields

\* A request that fails, is given up or breaks has found nothing.
LEMMA FailsFound ==
  ASSUME TimeInv, FoundInv, NEW c \in Callers, CallFails(c) \/ TimeIsUp(c) \/ CallBreaks(c)
  PROVE  FoundInv'
<1>1. PICK r : r = call[c]
  OBVIOUS
<1>2. Fields(r) /\ r.at \in Waiting /\ FoundFits(r, Talks[c], Answers[c])
  BY <1>1 DEF TimeInv, RequestOK, RequestShape, Fields, FoundInv, CallFails, TimeIsUp, CallBreaks, Asking, Waiting
<1>3. r.kind = "extract" => r.found = <<>> /\ r.talk \in Talks[c]
  BY <1>2 DEF FoundFits
<1>4. ASSUME NEW why, NEW code, code # 200, NEW tried, tried = [r EXCEPT !.tries = Append(@, why)],
             Becomes(c, Finish(tried, code))
      PROVE  FoundInv'
  <2>1. Fields(tried) /\ tried.kind = r.kind /\ tried.found = r.found
    <3>1. PICK tries : tries = Append(r.tries, why)
      OBVIOUS
    <3>2. TriedFields(r, tried, tries)
      BY <1>2, <1>4, <3>1, TriedIs
    <3> QED BY <3>2 DEF TriedFields
  <2>2. PICK new : new = Finish(tried, code)
    OBVIOUS
  <2>3. SameBut(tried, new, "done", code, tried.found)
    BY <2>1, <2>2, EndedBut
  <2>4. FoundFits(new, Talks[c], Answers[c])
    BY <1>3, <1>4, <2>1, <2>3 DEF FoundFits, SameBut, Waiting, Loading
  <2> QED BY <1>4, <2>2, <2>4, OneFound
<1>5. CASE TimeIsUp(c) \/ CallBreaks(c)
  <2>1. PICK up, broken : up = 504 /\ broken = 500
    OBVIOUS
  <2>2. PICK tried, other : /\ tried = [r EXCEPT !.tries = Append(@, "timeout")]
                            /\ other = [r EXCEPT !.tries = Append(@, "broken")]
    OBVIOUS
  <2>3. Becomes(c, Finish(tried, up)) \/ Becomes(c, Finish(other, broken))
    BY <1>1, <1>5, <2>1, <2>2 DEF TimeIsUp, CallBreaks
  <2>4. up # 200 /\ broken # 200
    BY <2>1
  <2> QED BY <1>4, <2>2, <2>3, <2>4
<1>6. CASE CallFails(c)
  <2>1. PICK why \in {"failed", "timeout"} :
          /\ why = "timeout" => clock = CallEnds(c)
          /\ LET tried == [call[c] EXCEPT !.tries = Append(@, why)] IN
             Becomes(c, IF call[c].at = "own" THEN [tried EXCEPT !.at = "api", !.from = clock]
                        ELSE Finish(tried, IF why = "timeout" THEN 504 ELSE 503))
    BY <1>6 DEF CallFails
  <2>2. PICK tried : tried = [r EXCEPT !.tries = Append(@, why)]
    OBVIOUS
  <2>9. PICK code : code = IF why = "timeout" THEN 504 ELSE 503
    OBVIOUS
  <2>3. PICK new : new = [tried EXCEPT !.at = "api", !.from = clock]
    OBVIOUS
  <2>4. Becomes(c, new) \/ Becomes(c, Finish(tried, code))
    BY <1>1, <2>1, <2>2, <2>3, <2>9
  <2>5. code # 200
    BY <2>9
  <2>6. FoundFits(new, Talks[c], Answers[c])
    <3>1. Fields(tried) /\ tried.kind = r.kind /\ tried.found = r.found /\ tried.talk = r.talk
      <4>1. PICK tries : tries = Append(r.tries, why)
        OBVIOUS
      <4>2. TriedFields(r, tried, tries)
        BY <1>2, <2>2, <4>1, TriedIs
      <4> QED BY <4>2 DEF TriedFields
    <3>2. SameBut(tried, new, "api", tried.code, tried.found)
      BY <3>1, <2>3, MovedBut
    <3> QED BY <1>3, <3>1, <3>2 DEF FoundFits, SameBut, Loading
  <2> QED BY <1>4, <2>2, <2>4, <2>5, <2>6, OneFound
<1> QED BY <1>5, <1>6

LEMMA AnswersFound ==
  ASSUME TimeInv, FoundInv, NEW c \in Callers, CallAnswers(c)
  PROVE  FoundInv'
<1>1. PICK r : r = call[c]
  OBVIOUS
<1>2. /\ Fields(r) /\ r.at \in Waiting /\ FoundFits(r, Talks[c], Answers[c])
      /\ r.tries \in Seq(CallResults)
  BY <1>1 DEF TimeInv, RequestOK, RequestShape, Fields, FoundInv, CallAnswers, Asking, Waiting
<1>3. PICK items : /\ r.kind = "extract" => items \in Answers[c]
        /\ LET found == Screen(items, Said(call[c].talk))
               told == [call[c] EXCEPT !.tries = Append(@, "good"), !.heard = items] IN
           Becomes(c, IF found = <<>> THEN Finish(told, 200)
                      ELSE [told EXCEPT !.at = "load", !.found = found, !.from = 0])
  BY <1>1, Zenon DEF CallAnswers
<1>4. PICK found : found = Screen(items, Said(r.talk))
  OBVIOUS
<1>5. PICK tries : tries = Append(r.tries, "good")
  OBVIOUS
<1>6. PICK tried : tried = [r EXCEPT !.tries = tries]
  OBVIOUS
<1>7. PICK told : told = [tried EXCEPT !.heard = items]
  OBVIOUS
<1>8. PICK ok, new : ok = 200 /\ new = [told EXCEPT !.at = "load", !.found = found, !.from = 0]
  OBVIOUS
<1>9. Becomes(c, IF found = <<>> THEN Finish(told, ok) ELSE new)
  <2>1. told = [r EXCEPT !.tries = Append(@, "good"), !.heard = items]
    BY <1>5, <1>6, <1>7
  <2> QED BY <1>1, <1>3, <1>4, <1>8, <2>1, Zenon
<1>10. Fields(told) /\ told.kind = r.kind /\ told.talk = r.talk /\ told.found = r.found
       /\ told.tries = tries /\ told.heard = items
  <2>1. Fields(tried) /\ tried.kind = r.kind /\ tried.talk = r.talk /\ tried.found = r.found
        /\ tried.tries = tries
    BY <1>2, <1>6, TriedIs DEF TriedFields
  <2> QED BY <1>7, <2>1, HeardIs DEF TriedFields
<1>11. tries # <<>> /\ tries[Len(tries)] = "good"
  BY <1>2, <1>5 DEF CallResults
<1>12. SameBut(told, Finish(told, ok), "done", ok, told.found) /\ SameBut(told, new, "load", told.code, found)
  BY <1>8, <1>10, EndedBut, MovedBut
<1>13. r.kind = "extract" => r.found = <<>> /\ r.talk \in Talks[c]
  BY <1>2 DEF FoundFits
<1>14. ASSUME NEW next, NEW at, NEW code, SameBut(told, next, at, code, found),
              at = "load" \/ (at = "done" /\ code = 200)
       PROVE  FoundFits(next, Talks[c], Answers[c])
  <2>1. ASSUME next.kind = "extract" PROVE SaidBy(next, Talks[c], Answers[c])
    BY <1>3, <1>4, <1>10, <1>11, <1>13, <1>14, <2>1 DEF SameBut, SaidBy
  <2>2. next.at \notin Waiting /\ (next.at = "done" => next.code = 200 /\ next.tries # <<>>)
    BY <1>10, <1>11, <1>14 DEF SameBut, Waiting
  <2> QED BY <2>1, <2>2 DEF FoundFits
<1>15. CASE found = <<>>
  <2>1. PICK next : next = Finish(told, ok)
    OBVIOUS
  <2>2. SameBut(told, next, "done", ok, told.found)
    BY <1>12, <2>1
  <2>3. CASE told.kind = "extract"
    <3>1. told.found = found
      BY <1>10, <1>13, <1>15, <2>3
    <3>2. FoundFits(next, Talks[c], Answers[c])
      BY <1>8, <1>14, <2>2, <3>1
    <3> QED BY <1>9, <1>15, <2>1, <3>2, OneFound
  <2>4. CASE told.kind # "extract"
    <3>1. FoundFits(next, Talks[c], Answers[c])
      BY <2>2, <2>4 DEF SameBut, FoundFits
    <3> QED BY <1>9, <1>15, <2>1, <3>1, OneFound
  <2> QED BY <2>3, <2>4
<1>16. CASE found # <<>>
  BY <1>9, <1>12, <1>14, <1>16, OneFound
<1> QED BY <1>15, <1>16

LEMMA StartFound ==
  ASSUME TimeInv, FoundInv, NEW c \in Callers, NEW kind \in Does[c], NEW talk,
         kind = "extract" => talk \in Talks[c], NEW consented \in BOOLEAN, Start(c, kind, talk, consented)
  PROVE  FoundInv'
<1>1. PICK r : r = [NoCall EXCEPT !.kind = kind, !.since = clock, !.from = clock, !.talk = talk]
  OBVIOUS
<1>2. r = [at |-> "idle", kind |-> kind, since |-> clock, from |-> clock, talk |-> talk,
           heard |-> <<>>, tries |-> <<>>, found |-> <<>>, code |-> 0, took |-> 0]
  BY <1>1 DEF NoCall
<1>3. Fields(r) /\ r.kind = kind /\ r.talk = talk /\ r.found = <<>> /\ r.tries = <<>>
  BY <1>2 DEF Fields
<1>4. PICK new, code : /\ Becomes(c, new)
                       /\ \/ code = 200 /\ new = Finish(r, code)
                          \/ kind # "extract" /\ \E at : new = [r EXCEPT !.at = at]
                          \/ \E at \in {"own", "api"} : new = [r EXCEPT !.at = at]
  <2>1. \/ kind # "extract" /\ \E at : Becomes(c, [r EXCEPT !.at = at])
        \/ Becomes(c, [r EXCEPT !.at = "api"]) \/ Becomes(c, [r EXCEPT !.at = "own"])
        \/ Becomes(c, Finish(r, 200))
    BY <1>1 DEF Start
  <2> QED BY <2>1
<1>5. CASE code = 200 /\ new = Finish(r, code)
  <2>1. SameBut(r, new, "done", code, r.found)
    BY <1>3, <1>5, EndedBut
  <2>2. FoundFits(new, Talks[c], Answers[c])
    BY <1>3, <2>1 DEF SameBut, FoundFits, Waiting, Loading
  <2> QED BY <1>4, <2>2, OneFound
<1>6. CASE kind # "extract" /\ \E at : new = [r EXCEPT !.at = at]
  <2>1. PICK at : new = [r EXCEPT !.at = at]
    BY <1>6
  <2>2. SameBut(r, new, at, r.code, r.found)
    BY <1>3, <2>1, MovedBut
  <2>3. FoundFits(new, Talks[c], Answers[c])
    BY <1>3, <1>6, <2>2 DEF SameBut, FoundFits
  <2> QED BY <1>4, <2>3, OneFound
<1>7. CASE \E at \in {"own", "api"} : new = [r EXCEPT !.at = at]
  <2>1. PICK at \in {"own", "api"} : new = [r EXCEPT !.at = at]
    BY <1>7
  <2>2. SameBut(r, new, at, r.code, r.found)
    BY <1>3, <2>1, MovedBut
  <2>3. FoundFits(new, Talks[c], Answers[c])
    BY <1>3, <2>2 DEF SameBut, FoundFits, Waiting, Loading
  <2> QED BY <1>4, <2>3, OneFound
<1> QED BY <1>4, <1>5, <1>6, <1>7

\* From the answer to the vectors what was found stays, or the request fails.
LEMMA LoadingFound ==
  ASSUME TimeInv, FoundInv, NEW c \in Callers,
         Piece(c) \/ Load(c) \/ Enter(c) \/ Build(c) \/ Encode(c)
  PROVE  FoundInv'
<1>1. PICK r : r = call[c]
  OBVIOUS
<1>2. Fields(r) /\ FoundFits(r, Talks[c], Answers[c])
  BY <1>1 DEF TimeInv, RequestOK, RequestShape, Fields, FoundInv
<1>3. CASE Piece(c)
  <2>1. PICK new : new = [r EXCEPT !.from = clock]
    OBVIOUS
  <2>2. SameBut(r, new, r.at, r.code, r.found) /\ Becomes(c, new)
    BY <1>1, <1>2, <1>3, <2>1, MovedBut DEF Piece
  <2>3. FoundFits(new, Talks[c], Answers[c])
    BY <1>2, <2>2 DEF SameBut, FoundFits, SaidBy
  <2> QED BY <2>2, <2>3, OneFound
<1>4. ASSUME ~Piece(c) PROVE r.at \in Loading
  BY <1>1, <1>4 DEF Load, Enter, Build, Encode, Loading
<1>5. ASSUME r.at \in Loading, NEW at \in Loading, NEW begun, Becomes(c, [r EXCEPT !.at = at, !.from = begun])
      PROVE  FoundInv'
  <2>1. PICK new : new = [r EXCEPT !.at = at, !.from = begun]
    OBVIOUS
  <2>2. SameBut(r, new, at, r.code, r.found)
    BY <1>2, <2>1, MovedBut
  <2>3. FoundFits(new, Talks[c], Answers[c])
    BY <1>2, <1>5, <2>2 DEF SameBut, FoundFits, SaidBy, Waiting, Loading
  <2> QED BY <1>5, <2>1, <2>3, OneFound
<1>6. ASSUME Becomes(c, NoVectors(c)) PROVE FoundInv'
  <2>1. PICK code : code = 503
    OBVIOUS
  <2>2. PICK new : new = [Finish(r, code) EXCEPT !.found = <<>>]
    OBVIOUS
  <2>3. SameBut(r, new, "done", code, <<>>)
    BY <1>2, <2>2, EndedBut
  <2>4. FoundFits(new, Talks[c], Answers[c])
    BY <2>1, <2>3 DEF SameBut, FoundFits, Waiting, Loading
  <2>5. new = NoVectors(c)
    BY <1>1, <2>1, <2>2 DEF NoVectors
  <2> QED BY <1>6, <2>4, <2>5, OneFound
<1>7. CASE Load(c)
  <2>1. PICK at \in {"encode", "wait"} : Becomes(c, [r EXCEPT !.at = at, !.from = 0])
    BY <1>1, <1>7 DEF Load
  <2> QED BY <1>1, <1>5, <1>7, <2>1 DEF Load, Loading
<1>8. CASE Enter(c)
  <2>1. CASE Sees(c) = "cold"
    BY <1>6, <1>8, <2>1 DEF Enter
  <2>2. CASE Sees(c) # "cold"
    <3>1. PICK at, begun : at = Sees(c) /\ begun = IF Sees(c) = "build" THEN clock ELSE 0
      OBVIOUS
    <3>2. at \in Loading /\ r.at \in Loading
      BY <1>1, <1>8, <2>2, <3>1 DEF Sees, Loading, Enter
    <3>3. Becomes(c, [r EXCEPT !.at = at, !.from = begun])
      BY <1>1, <1>8, <2>2, <3>1 DEF Enter
    <3> QED BY <1>5, <3>2, <3>3
  <2> QED BY <2>1, <2>2
<1>9. CASE Build(c)
  <2>1. PICK good \in BOOLEAN :
          Becomes(c, IF good THEN [r EXCEPT !.at = "encode", !.from = 0] ELSE NoVectors(c))
    BY <1>1, <1>9 DEF Build
  <2>2. r.at \in Loading /\ "encode" \in Loading
    BY <1>1, <1>9 DEF Build, Loading
  <2> QED BY <1>5, <1>6, <2>1, <2>2
<1>10. CASE Encode(c)
  <2>1. PICK code : code = 200
    OBVIOUS
  <2>2. PICK new : new = Finish(r, code)
    OBVIOUS
  <2>3. SameBut(r, new, "done", code, r.found) /\ r.at \in Loading
    BY <1>1, <1>2, <1>10, <2>2, EndedBut DEF Encode, Loading
  <2>4. FoundFits(new, Talks[c], Answers[c])
    BY <1>2, <2>1, <2>3 DEF SameBut, FoundFits, SaidBy, Waiting, Loading
  <2>5. Becomes(c, new) \/ Becomes(c, NoVectors(c))
    BY <1>1, <1>10, <2>1, <2>2 DEF Encode
  <2> QED BY <1>6, <2>4, <2>5, OneFound
<1> QED BY <1>3, <1>7, <1>8, <1>9, <1>10

LEMMA FoundStart == GatewayInit => FoundInv
BY DEF GatewayInit, NoCall, FoundInv, FoundFits

LEMMA FoundStep == TimeInv /\ FoundInv /\ [GatewayNext]_gatewayVars => FoundInv'
<1> SUFFICES ASSUME TimeInv, FoundInv, [GatewayNext]_gatewayVars PROVE FoundInv'
  OBVIOUS
<1>1. CASE Tick \/ UNCHANGED gatewayVars
  BY <1>1 DEF Tick, gatewayVars, FoundInv
<1>2. ASSUME NEW c \in Callers, CallFails(c) \/ TimeIsUp(c) \/ CallBreaks(c) PROVE FoundInv'
  BY <1>2, FailsFound
<1>3. ASSUME NEW c \in Callers, Piece(c) \/ Load(c) \/ Enter(c) \/ Build(c) \/ Encode(c) PROVE FoundInv'
  BY <1>3, LoadingFound
<1>4. ASSUME NEW c \in Callers, CallAnswers(c) PROVE FoundInv'
  BY <1>4, AnswersFound
<1>5. ASSUME NEW c \in Callers, NEW kind \in Does[c], NEW talk, NEW consented \in BOOLEAN,
             kind = "extract" => talk \in Talks[c], Start(c, kind, talk, consented)
      PROVE  FoundInv'
  BY <1>5, StartFound
<1> QED BY <1>1, <1>2, <1>3, <1>4, <1>5 DEF GatewayNext

THEOREM GatewayFinds == GatewaySpec => []FoundInv
BY FoundStart, FoundStep, GatewayTimes, PTL DEF GatewaySpec

-----------------------------------------------------------------------------
(* What is kept of an answer: lists, strengths, keywords.                  *)

LEMMA SaidTurns ==
  ASSUME NEW talk, IsList(talk)
  PROVE  \A i \in DOMAIN Said(talk) :
           Said(talk)[i].role = "user" /\ \E j \in DOMAIN talk : Said(talk)[i] = talk[j]
<1>1. PICK T : T = ToSet(talk)
  OBVIOUS
<1>2. talk \in Seq(T) /\ Len(talk) \in Nat /\ DOMAIN talk = 1 .. Len(talk)
  BY <1>1 DEF IsList
<1>3. PICK first : first = IF Len(talk) > MaxTurns THEN Len(talk) - MaxTurns + 1 ELSE 1
  OBVIOUS
<1>4. first \in Int /\ first >= 1
  BY <1>2, <1>3, ExtractionAssumption
<1>5. PICK used : used = SubSeq(talk, first, Len(talk))
  OBVIOUS
<1>6. used \in Seq(T)
  BY <1>2, <1>4, <1>5, SubSeqProperties
<1>7. PICK S : S = {turn \in ToSet(used) : turn.role = "user"}
  OBVIOUS
<1>8. Said(talk) = Only(used, S)
  BY <1>3, <1>5, <1>7 DEF Said
<1>9. OnlyOf(Said(talk), used, S, T)
  BY <1>6, <1>8, OnlyIs
<1>10. ASSUME NEW i \in DOMAIN Said(talk)
       PROVE  Said(talk)[i].role = "user" /\ \E j \in DOMAIN talk : Said(talk)[i] = talk[j]
  <2>1. i \in 1 .. Len(Said(talk))
    BY <1>9 DEF OnlyOf
  <2>2. Said(talk)[i] \in T /\ Said(talk)[i] \in S
    BY <1>9, <2>1 DEF OnlyOf
  <2>3. Said(talk)[i].role = "user"
    BY <1>7, <2>2
  <2>4. \E j \in DOMAIN talk : Said(talk)[i] = talk[j]
    BY <1>1, <2>2 DEF ToSet
  <2> QED BY <2>3, <2>4
<1> QED BY <1>10

LEMMA KnownFew ==
  ASSUME NEW names, IsList(names)
  PROVE  Len(KnownNames(names)) <= MaxNames
<1>1. DOMAIN names = 1 .. Len(names) /\ Len(names) \in Nat
  BY DEF IsList
<1> DEFINE firsts == {i \in DOMAIN names : names[i] \in Genres /\ \A j \in 1 .. i - 1 : names[j] # names[i]}
           K == {<<<<i>>, i>> : i \in firsts}
           order == Take(ByKey(K), MaxNames)
<1>2. KnownNames(names) = [p \in 1 .. Len(order) |-> names[order[p]]]
  BY DEF KnownNames, Ordered
<1>3. IsFiniteSet(firsts)
  <2>1. IsFiniteSet(1 .. Len(names)) /\ firsts \subseteq 1 .. Len(names)
    BY <1>1, FS_Interval
  <2> QED BY <2>1, FS_Subset
<1>4. IsFiniteSet(K)
  <2>1. PICK f : f = [i \in firsts |-> <<<<i>>, i>>]
    OBVIOUS
  <2>2. f \in Surjection(firsts, K)
    BY <2>1 DEF Surjection
  <2> QED BY <1>3, <2>2, FS_Surjection
<1>5. PICK T : ByKey(K) \in Seq(T)
  BY <1>4, ByKeyIsAList
<1>6. Len(order) <= MaxNames /\ Len(order) \in Nat
  <2>1. MaxNames \in Nat
    BY ExtractionAssumption
  <2>2. /\ order \in Seq(T)
        /\ Len(order) = IF MaxNames <= Len(ByKey(K)) THEN MaxNames ELSE Len(ByKey(K))
    BY <1>5, <2>1, TakeIs
  <2> QED BY <1>5, <2>1, <2>2
<1> HIDE DEF order
<1> QED BY <1>2, <1>6

LEMMA StrengthIs ==
  ASSUME NEW item, item.strength \in Int
  PROVE  Strength(item) \in Int
<1>1. PICK raw \in Int : raw = item.strength
  OBVIOUS
<1>2. Abs(raw) \in Int
  BY DEF Abs
<1>3. CASE raw > 0
  BY <1>1, <1>2, <1>3 DEF Strength, Abs
<1>4. CASE ~(raw > 0)
  BY <1>1, <1>2, <1>4 DEF Strength, Abs
<1> QED BY <1>3, <1>4

LEMMA ConditionBound ==
  ASSUME NEW item, ItemReads(item), item.type = "condition", Keyword(item) # NoKeyword
  PROVE  Keyword(item).bound \in {"atMost", "atLeast", "since", "before"}
<1>1. PICK k : k = item.keyword
  OBVIOUS
<1>2. /\ DOMAIN k = {"unit", "n", "bound"}
      /\ k.unit \in {"pages", "man", "won"} => k.bound \in DOMAIN Bounds
      /\ k.unit = "year" => k.bound \in DOMAIN Sinces
  BY <1>1 DEF ItemReads
<1>3. Keyword(item) = ConditionKeyword(k)
  BY <1>1 DEF Keyword
<1>4. \A b \in DOMAIN Bounds : Bounds[b] \in {"atMost", "atLeast"}
  BY DEF Bounds
<1>5. \A b \in DOMAIN Sinces : Sinces[b] \in {"since", "before"}
  BY DEF Sinces
<1>6. ASSUME NEW b PROVE [k EXCEPT !.bound = b].bound = b
  BY <1>2
<1>7. CASE k.unit = "pages" /\ k.n > 0
  <2>1. ConditionKeyword(k) = [k EXCEPT !.bound = Bounds[k.bound]]
    BY <1>7 DEF ConditionKeyword
  <2> QED BY <1>2, <1>3, <1>4, <1>6, <1>7, <2>1
<1>8. CASE k.unit = "man" /\ k.n > 0
  <2>1. ConditionKeyword(k) = [unit |-> "won", n |-> k.n * 1000, bound |-> Bounds[k.bound]]
    BY <1>8 DEF ConditionKeyword
  <2>2. ConditionKeyword(k).bound = Bounds[k.bound]
    BY <2>1
  <2> QED BY <1>2, <1>3, <1>4, <1>8, <2>2
<1>9. CASE k.unit = "won" /\ k.n > 0
  <2>1. ConditionKeyword(k) = [k EXCEPT !.bound = Bounds[k.bound]]
    BY <1>9 DEF ConditionKeyword
  <2> QED BY <1>2, <1>3, <1>4, <1>6, <1>9, <2>1
<1>10. CASE k.unit = "year"
  <2>1. ConditionKeyword(k) = [k EXCEPT !.bound = Sinces[k.bound]]
    BY <1>10 DEF ConditionKeyword
  <2> QED BY <1>2, <1>3, <1>5, <1>6, <1>10, <2>1
<1>11. CASE /\ ~(k.unit = "pages" /\ k.n > 0) /\ ~(k.unit = "man" /\ k.n > 0)
            /\ ~(k.unit = "won" /\ k.n > 0) /\ k.unit # "year"
  <2>1. ConditionKeyword(k) = NoKeyword
    BY <1>11 DEF ConditionKeyword
  <2> QED BY <1>3, <2>1
<1> QED BY <1>7, <1>8, <1>9, <1>10, <1>11

\* What quotes a turn of the user has its words there.
LEMMA QuotedWords ==
  ASSUME NEW talk, IsList(talk), NEW item, Usable(item, Said(talk))
  PROVE  \E j \in DOMAIN talk : talk[j].role = "user" /\ item.evidence \subseteq talk[j].words
<1>1. Quotes(item.evidence, Said(talk)) # {}
  BY DEF Usable, Dropped
<1>2. PICK i \in DOMAIN Said(talk) : item.evidence \subseteq Said(talk)[i].words
  BY <1>1 DEF Quotes
<1>3. PICK j \in DOMAIN talk : Said(talk)[i] = talk[j]
  BY SaidTurns
<1>4. Said(talk)[i].role = "user"
  BY SaidTurns
<1> QED BY <1>2, <1>3, <1>4

\* The strongest of some candidates.
LEMMA StrongestIs ==
  ASSUME NEW cs, NEW n \in Nat, \A i \in 1 .. n : cs[i].strength \in Int, NEW S, S \subseteq 1 .. n, S # {},
         NEW j, j = CHOOSE x \in S : \A y \in S :
                      ~Before(<<-Abs(cs[y].strength), y>>, <<-Abs(cs[x].strength), x>>)
  PROVE  j \in S /\ \A i \in S : Abs(cs[i].strength) <= Abs(cs[j].strength)
<1>1. PICK f : f = [x \in S |-> <<-Abs(cs[x].strength), x>>]
  OBVIOUS
<1>2. \A x \in S : Abs(cs[x].strength) \in Int
  BY DEF Abs
<1>3. f \in [S -> [1 .. 2 -> Int]]
  BY <1>1, <1>2
<1>4. IsFiniteSet(S)
  <2>1. IsFiniteSet(1 .. n)
    <3>1. 1 \in Int /\ n \in Int
      OBVIOUS
    <3> QED BY <3>1, FS_Interval
  <2> QED BY <2>1, FS_Subset
<1>5. \E x \in S : \A y \in S : ~Before(f[y], f[x])
  <2>1. 2 \in Nat
    OBVIOUS
  <2> QED BY <1>3, <1>4, <2>1, LeastIsThere
<1>6. \E x \in S : \A y \in S : ~Before(<<-Abs(cs[y].strength), y>>, <<-Abs(cs[x].strength), x>>)
  BY <1>1, <1>5
<1>7. j \in S /\ \A y \in S : ~Before(<<-Abs(cs[y].strength), y>>, <<-Abs(cs[j].strength), j>>)
  BY <1>6, Zenon
<1>8. ASSUME NEW i \in S PROVE Abs(cs[i].strength) <= Abs(cs[j].strength)
  <2>1. ~Before(<<-Abs(cs[i].strength), i>>, <<-Abs(cs[j].strength), j>>)
    BY <1>7
  <2>2. PICK a \in Int, b \in Int : a = Abs(cs[i].strength) /\ b = Abs(cs[j].strength)
    BY <1>2, <1>7
  <2>3. a > b => Before(<<-a, i>>, <<-b, j>>)
    <3>1. ASSUME a > b PROVE Before(<<-a, i>>, <<-b, j>>)
      <4>1. PICK v, w : v = <<-a, i>> /\ w = <<-b, j>>
        OBVIOUS
      <4>2. DOMAIN v = 1 .. 2 /\ v[1] = -a /\ w[1] = -b
        BY <4>1
      <4>3. v[1] < w[1] /\ \A m \in 1 .. 1 - 1 : v[m] = w[m]
        BY <2>2, <3>1, <4>2
      <4>4. Before(v, w)
        BY <4>2, <4>3 DEF Before
      <4> QED BY <4>1, <4>4
    <3> QED BY <3>1
  <2> QED BY <2>1, <2>2, <2>3
<1> QED BY <1>7, <1>8

KeyOfItem(item) == KeyOf(Candidate(item))

\* What is merged stands for usable items: no key twice, every key, the first one's words
\* and the greatest strength.
MergedFits(m, items, said) ==
  LET usable == {i \in DOMAIN items : Usable(items[i], said)} IN
  /\ \E n \in Nat : DOMAIN m \subseteq 1 .. n
  /\ \A i \in DOMAIN m :
       /\ m[i].strength \in Int
       /\ \A j \in DOMAIN m : KeyOf(m[i]) = KeyOf(m[j]) => i = j
       /\ \E k \in usable : KeyOfItem(items[k]) = KeyOf(m[i]) /\ Strength(items[k]) = m[i].strength
       /\ \A k \in usable : KeyOfItem(items[k]) = KeyOf(m[i]) => Abs(Strength(items[k])) <= Abs(m[i].strength)
       /\ \E k \in usable : /\ m[i].type = items[k].type /\ m[i].keyword = Keyword(items[k])
                           /\ m[i].applies = AppliesTo(items[k])
  /\ \A k \in usable : \E i \in DOMAIN m : KeyOfItem(items[k]) = KeyOf(m[i])

LEMMA CandidateIs ==
  ASSUME NEW item, NEW c, c = Candidate(item)
  PROVE  /\ c.type = item.type /\ c.strength = Strength(item) /\ c.keyword = Keyword(item)
         /\ c.applies = AppliesTo(item)
         /\ \A s : LET d == [c EXCEPT !.strength = s] IN
              d.strength = s /\ d.type = c.type /\ d.keyword = c.keyword /\ d.applies = c.applies
BY DEF Candidate

LEMMA MergedIs ==
  ASSUME NEW items, IsList(items), \A i \in DOMAIN items : ItemReads(items[i]), NEW said
  PROVE  MergedFits(Merged(items, said), items, said)
<1> DEFINE usable == {i \in DOMAIN items : Usable(items[i], said)}
<1> DEFINE u == UsableOnes(items, said)
<1>2. PICK n \in Nat :
        /\ DOMAIN u = 1 .. n
        /\ \A q \in 1 .. n : \E k \in usable : u[q] = items[k]
        /\ \A k \in usable : \E q \in 1 .. n : u[q] = items[k]
  <2>1. PICK T : T = ToSet(items)
    OBVIOUS
  <2>2. items \in Seq(T) /\ DOMAIN items = 1 .. Len(items)
    BY <2>1 DEF IsList
  <2>3. PICK S : S = {item \in ToSet(items) : Usable(item, said)}
    OBVIOUS
  <2>4. u = Only(items, S)
    BY <2>3 DEF UsableOnes
  <2>5. OnlyOf(u, items, S, T)
    BY <2>2, <2>4, OnlyIs
  <2>6. DOMAIN u = 1 .. Len(u) /\ Len(u) \in Nat
    BY <2>5 DEF OnlyOf
  <2>7. ASSUME NEW q \in 1 .. Len(u) PROVE \E k \in usable : u[q] = items[k]
    <3>1. u[q] \in S /\ \E k \in 1 .. Len(items) : u[q] = items[k]
      BY <2>5 DEF OnlyOf
    <3> QED BY <2>2, <2>3, <3>1
  <2>8. ASSUME NEW k \in usable PROVE \E q \in 1 .. Len(u) : u[q] = items[k]
    <3>1. items[k] \in S /\ k \in 1 .. Len(items)
      BY <2>1, <2>2, <2>3
    <3> QED BY <2>5, <3>1 DEF OnlyOf
  <2> QED BY <2>6, <2>7, <2>8
<1> DEFINE cs == [i \in DOMAIN u |-> Candidate(u[i])]
           same(i) == {j \in DOMAIN cs : KeyOf(cs[j]) = KeyOf(cs[i])}
           firsts == {i \in DOMAIN cs : \A j \in same(i) : i <= j}
           greatest(i) == CHOOSE x \in same(i) : \A y \in same(i) :
                            ~Before(<<-Abs(cs[y].strength), y>>, <<-Abs(cs[x].strength), x>>)
<1>3. Merged(items, said) = [i \in firsts |-> [cs[i] EXCEPT !.strength = cs[greatest(i)].strength]]
  BY Zenon DEF Merged, Least
<1> HIDE DEF u
<1>4. PICK m : m = Merged(items, said)
  OBVIOUS
<1>5. DOMAIN cs = 1 .. n /\ \A q \in 1 .. n : cs[q] = Candidate(u[q])
  BY <1>2
<1>6. \A q \in 1 .. n : cs[q].strength \in Int
  <2> SUFFICES ASSUME NEW q \in 1 .. n PROVE cs[q].strength \in Int
    OBVIOUS
  <2>1. PICK k \in usable : u[q] = items[k]
    BY <1>2
  <2>2. items[k].strength \in Int
    BY DEF ItemReads
  <2>3. Strength(u[q]) \in Int
    BY <2>1, <2>2, StrengthIs
  <2>4. cs[q].strength = Strength(u[q])
    BY <1>5, CandidateIs
  <2> QED BY <2>3, <2>4
<1> HIDE DEF cs
<1>7. ASSUME NEW i \in firsts
      PROVE  /\ i \in 1 .. n /\ greatest(i) \in same(i)
             /\ \A j \in same(i) : Abs(cs[j].strength) <= Abs(cs[greatest(i)].strength)
  <2>1. i \in 1 .. n /\ i \in same(i) /\ same(i) \subseteq 1 .. n
    BY <1>5
  <2>2. PICK S : S = same(i)
    OBVIOUS
  <2>3. PICK g : g = CHOOSE x \in S : \A y \in S :
                       ~Before(<<-Abs(cs[y].strength), y>>, <<-Abs(cs[x].strength), x>>)
    OBVIOUS
  <2>6. S \subseteq 1 .. n /\ S # {}
    BY <2>1, <2>2
  <2>4. g \in S /\ \A j \in S : Abs(cs[j].strength) <= Abs(cs[g].strength)
    <3> HIDE DEF same
    <3> QED BY <1>6, <2>3, <2>6, StrongestIs
  <2>5. g = greatest(i)
    BY <2>2, <2>3, Zenon
  <2> QED BY <2>1, <2>2, <2>4, <2>5
<1>8. DOMAIN m = firsts /\ \A i \in firsts : m[i] = [cs[i] EXCEPT !.strength = cs[greatest(i)].strength]
  <2> HIDE DEF firsts, greatest
  <2> QED BY <1>3, <1>4
<1>9. ASSUME NEW i \in firsts
      PROVE  /\ m[i].strength = cs[greatest(i)].strength /\ KeyOf(m[i]) = KeyOf(cs[i])
             /\ m[i].type = cs[i].type /\ m[i].keyword = cs[i].keyword /\ m[i].applies = cs[i].applies
  <2>1. PICK s : s = cs[greatest(i)].strength
    OBVIOUS
  <2>2. cs[i] = Candidate(u[i])
    BY <1>5, <1>7
  <2>3. m[i] = [cs[i] EXCEPT !.strength = s]
    BY <1>8, <2>1
  <2>4. m[i].strength = s /\ m[i].type = cs[i].type /\ m[i].keyword = cs[i].keyword /\ m[i].applies = cs[i].applies
    BY <2>2, <2>3, CandidateIs
  <2>5. KeyOf(m[i]) = KeyOf(cs[i])
    BY <2>4 DEF KeyOf
  <2> QED BY <2>1, <2>4, <2>5
<1>10. ASSUME NEW q \in 1 .. n, NEW k, u[q] = items[k]
       PROVE  /\ KeyOfItem(items[k]) = KeyOf(cs[q]) /\ Strength(items[k]) = cs[q].strength
              /\ items[k].type = cs[q].type /\ Keyword(items[k]) = cs[q].keyword
              /\ AppliesTo(items[k]) = cs[q].applies
  <2>1. cs[q] = Candidate(items[k])
    BY <1>5, <1>10
  <2> QED BY <2>1, CandidateIs DEF KeyOfItem
<1>11. \E l \in Nat : DOMAIN m \subseteq 1 .. l
  BY <1>5, <1>8
<1>12. ASSUME NEW i \in DOMAIN m
       PROVE  /\ m[i].strength \in Int
              /\ \A j \in DOMAIN m : KeyOf(m[i]) = KeyOf(m[j]) => i = j
              /\ \E k \in usable : KeyOfItem(items[k]) = KeyOf(m[i]) /\ Strength(items[k]) = m[i].strength
              /\ \A k \in usable : KeyOfItem(items[k]) = KeyOf(m[i]) => Abs(Strength(items[k])) <= Abs(m[i].strength)
              /\ \E k \in usable : /\ m[i].type = items[k].type /\ m[i].keyword = Keyword(items[k])
                                  /\ m[i].applies = AppliesTo(items[k])
  <2>1. i \in firsts /\ i \in 1 .. n
    BY <1>7, <1>8
  <2>2. PICK g : g = greatest(i)
    OBVIOUS
  <2>3. g \in same(i) /\ g \in 1 .. n /\ KeyOf(cs[g]) = KeyOf(cs[i])
    BY <1>5, <1>7, <2>1, <2>2
  <2>4. m[i].strength = cs[g].strength /\ KeyOf(m[i]) = KeyOf(cs[i])
    BY <1>9, <2>1, <2>2
  <2>5. m[i].strength \in Int
    BY <1>6, <2>3, <2>4
  <2>6. ASSUME NEW j \in DOMAIN m, KeyOf(m[i]) = KeyOf(m[j]) PROVE i = j
    <3>1. j \in firsts /\ j \in 1 .. n
      BY <1>7, <1>8
    <3>2. KeyOf(cs[i]) = KeyOf(cs[j])
      BY <1>9, <2>1, <2>6, <3>1
    <3>3. j \in same(i) /\ i \in same(j)
      BY <1>5, <2>1, <3>1, <3>2
    <3>4. i <= j /\ j <= i
      BY <2>1, <3>1, <3>3
    <3> QED BY <2>1, <3>1, <3>4
  <2>7. \E k \in usable : KeyOfItem(items[k]) = KeyOf(m[i]) /\ Strength(items[k]) = m[i].strength
    <3>1. PICK k \in usable : u[g] = items[k]
      BY <1>2, <2>3
    <3> QED BY <1>10, <2>3, <2>4, <3>1
  <2>8. ASSUME NEW k \in usable, KeyOfItem(items[k]) = KeyOf(m[i])
        PROVE  Abs(Strength(items[k])) <= Abs(m[i].strength)
    <3>1. PICK q \in 1 .. n : u[q] = items[k]
      BY <1>2
    <3>2. KeyOf(cs[q]) = KeyOf(cs[i]) /\ Strength(items[k]) = cs[q].strength
      BY <1>10, <2>4, <2>8, <3>1
    <3>3. q \in same(i)
      BY <1>5, <3>2
    <3>4. Abs(cs[q].strength) <= Abs(cs[g].strength)
      BY <1>7, <2>1, <2>2, <3>3
    <3> QED BY <2>4, <3>2, <3>4
  <2>9. \E k \in usable : /\ m[i].type = items[k].type /\ m[i].keyword = Keyword(items[k])
                         /\ m[i].applies = AppliesTo(items[k])
    <3>1. PICK k \in usable : u[i] = items[k]
      BY <1>2, <2>1
    <3>2. m[i].type = cs[i].type /\ m[i].keyword = cs[i].keyword /\ m[i].applies = cs[i].applies
      BY <1>9, <2>1
    <3>3. /\ items[k].type = cs[i].type /\ Keyword(items[k]) = cs[i].keyword
          /\ AppliesTo(items[k]) = cs[i].applies
      BY <1>10, <2>1, <3>1
    <3> QED BY <3>2, <3>3
  <2> QED BY <2>5, <2>6, <2>7, <2>8, <2>9
<1>13. ASSUME NEW k \in usable PROVE \E i \in DOMAIN m : KeyOfItem(items[k]) = KeyOf(m[i])
  <2>1. PICK q \in 1 .. n : u[q] = items[k]
    BY <1>2
  <2>2. q \in same(q) /\ same(q) \subseteq Nat
    BY <1>5
  <2>3. PICK f \in same(q) : \A y \in same(q) : f <= y
    <3>1. PICK S : S = same(q)
      OBVIOUS
    <3>2. \E x \in S : \A y \in S : x <= y
      BY <2>2, <3>1, LeastNumber
    <3> QED BY <3>1, <3>2
  <2>4. same(f) = same(q) /\ KeyOf(cs[f]) = KeyOf(cs[q])
    OBVIOUS
  <2>5. f \in firsts
    BY <2>3, <2>4
  <2>6. KeyOf(m[f]) = KeyOf(cs[q])
    BY <1>9, <2>4, <2>5
  <2>7. KeyOfItem(items[k]) = KeyOf(cs[q])
    BY <1>10, <2>1
  <2> QED BY <1>8, <2>5, <2>6, <2>7
<1>14. MergedFits(m, items, said)
  BY <1>11, <1>12, <1>13 DEF MergedFits
<1> QED BY <1>4, <1>14

\* A list in the order of strength holds the merged candidates of its length that are strongest.
ByStrength(m) == [i \in DOMAIN m |-> <<-Abs(m[i].strength), i>>]

StrongestFirst(order, m) ==
  /\ DOMAIN order = 1 .. Len(order) /\ Len(order) \in Nat /\ Len(order) <= MaxExtractions
  /\ \A p \in DOMAIN order : order[p] \in DOMAIN m
  /\ \A p, q \in DOMAIN order : p < q =>
       order[p] # order[q] /\ Abs(m[order[p]].strength) >= Abs(m[order[q]].strength)
  /\ \A i \in DOMAIN m :
       \/ \E p \in DOMAIN order : order[p] = i
       \/ /\ Len(order) = MaxExtractions
          /\ \A p \in DOMAIN order : Abs(m[order[p]].strength) >= Abs(m[i].strength)

LEMMA EarlierIsStronger ==
  ASSUME NEW a \in Int, NEW b \in Int, NEW i \in Nat, NEW j \in Nat, NEW v, NEW w,
         v = <<-a, i>>, w = <<-b, j>>, Before(v, w)
  PROVE  (a >= b /\ i # j) \/ a > b
<1>1. DOMAIN v = 1 .. 2 /\ v[1] = -a /\ w[1] = -b /\ v[2] = i /\ w[2] = j
  OBVIOUS
<1>2. PICK k \in 1 .. 2 : v[k] < w[k] /\ \A l \in 1 .. k - 1 : v[l] = w[l]
  BY <1>1 DEF Before
<1>3. CASE k = 1
  BY <1>1, <1>2, <1>3
<1>4. CASE k = 2
  <2>1. v[1] = w[1]
    BY <1>2, <1>4
  <2> QED BY <1>1, <1>2, <1>4, <2>1
<1> QED BY <1>2, <1>3, <1>4

FirstOnes(order, row, few) ==
  /\ DOMAIN order = 1 .. Len(order) /\ Len(order) \in Nat /\ Len(order) <= few
  /\ Len(order) = Len(row) \/ Len(order) = few
  /\ \A p \in 1 .. Len(order) : p \in 1 .. Len(row) /\ order[p] = row[p]

LEMMA FirstOnesAre ==
  ASSUME NEW S, NEW row \in Seq(S), NEW few \in Nat, NEW order, order = Take(row, few)
  PROVE  FirstOnes(order, row, few)
<1>1. PICK l \in Nat : l = Len(row)
  OBVIOUS
<1>2. PICK k \in Nat : k = IF few <= l THEN few ELSE l
  BY <1>1
<1>3. order = SubSeq(row, 1, k) /\ order \in Seq(S) /\ Len(order) = k
  <2>1. /\ order = SubSeq(row, 1, IF few <= Len(row) THEN few ELSE Len(row))
        /\ order \in Seq(S)
        /\ Len(order) = IF few <= Len(row) THEN few ELSE Len(row)
    BY TakeIs
  <2> QED BY <1>1, <1>2, <2>1
<1>4. k <= few /\ k <= l /\ (k = l \/ k = few)
  BY <1>1, <1>2
<1>5. DOMAIN order = 1 .. k
  BY <1>3
<1>6. \A p \in 1 .. k : p \in 1 .. l /\ SubSeq(row, 1, k)[p] = row[p]
  BY <1>1, <1>4, SubSeqProperties
<1> QED BY <1>1, <1>3, <1>4, <1>5, <1>6 DEF FirstOnes

LEMMA OrderOfStrength ==
  ASSUME NEW m, NEW n \in Nat, DOMAIN m \subseteq 1 .. n, \A i \in DOMAIN m : m[i].strength \in Int,
         NEW order, order = Take(ByKey({<<<<-Abs(m[i].strength), i>>, i>> : i \in DOMAIN m}), MaxExtractions)
  PROVE  StrongestFirst(order, m)
<1>1. PICK S : S = DOMAIN m
  OBVIOUS
<1>2. IsFiniteSet(S) /\ S \subseteq Nat
  <2>1. 1 \in Int /\ n \in Int
    OBVIOUS
  <2>2. IsFiniteSet(1 .. n)
    BY <2>1, FS_Interval
  <2> QED BY <1>1, <2>2, FS_Subset
<1>3. PICK f : f = ByStrength(m)
  OBVIOUS
<1>4. \A i \in S : f[i] = <<-Abs(m[i].strength), i>> /\ Abs(m[i].strength) \in Int
  BY <1>1, <1>3 DEF ByStrength, Abs
<1>5. f \in [S -> [1 .. 2 -> Int]]
  BY <1>1, <1>2, <1>3, <1>4 DEF ByStrength
<1>6. \A x, y \in S : f[x] = f[y] => x = y
  <2> SUFFICES ASSUME NEW x \in S, NEW y \in S, f[x] = f[y] PROVE x = y
    OBVIOUS
  <2>1. f[x][2] = x /\ f[y][2] = y
    BY <1>4
  <2> QED BY <2>1
<1>7. PICK K : K = WithKeys(f, S)
  OBVIOUS
<1>8. K = {<<<<-Abs(m[i].strength), i>>, i>> : i \in DOMAIN m}
  BY <1>1, <1>4, <1>7 DEF WithKeys
<1>9. PICK row : row = ByKey(K)
  OBVIOUS
<1>10. order = Take(row, MaxExtractions) /\ MaxExtractions \in Nat
  BY <1>8, <1>9, ExtractionAssumption
<1>11. row \in Seq(S) /\ Len(row) = Cardinality(S) /\ \A x \in S : x \in InList(row)
  <2>1. 2 \in Nat
    OBVIOUS
  <2> QED BY <1>2, <1>5, <1>6, <1>7, <1>9, <2>1, SortedList
<1>12. IsFiniteSet(K) /\ Keyed(K, 2) /\ KeysDiffer(K) /\ Cardinality(K) = Cardinality(S)
  <2>1. PICK g : g = [i \in S |-> <<f[i], i>>]
    OBVIOUS
  <2>2. g \in Bijection(S, K)
    <3>1. g \in [S -> K] /\ \A i \in S : g[i] = <<f[i], i>> /\ g[i][2] = i
      BY <1>7, <2>1 DEF WithKeys
    <3>2. \A i, j \in S : g[i] = g[j] => i = j
      BY <3>1
    <3>3. \A x \in K : \E i \in S : g[i] = x
      BY <1>7, <3>1 DEF WithKeys
    <3> QED BY <3>1, <3>2, <3>3 DEF Bijection, Surjection, Injection, IsInjective
  <2>3. IsFiniteSet(K) /\ Cardinality(K) = Cardinality(S)
    <3>1. \E h : h \in Bijection(S, K)
      BY <2>2
    <3>2. ExistsBijection(S, K)
      BY <3>1 DEF ExistsBijection
    <3> QED BY <1>2, <3>2, FS_Bijection
  <2>4. Keyed(K, 2)
    BY <1>5, <1>7 DEF Keyed, WithKeys
  <2>5. KeysDiffer(K)
    BY <1>6, <1>7 DEF KeysDiffer, WithKeys
  <2> QED BY <2>3, <2>4, <2>5
<1>13. ASSUME NEW p \in 1 .. Len(row), NEW q \in 1 .. Len(row), p < q
       PROVE  /\ row[p] \in S /\ row[q] \in S /\ row[p] # row[q]
              /\ Abs(m[row[p]].strength) >= Abs(m[row[q]].strength)
  <2>1. row[p] \in S /\ row[q] \in S
    BY <1>11
  <2>2. \E x, y \in K : row[p] = x[2] /\ row[q] = y[2] /\ Before(x[1], y[1])
    <3>1. p \in 1 .. Cardinality(K) /\ q \in 1 .. Cardinality(K) /\ 2 \in Nat
      BY <1>11, <1>12
    <3> QED BY <1>9, <1>12, <1>13, <3>1, OrderGrows
  <2>3. PICK x \in K, y \in K : row[p] = x[2] /\ row[q] = y[2] /\ Before(x[1], y[1])
    BY <2>2
  <2>4. x[1] = f[row[p]] /\ y[1] = f[row[q]]
    BY <1>7, <2>3 DEF WithKeys
  <2>5. PICK a \in Int, b \in Int : a = Abs(m[row[p]].strength) /\ b = Abs(m[row[q]].strength)
    BY <1>4, <2>1
  <2>6. f[row[p]] = <<-a, row[p]>> /\ f[row[q]] = <<-b, row[q]>>
    BY <1>4, <2>1, <2>5
  <2>7. (a >= b /\ row[p] # row[q]) \/ a > b
    BY <1>2, <2>1, <2>3, <2>4, <2>6, EarlierIsStronger
  <2>8. row[p] # row[q]
    BY <2>5, <2>7
  <2> QED BY <2>1, <2>5, <2>7, <2>8
<1>14. FirstOnes(order, row, MaxExtractions)
  BY <1>10, <1>11, FirstOnesAre
<1>15. /\ DOMAIN order = 1 .. Len(order) /\ Len(order) \in Nat /\ Len(order) <= MaxExtractions
       /\ Len(order) = Len(row) \/ Len(order) = MaxExtractions
       /\ \A p \in 1 .. Len(order) : p \in 1 .. Len(row) /\ order[p] = row[p]
  BY <1>14 DEF FirstOnes
<1>16. \A p \in DOMAIN order : order[p] \in DOMAIN m
  BY <1>1, <1>11, <1>15
<1>17. \A p, q \in DOMAIN order : p < q =>
         order[p] # order[q] /\ Abs(m[order[p]].strength) >= Abs(m[order[q]].strength)
  BY <1>13, <1>15
<1>18. ASSUME NEW i \in DOMAIN m
       PROVE  \/ \E p \in DOMAIN order : order[p] = i
              \/ /\ Len(order) = MaxExtractions
                 /\ \A p \in DOMAIN order : Abs(m[order[p]].strength) >= Abs(m[i].strength)
  <2>1. PICK q \in 1 .. Len(row) : row[q] = i
    BY <1>1, <1>11 DEF InList
  <2>2. CASE q <= Len(order)
    <3>1. Len(row) \in Nat
      BY <1>11
    <3>2. q \in 1 .. Len(order)
      BY <1>15, <2>1, <2>2, <3>1
    <3> QED BY <1>15, <2>1, <3>2
  <2>3. CASE ~(q <= Len(order))
    <3>1. Len(order) = MaxExtractions
      BY <1>15, <2>1, <2>3
    <3>2. ASSUME NEW p \in DOMAIN order PROVE Abs(m[order[p]].strength) >= Abs(m[i].strength)
      <4>1. p \in 1 .. Len(row) /\ order[p] = row[p] /\ p < q
        BY <1>15, <2>1, <2>3
      <4> QED BY <1>13, <2>1, <4>1
    <3> QED BY <3>1, <3>2
  <2> QED BY <2>2, <2>3
<1> QED BY <1>15, <1>16, <1>17, <1>18 DEF StrongestFirst

LEMMA ScreenHolds ==
  ASSUME NEW items, IsList(items), \A i \in DOMAIN items : ItemReads(items[i]),
         NEW talk, IsList(talk)
  PROVE  ScreenFits(Screen(items, Said(talk)), items, talk)
<1>1. PICK said : said = Said(talk)
  OBVIOUS
<1>2. PICK m : m = Merged(items, said)
  OBVIOUS
<1> DEFINE usable == {i \in DOMAIN items : Usable(items[i], said)}
           key(i) == KeyOf(Candidate(items[i]))
<1>3. /\ \E n \in Nat : DOMAIN m \subseteq 1 .. n
      /\ \A i \in DOMAIN m :
           /\ m[i].strength \in Int
           /\ \A j \in DOMAIN m : KeyOf(m[i]) = KeyOf(m[j]) => i = j
           /\ \E k \in usable : key(k) = KeyOf(m[i]) /\ Strength(items[k]) = m[i].strength
           /\ \A k \in usable : key(k) = KeyOf(m[i]) => Abs(Strength(items[k])) <= Abs(m[i].strength)
           /\ \E k \in usable : /\ m[i].type = items[k].type /\ m[i].keyword = Keyword(items[k])
                               /\ m[i].applies = AppliesTo(items[k])
      /\ \A k \in usable : \E i \in DOMAIN m : key(k) = KeyOf(m[i])
  <2>1. MergedFits(m, items, said)
    BY <1>2, MergedIs
  <2> QED BY <2>1 DEF MergedFits, KeyOfItem
<1>4. PICK order : order = Take(ByKey({<<<<-Abs(m[i].strength), i>>, i>> : i \in DOMAIN m}), MaxExtractions)
  OBVIOUS
<1>5. PICK found : found = Screen(items, said)
  OBVIOUS
<1>6. found = [p \in 1 .. Len(order) |-> m[order[p]]]
  BY <1>2, <1>4, <1>5, Zenon DEF Screen, Ordered
<1>7. StrongestFirst(order, m)
  BY <1>3, <1>4, OrderOfStrength
<1>8. /\ DOMAIN order = 1 .. Len(order) /\ Len(order) \in Nat /\ Len(order) <= MaxExtractions
      /\ \A p \in DOMAIN order : order[p] \in DOMAIN m
      /\ \A p, q \in DOMAIN order : p < q =>
           order[p] # order[q] /\ Abs(m[order[p]].strength) >= Abs(m[order[q]].strength)
      /\ \A i \in DOMAIN m :
           \/ \E p \in DOMAIN order : order[p] = i
           \/ /\ Len(order) = MaxExtractions
              /\ \A p \in DOMAIN order : Abs(m[order[p]].strength) >= Abs(m[i].strength)
  BY <1>7 DEF StrongestFirst
<1>9. /\ Len(found) = Len(order) /\ DOMAIN found = DOMAIN order
      /\ \A p \in DOMAIN found : found[p] = m[order[p]] /\ order[p] \in DOMAIN m
  BY <1>6, <1>8
<1>10. \A p, q \in DOMAIN found : p < q => /\ KeyOf(found[p]) # KeyOf(found[q])
                                           /\ Abs(found[p].strength) >= Abs(found[q].strength)
  BY <1>3, <1>8, <1>9
<1>11. ASSUME NEW p \in DOMAIN found
       PROVE  LET mine == {i \in usable : key(i) = KeyOf(found[p])} IN
              /\ \E i \in mine : Strength(items[i]) = found[p].strength
              /\ \A i \in mine : Abs(Strength(items[i])) <= Abs(found[p].strength)
              /\ \E i \in mine : \E turn \in {talk[j] : j \in DOMAIN talk} :
                   turn.role = "user" /\ items[i].evidence \subseteq turn.words
              /\ Len(found[p].applies) <= MaxNames
              /\ found[p].type = "condition" => found[p].keyword.bound \in {"atMost", "atLeast", "since", "before"}
  <2>1. PICK x \in DOMAIN m : found[p] = m[x]
    BY <1>9
  <2>2. PICK k \in usable : key(k) = KeyOf(m[x]) /\ Strength(items[k]) = m[x].strength
    BY <1>3
  <2>3. PICK w \in usable : /\ m[x].type = items[w].type /\ m[x].keyword = Keyword(items[w])
                            /\ m[x].applies = AppliesTo(items[w])
    BY <1>3
  <2>4. \E i \in {j \in usable : key(j) = KeyOf(found[p])} : Strength(items[i]) = found[p].strength
    BY <2>1, <2>2
  <2>5. \A i \in {j \in usable : key(j) = KeyOf(found[p])} : Abs(Strength(items[i])) <= Abs(found[p].strength)
    BY <1>3, <2>1
  <2>6. \E i \in {j \in usable : key(j) = KeyOf(found[p])} : \E turn \in {talk[j] : j \in DOMAIN talk} :
          turn.role = "user" /\ items[i].evidence \subseteq turn.words
    <3>1. Usable(items[k], Said(talk))
      BY <1>1
    <3>2. PICK j \in DOMAIN talk : talk[j].role = "user" /\ items[k].evidence \subseteq talk[j].words
      BY <3>1, QuotedWords
    <3> QED BY <2>1, <2>2, <3>2
  <2>7. Len(found[p].applies) <= MaxNames
    <3>1. ItemReads(items[w]) /\ IsList(items[w].names)
      BY DEF ItemReads
    <3>2. Len(AppliesTo(items[w])) <= MaxNames
      <4>1. Len(<<>>) <= MaxNames
        BY ExtractionAssumption
      <4> QED BY <3>1, <4>1, KnownFew DEF AppliesTo
    <3> QED BY <2>1, <2>3, <3>2
  <2>8. found[p].type = "condition" => found[p].keyword.bound \in {"atMost", "atLeast", "since", "before"}
    <3>1. ItemReads(items[w]) /\ Keyword(items[w]) # NoKeyword
      BY DEF Usable
    <3> QED BY <2>1, <2>3, <3>1, ConditionBound
  <2> QED BY <2>4, <2>5, <2>6, <2>7, <2>8
<1>12. ASSUME NEW i \in usable
       PROVE  \/ \E p \in DOMAIN found : KeyOf(found[p]) = key(i)
              \/ /\ Len(found) = MaxExtractions
                 /\ \A p \in DOMAIN found : Abs(found[p].strength) >= Abs(Strength(items[i]))
  <2>1. PICK x \in DOMAIN m : key(i) = KeyOf(m[x])
    BY <1>3
  <2>2. Abs(Strength(items[i])) <= Abs(m[x].strength)
    BY <1>3, <2>1
  <2>3. CASE \E p \in DOMAIN order : order[p] = x
    BY <1>9, <2>1, <2>3
  <2>4. CASE /\ Len(order) = MaxExtractions
             /\ \A p \in DOMAIN order : Abs(m[order[p]].strength) >= Abs(m[x].strength)
    <3>1. ASSUME NEW p \in DOMAIN found PROVE Abs(found[p].strength) >= Abs(Strength(items[i]))
      <4>1. Abs(found[p].strength) >= Abs(m[x].strength)
        BY <1>9, <2>4
      <4>2. Strength(items[i]) \in Int /\ m[x].strength \in Int /\ found[p].strength \in Int
        <5>1. items[i].strength \in Int
          BY DEF ItemReads
        <5>2. Strength(items[i]) \in Int
          BY <5>1, StrengthIs
        <5>3. m[x].strength \in Int /\ found[p].strength \in Int
          BY <1>3, <1>9
        <5> QED BY <5>2, <5>3
      <4>3. PICK a \in Int, b \in Int, d \in Int :
              a = Abs(Strength(items[i])) /\ b = Abs(m[x].strength) /\ d = Abs(found[p].strength)
        BY <4>2 DEF Abs
      <4> QED BY <2>2, <4>1, <4>3
    <3> QED BY <1>9, <2>4, <3>1
  <2> QED BY <1>8, <2>3, <2>4
<1>13. Len(found) <= MaxExtractions
  BY <1>8, <1>9
<1>14. ScreenFits(found, items, talk)
  <2> HIDE DEF key
  <2> QED BY <1>1, <1>10, <1>11, <1>12, <1>13 DEF ScreenFits, key
<1> QED BY <1>1, <1>5, <1>14

\* The preferences of an answer are those that were said, at most as many as there may be,
\* the strongest first; one that was said is missing only behind as many that are as strong;
\* and an answer without any comes from a model, never from a failure
\* (extraction/service.py:87-90; extraction/rules.py:258-291).
THEOREM PreferencesWereSaid == GatewaySpec => []ExtractionsFit
<1>1. FoundInv => ExtractionsFit
  <2> SUFFICES ASSUME FoundInv, NEW c \in Callers, NEW r, r = call[c], r.kind = "extract", r.at = "done"
               PROVE  /\ r.code # 200 => r.found = <<>>
                      /\ r.code = 200 /\ r.tries # <<>> =>
                           r.tries[Len(r.tries)] = "good" /\ ScreenFits(r.found, r.heard, r.talk)
    BY DEF ExtractionsFit
  <2>1. FoundFits(r, Talks[c], Answers[c])
    BY DEF FoundInv
  <2>2. r.code # 200 => r.found = <<>>
    BY <2>1 DEF FoundFits
  <2>3. ASSUME r.code = 200, r.tries # <<>>
        PROVE  r.tries[Len(r.tries)] = "good" /\ ScreenFits(r.found, r.heard, r.talk)
    <3>1. SaidBy(r, Talks[c], Answers[c])
      BY <2>1, <2>3 DEF FoundFits
    <3>2. /\ IsList(r.talk) /\ IsList(r.heard) /\ \A i \in DOMAIN r.heard : ItemReads(r.heard[i])
      BY <3>1, WordsAssumption DEF SaidBy
    <3>3. ScreenFits(Screen(r.heard, Said(r.talk)), r.heard, r.talk)
      BY <3>2, ScreenHolds
    <3> QED BY <3>1, <3>3 DEF SaidBy
  <2> QED BY <2>2, <2>3
<1> QED BY <1>1, GatewayFinds, PTL

=============================================================================
