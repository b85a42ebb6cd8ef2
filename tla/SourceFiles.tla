---- MODULE SourceFiles ----
(***************************************************************************)
(* What lightning makes of a data source: mydump's loader, which sorts the *)
(* files of a dump into databases and tables and applies the table routes, *)
(* and the splitting of a data file into regions of rows.                  *)
(***************************************************************************)
EXTENDS Integers, Sequences, FiniteSets, SequencesExt, Functions

\* A file is [path, kind, db, name, key, size, rows]: kind "db", "table", "view" are
\* schema files, "csv", "sql" and "parquet" data; rows are the lengths of its lines.
DataKinds == {"csv", "sql", "parquet"}
\* "no file": a database or table that only routes or data files make
NoFile == 0

----------------------------------------------------------------------------
(* The loader.                                                             *)

\* shouldSkip: the filter works on the names of the source
ShouldSkip(f, filter) == <<f.db, f.name>> \notin filter
\* listFiles: in the order of the walk
ListFiles(files, filter) == SelectSeq(files, LAMBDA f : ~ShouldSkip(f, filter))
OfKind(files, kinds) == SelectSeq(files, LAMBDA f : f.kind \in kinds)

\* a map with a default, as Go's
Lookup(known, db) == IF db \in DOMAIN known THEN known[db] ELSE [count |-> 0, path |-> NoFile]
Put(known, db, info) == [d \in DOMAIN known \cup {db} |-> IF d = db THEN info ELSE known[d]]

\* knownDBNames: the view schemas are counted in a copy that is thrown away, the data
\* files not at all
KnownDBs(files) ==
  LET schemas == FoldLeft(LAMBDA k, f : Put(k, f.db, [count |-> 1, path |-> f.path]), <<>>, OfKind(files, {"db"})) IN
  FoldLeft(LAMBDA k, f : Put(k, f.db, [Lookup(k, f.db) EXCEPT !.count = @ + 1]), schemas, OfKind(files, {"table"}))

\* one file in run: its database is counted down, the one it goes to up, and made when
\* it is new
RouteOne(s, f, route) ==
  LET to == route[<<f.db, f.name>>]
      old == Lookup(s.known, f.db)
      new == Lookup(s.known, to[1])
      isNew == to[1] \notin DOMAIN s.known IN
  IF to[1] = f.db THEN [s EXCEPT !.files = Append(@, [f EXCEPT !.name = to[2]])]
  ELSE [known |-> Put(Put(s.known, f.db, [old EXCEPT !.count = @ - 1]), to[1],
                      [count |-> new.count + 1, path |-> IF isNew THEN old.path ELSE new.path]),
        dbs |-> IF isNew THEN Append(s.dbs, [db |-> to[1], path |-> old.path]) ELSE s.dbs,
        files |-> Append(s.files, [f EXCEPT !.db = to[1], !.name = to[2]])]
\* route: table schemas, views, data files; then the databases nothing is left in go
Route(files, route) ==
  LET start == [known |-> KnownDBs(files), files |-> <<>>,
                dbs |-> [i \in 1 .. Len(OfKind(files, {"db"})) |-> [db |-> OfKind(files, {"db"})[i].db,
                                                                   path |-> OfKind(files, {"db"})[i].path]]]
      order == OfKind(files, {"table"}) \o OfKind(files, {"view"}) \o OfKind(files, DataKinds)
      end == IF route = <<>> THEN [start EXCEPT !.files = order]
             ELSE FoldLeft(LAMBDA s, f : RouteOne(s, f, route), start, order) IN
  [end EXCEPT !.dbs = IF route = <<>> THEN @ ELSE SelectSeq(@, LAMBDA d : Lookup(end.known, d.db).count > 0)]

\* insertDB, insertTable and insertView: the first of a name counts
InsertDB(dbs, db, path) ==
  IF \E i \in DOMAIN dbs : dbs[i].db = db THEN dbs
  ELSE Append(dbs, [db |-> db, path |-> path, tables |-> <<>>, views |-> <<>>])
HasTable(dbs, f) == \E i \in DOMAIN dbs : dbs[i].db = f.db /\ \E j \in DOMAIN dbs[i].tables : dbs[i].tables[j].name = f.name
\* the table of f changed by Op
WithTable(dbs, f, Op(_)) ==
  [i \in DOMAIN dbs |-> IF dbs[i].db # f.db THEN dbs[i]
     ELSE [dbs[i] EXCEPT !.tables = [j \in DOMAIN @ |-> IF @[j].name = f.name THEN Op(@[j]) ELSE @[j]]]]
InsertTable(dbs, f, schema) ==
  LET with == InsertDB(dbs, f.db, NoFile) IN
  IF HasTable(dbs, f) THEN with
  ELSE [i \in DOMAIN with |-> IF with[i].db # f.db THEN with[i]
          ELSE [with[i] EXCEPT !.tables = Append(@, [name |-> f.name, schema |-> schema, data |-> <<>>, size |-> 0])]]
InsertView(dbs, f) ==
  [i \in DOMAIN dbs |-> IF dbs[i].db = f.db /\ HasTable(dbs, f) THEN [dbs[i] EXCEPT !.views = Append(@, f.name)] ELSE dbs[i]]
\* a data file makes its table when no schema file did
AddData(dbs, f) ==
  WithTable(InsertTable(dbs, f, NoFile), f, LAMBDA t : [t EXCEPT !.data = Append(@, f), !.size = @ + f.size])

\* sort.SliceStable
StableSort(s, Less(_, _)) ==
  LET Rank(i) == Cardinality({j \in DOMAIN s : Less(s[j], s[i]) \/ (~Less(s[i], s[j]) /\ j < i)}) + 1 IN
  [n \in DOMAIN s |-> s[CHOOSE i \in DOMAIN s : Rank(i) = n]]
\* small tables first, the files of a table by their sort key
SortTables(tables) ==
  StableSort([j \in DOMAIN tables |-> [tables[j] EXCEPT !.data = StableSort(@, LAMBDA a, b : a.key < b.key)]],
             LAMBDA a, b : a.size < b.size)

Duplicated(s, Key(_)) == \E i, j \in DOMAIN s : i < j /\ Key(s[i]) = Key(s[j])
Refused == [ok |-> FALSE, dbs |-> <<>>]
\* setup: the databases with their tables in the order of the import, or what is wrong;
\* a route of <<>> is an error of the router
Setup(files, filter, route) ==
  LET listed == ListFiles(files, filter)
      r == Route(listed, route)
      schemas == OfKind(r.files, {"table"})
      views == OfKind(r.files, {"view"})
      Name(f) == <<f.db, f.name>>
      withDBs == FoldLeft(LAMBDA dbs, d : InsertDB(dbs, d.db, d.path), <<>>, r.dbs)
      withTables == FoldLeft(LAMBDA dbs, f : InsertTable(dbs, f, f.path), withDBs, schemas)
      withViews == FoldLeft(InsertView, withTables, views)
      withData == FoldLeft(AddData, withViews, OfKind(r.files, DataKinds)) IN
  IF route # <<>> /\ \E i \in DOMAIN listed : listed[i].kind # "db" /\ route[Name(listed[i])] = <<>> THEN Refused
  ELSE IF \/ route = <<>> /\ (Duplicated(r.dbs, LAMBDA d : d.db) \/ Duplicated(schemas, Name))
          \/ \E i \in DOMAIN views : ~HasTable(withTables, views[i]) THEN Refused
  ELSE [ok |-> TRUE, dbs |-> [i \in DOMAIN withData |-> [withData[i] EXCEPT !.tables = SortTables(@)]]]

----------------------------------------------------------------------------
(* The regions of a data file.                                             *)

RECURSIVE RowEnd(_, _)
\* where row n of the file ends
RowEnd(rows, n) == IF n = 0 THEN 0 ELSE rows[n] + RowEnd(rows, n - 1)
RowEnds(f) == {RowEnd(f.rows, n) : n \in 1 .. Len(f.rows)}

\* ReadUntilTerminator after SetPos(pos): just behind the next terminator, or the end
ReadUntilTerminator(f, pos) ==
  IF \E e \in RowEnds(f) : e > pos THEN CHOOSE e \in RowEnds(f) : e > pos /\ \A d \in RowEnds(f) : d > pos => e <= d
  ELSE f.size

\* a TableRegion; size is its entry in dataFileSizes
Region(f, from, to, prev, last, size) ==
  [path |-> f.path, from |-> from, to |-> to, prevRowID |-> prev, rowIDMax |-> last, size |-> size, engine |-> 0]
Least(a, b) == IF a < b THEN a ELSE b

RECURSIVE SplitFrom(_, _, _, _, _, _)
\* the loop of SplitLargeFile: the rows of a region are estimated before its end is
\* moved to the end of a line
SplitFrom(f, from, to, prev, divisor, regionSize) ==
  LET last == prev + ((to - from) \div divisor)
      end == IF to = f.size THEN to ELSE ReadUntilTerminator(f, to) IN
  <<Region(f, from, end, prev, last, end - from)>>
    \o IF end = f.size THEN <<>> ELSE SplitFrom(f, end, Least(end + regionSize, f.size), last, divisor, regionSize)
\* a header is read first, and belongs to no region
SplitLargeFile(f, divisor, cfg) ==
  LET start == IF cfg.header THEN RowEnd(f.rows, 1) ELSE 0 IN
  SplitFrom(f, start, IF cfg.header THEN Least(start + cfg.regionSize, f.size) ELSE cfg.regionSize, 0, divisor, cfg.regionSize)
\* parquet counts rows, not bytes
MakeParquetFileRegion(f) == Region(f, 0, Len(f.rows), 0, Len(f.rows), f.size)
\* only a large CSV file of strict format is split
IsSplit(f, cfg) == f.kind = "csv" /\ cfg.strict /\ f.size > cfg.regionSize + (cfg.regionSize \div 10)
MakeSourceFileRegion(f, cfg) ==
  LET divisor == cfg.columns + (IF f.kind = "csv" THEN 0 ELSE 2) IN
  IF f.kind = "parquet" THEN <<MakeParquetFileRegion(f)>>
  ELSE IF IsSplit(f, cfg)
       THEN SplitLargeFile(f, divisor, cfg)
       ELSE <<Region(f, 0, f.size, 0, f.size \div divisor, f.size)>>

\* mutant: the row ids of every file start at the same place
MutShift(regions, prev) == regions
\* the row ids of a file's regions follow the ones of the file before
Shift(regions, prev) ==
  LET delta == prev - regions[1].prevRowID IN
  [i \in DOMAIN regions |-> [regions[i] EXCEPT !.prevRowID = @ + delta, !.rowIDMax = @ + delta]]
\* the regions of the files in the table's order
Concat(data, regionsOf) ==
  FoldLeft(LAMBDA all, f : all \o Shift(regionsOf[f.path], IF all = <<>> THEN 0 ELSE Last(all).rowIDMax), <<>>, data)

\* AllocateEngineIDs: an engine is closed when it is as large as the batch of its
\* number. How the batches grow up to batchSize, the last of them, is floating point
\* and an input here.
AllocateEngineIDs(regions, batches) ==
  LET BatchOf(e) == batches[Least(e + 1, Len(batches))]
      total == FoldLeft(LAMBDA n, r : n + r.size, 0, regions)
      Step(s, r) ==
        LET size == s.size + r.size
            full == size >= BatchOf(s.engine) IN
        [engine |-> IF full THEN s.engine + 1 ELSE s.engine, size |-> IF full THEN 0 ELSE size,
         out |-> Append(s.out, [r EXCEPT !.engine = s.engine])] IN
  IF total <= Last(batches) THEN regions
  ELSE FoldLeft(Step, [engine |-> 0, size |-> 0, out |-> <<>>], regions).out
====
