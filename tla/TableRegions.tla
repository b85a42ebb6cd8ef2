---- MODULE TableRegions ----
(***************************************************************************)
(* mydump's MakeTableRegions on a loaded data source: the files of a table *)
(* go through fileChan to the workers, their regions through resultChan to *)
(* a collector, and its verdict through errChan back to the caller, while  *)
(* the caller's context may be cancelled.                                  *)
(***************************************************************************)
EXTENDS SourceFiles

CONSTANTS Workers,     \* the goroutines, max(region-concurrency, 2)
          Sources      \* data sources: [files, filter, route, cfg, batches, bad]; files in
                       \* bad cannot be read

VARIABLES source, loaded, \* the plan and the loader's databases
          data,         \* the data files of the table
          caller,       \* "load", "send", "wait", or how MakeTableRegions ended
          next,         \* the next file to send
          fileChan, fileClosed, resultChan, errChan,
          worker,       \* worker -> [at, path, err]
          collector, collected, \* the collector, and the files in its fileRegionsMap
          ctxDone

vars == <<source, loaded, data, caller, next, fileChan, fileClosed, resultChan, errChan, worker, collector, collected, ctxDone>>
chans == <<fileChan, fileClosed, resultChan, errChan>>
Ended == {"ok", "error", "cancelled", "panic", "refused"}
Concurrency == Cardinality(Workers)
FileOf(p) == data[CHOOSE i \in DOMAIN data : data[i].path = p]
\* what MakeTableRegions puts together and returns after the collector's verdict
FilesRegions ==
  AllocateEngineIDs(Concat(data, [p \in collected |-> MakeSourceFileRegion(FileOf(p), source.cfg)]), source.batches)

Init ==
  /\ source \in Sources
  /\ loaded = Setup(source.files, source.filter, source.route)
  /\ data = <<>> /\ collected = {}
  /\ caller = "load" /\ next = 1
  /\ fileChan = <<>> /\ fileClosed = FALSE /\ resultChan = <<>> /\ errChan = <<>>
  /\ worker = [w \in Workers |-> [at |-> "idle", path |-> NoFile, err |-> FALSE]]
  /\ collector = "run"
  /\ ctxDone = FALSE

\* the loader has read the source; MakeTableRegions is called for a table
Load ==
  /\ caller = "load"
  /\ \/ ~loaded.ok /\ caller' = "refused" /\ UNCHANGED data
     \/ \E i \in DOMAIN loaded.dbs : \E j \in DOMAIN loaded.dbs[i].tables :
          /\ loaded.dbs[i].tables[j].data # <<>>
          /\ data' = loaded.dbs[i].tables[j].data
          /\ caller' = "send"
  /\ UNCHANGED <<source, loaded, next, chans, worker, collector, collected, ctxDone>>

\* the loop over the data files
SendFile ==
  /\ caller = "send" /\ next <= Len(data)
  /\ Len(fileChan) < Concurrency
  /\ fileChan' = Append(fileChan, data[next].path)
  /\ next' = next + 1
  /\ UNCHANGED <<source, loaded, data, caller, fileClosed, resultChan, errChan, worker, collector, collected, ctxDone>>
SeesCancel ==
  /\ caller = "send" /\ next <= Len(data) /\ ctxDone
  /\ fileClosed' = TRUE /\ caller' = "cancelled"
  /\ UNCHANGED <<source, loaded, data, next, fileChan, resultChan, errChan, worker, collector, collected, ctxDone>>
\* an error while files are left: fileChan stays open
SeesError ==
  /\ caller = "send" /\ next <= Len(data) /\ errChan # <<>>
  /\ errChan' = <<>> /\ caller' = "error"
  /\ UNCHANGED <<source, loaded, data, next, fileChan, fileClosed, resultChan, worker, collector, collected, ctxDone>>
\* mutant: fileChan is not closed
MutCloseFiles ==
  /\ caller = "send" /\ next > Len(data)
  /\ caller' = "wait"
  /\ UNCHANGED <<source, loaded, data, next, chans, worker, collector, collected, ctxDone>>
CloseFiles ==
  /\ caller = "send" /\ next > Len(data)
  /\ fileClosed' = TRUE /\ caller' = "wait"
  /\ UNCHANGED <<source, loaded, data, next, fileChan, resultChan, errChan, worker, collector, collected, ctxDone>>

\* the verdict; a file the collector has no regions of is an index out of range
Finish ==
  /\ caller = "wait" /\ errChan # <<>>
  /\ errChan' = <<>>
  /\ caller' = IF errChan[1] = "err" THEN "error"
               ELSE IF \A i \in DOMAIN data : data[i].path \in collected THEN "ok" ELSE "panic"
  /\ UNCHANGED <<source, loaded, data, next, fileChan, fileClosed, resultChan, worker, collector, collected, ctxDone>>

\* a worker: the next file, its regions, the result or the cancelled context
TakeFile(w) ==
  /\ worker[w].at = "idle" /\ fileChan # <<>>
  /\ worker' = [worker EXCEPT ![w] = [at |-> "made", path |-> Head(fileChan), err |-> Head(fileChan) \in source.bad]]
  /\ fileChan' = Tail(fileChan)
  /\ UNCHANGED <<source, loaded, data, caller, next, fileClosed, resultChan, errChan, collector, collected, ctxDone>>
\* a worker that failed leaves its loop
After(w) == [worker[w] EXCEPT !.at = IF worker[w].err THEN "exit" ELSE "idle"]
SendResult(w) ==
  /\ worker[w].at = "made"
  /\ Len(resultChan) < Concurrency
  /\ resultChan' = Append(resultChan, [path |-> worker[w].path, err |-> worker[w].err])
  /\ worker' = [worker EXCEPT ![w] = After(w)]
  /\ UNCHANGED <<source, loaded, data, caller, next, fileChan, fileClosed, errChan, collector, collected, ctxDone>>
\* the break leaves only the select: the result is dropped and the loop goes on
DropResult(w) ==
  /\ worker[w].at = "made" /\ ctxDone
  /\ worker' = [worker EXCEPT ![w] = After(w)]
  /\ UNCHANGED <<source, loaded, data, caller, next, chans, collector, collected, ctxDone>>
ExitWorker(w) ==
  /\ worker[w].at = "idle" /\ fileChan = <<>> /\ fileClosed
  /\ worker' = [worker EXCEPT ![w].at = "exit"]
  /\ UNCHANGED <<source, loaded, data, caller, next, chans, collector, collected, ctxDone>>

\* the collector; resultChan is closed once every worker is gone
Collect ==
  /\ collector = "run" /\ resultChan # <<>>
  /\ resultChan' = Tail(resultChan)
  /\ IF Head(resultChan).err
     THEN errChan' = Append(errChan, "err") /\ collector' = "exit" /\ UNCHANGED collected
     ELSE collected' = collected \cup {Head(resultChan).path} /\ UNCHANGED <<errChan, collector>>
  /\ UNCHANGED <<source, loaded, data, caller, next, fileChan, fileClosed, worker, ctxDone>>
\* wg.Wait, close(resultChan)
AllGone == \A w \in Workers : worker[w].at = "exit"
CollectorEnds ==
  /\ collector = "run" /\ resultChan = <<>> /\ AllGone
  /\ errChan' = Append(errChan, "nil")
  /\ collector' = "exit"
  /\ UNCHANGED <<source, loaded, data, caller, next, fileChan, fileClosed, resultChan, worker, collected, ctxDone>>

\* the caller's context, which is cancelled when another table fails or on a signal
Cancel ==
  /\ ~ctxDone /\ caller \in {"send", "wait"}
  /\ ctxDone' = TRUE
  /\ UNCHANGED <<source, loaded, data, caller, next, chans, worker, collector, collected>>

Worker(w) == TakeFile(w) \/ SendResult(w) \/ DropResult(w) \/ ExitWorker(w)
Caller == Load \/ SendFile \/ SeesCancel \/ SeesError \/ CloseFiles \/ Finish
Collector == Collect \/ CollectorEnds
Next == Caller \/ Collector \/ Cancel \/ \E w \in Workers : Worker(w)
Fairness == WF_vars(Caller) /\ WF_vars(Collector) /\ \A w \in Workers : WF_vars(Worker(w))
FairSpec == Init /\ [][Next]_vars /\ Fairness

----------------------------------------------------------------------------
\* the rows that begin in a region, whose ids its parser hands out from prevRowID + 1
RowsIn(r) ==
  LET f == FileOf(r.path) IN
  IF f.kind = "parquet" THEN r.to - r.from
  ELSE Cardinality({n \in 1 .. Len(f.rows) : RowEnd(f.rows, n - 1) \in r.from .. r.to - 1})

\* What MakeTableRegions returns cuts the table without loss or overlap, whatever order
\* the workers finish in: the regions of a file begin behind its header or at 0, follow
\* each other, end at ends of lines and at the end of the file; the row ids handed out
\* in a region are its own; the engines are numbered from 0 without a hole, in order.
\* A missing file is at worst a panic, and only when the context is cancelled.
TableIsCut ==
  /\ caller = "panic" => ctxDone
  /\ caller = "ok" => LET regions == FilesRegions IN
     /\ \A i \in DOMAIN data :
          LET f == data[i]
              rs == SelectSeq(regions, LAMBDA r : r.path = f.path)
              start == IF IsSplit(f, source.cfg) /\ source.cfg.header THEN RowEnd(f.rows, 1) ELSE 0 IN
          /\ rs # <<>> /\ rs[1].from = start
          /\ Last(rs).to = IF f.kind = "parquet" THEN Len(f.rows) ELSE f.size
          /\ \A j \in 1 .. Len(rs) - 1 : rs[j].to = rs[j + 1].from /\ rs[j].to \in RowEnds(f)
     /\ \A i \in DOMAIN regions : \A j \in DOMAIN regions : i < j =>
          regions[i].prevRowID + RowsIn(regions[i]) <= regions[j].prevRowID
     /\ regions[1].engine = 0
     /\ \A i \in 1 .. Len(regions) - 1 : regions[i + 1].engine - regions[i].engine \in {0, 1}

\* The loader loses and invents nothing: every data file that passes the filter is in
\* the table its route names and in no other, the files of a table are in the order of
\* their keys, the tables of a database in the order of their sizes, and no database or
\* table is there twice, however the routes merge them.
SourceIsLoaded ==
  loaded.ok =>
    LET dbs == loaded.dbs
        listed == OfKind(ListFiles(source.files, source.filter), DataKinds)
        Target(f) == IF source.route = <<>> THEN <<f.db, f.name>> ELSE source.route[<<f.db, f.name>>]
        Places(p) == {<<i, j, k>> \in (1 .. Len(dbs)) \X (1 .. 4) \X (1 .. Len(source.files)) :
                        /\ j \in DOMAIN dbs[i].tables
                        /\ k \in DOMAIN dbs[i].tables[j].data
                        /\ dbs[i].tables[j].data[k].path = p} IN
    /\ ~Duplicated(dbs, LAMBDA d : d.db)
    /\ \A i \in DOMAIN dbs :
         LET ts == dbs[i].tables IN
         /\ ~Duplicated(ts, LAMBDA t : t.name)
         /\ \A j \in 1 .. Len(ts) - 1 : ts[j].size <= ts[j + 1].size
         /\ \A j \in DOMAIN ts : \A k \in 1 .. Len(ts[j].data) - 1 : ts[j].data[k].key <= ts[j].data[k + 1].key
    /\ \A i \in DOMAIN listed :
         /\ Cardinality(Places(listed[i].path)) = 1
         /\ \A p \in Places(listed[i].path) : <<dbs[p[1]].db, dbs[p[1]].tables[p[2]].name>> = Target(listed[i])

\* MakeTableRegions returns, though a file cannot be read, a worker is gone or the
\* context is cancelled while its goroutines wait for each other.
Returned == caller \in Ended
MakeTableRegionsReturns == <>[]Returned
====
