---- MODULE LogRestore ----
(***************************************************************************)
(* Restoring the log that TiCDC wrote (LogClient.RestoreLogData): database *)
(* DDLs are executed first; then every table has a goroutine that pulls    *)
(* the DDLs and row changes of its files in the order of their commit      *)
(* timestamps (EventPuller), encodes rows with the table info it holds     *)
(* (TableBuffer), writes them in batches (writeRows: LogIngest) and runs   *)
(* the DDLs of the table under one lock.                                   *)
(*                                                                         *)
(* A row has a handle (key) and an indexed value; its pairs are a record   *)
(* and an index entry.  Decoding keeps the fields of an event.             *)
(***************************************************************************)
EXTENDS Integers, Sequences, FiniteSets, FiniteSetsExt, SequencesExt

CONSTANTS
  LogPlans,      \* logs, and the clusters they are restored to
  FlushKVPairs,  \* BatchFlushKVPairs
  CurrentFile    \* the name of the row file that was not rotated yet

VARIABLES
  plan,    \* ddls: the DDL files; files: table id -> its row files; names: table
           \* id -> name; match: the names of the filter; start, end (0: up to now),
           \* resolved, now; dbs, tabs, rows: the cluster; fail: bound, what may fail
  main,    \* where RestoreLogData is, endTS, the database DDLs to come and dropTSMap
  tidb,    \* schemas, tables with their ids and versions, the next id
  rows,    \* pairs in TiKV: <<table id, "r" or "i", key, value>>
  tb,      \* the goroutine of each table: puller and buffer
  lock,    \* ddlLock: {} or the table that holds it
  fails,   \* bound: failures left
  failed,  \* an error is in the error group, so its context is done
  result   \* "none", "ok" or "error"

vars == <<plan, main, tidb, rows, tb, lock, fails, failed, result>>

DBRelated == {"createdb", "dropdb", "modifydb"}
IsDBRelatedDDL(e) == e.kind = "ddl" /\ e.type \in DBRelated
Ids == DOMAIN plan.names

----------------------------------------------------------------------------
(* Which files, and in which order.                                        *)

TsInRange(ts) == plan.start <= ts /\ ts <= main.end
\* a DDL file is named after its first event, a row file after its last one
NeedRestoreDDL(f) == f.name <= main.end
NeedRestoreRowChange(f) == f.name = CurrentFile \/ f.name >= plan.start
Later(f, g) == g.name = CurrentFile \/ (f.name # CurrentFile /\ f.name < g.name)
InOrder(fs) ==
  LET of == [n \in 1..Cardinality(fs) |-> CHOOSE f \in fs : Cardinality({g \in fs : g # f /\ Later(g, f)}) = n - 1]
  IN [n \in DOMAIN of |-> of[n].events]
CollectDDLFiles == InOrder({f \in plan.ddls : NeedRestoreDDL(f)})
\* of the ids of a name only the largest one counts
Collected ==
  {t \in Ids : /\ plan.names[t] \in plan.match
               /\ \A u \in Ids : plan.names[u] = plan.names[t] => u <= t
               /\ \E f \in plan.files[t] : NeedRestoreRowChange(f)}
CollectRowChangeFiles(t) == InOrder({f \in plan.files[t] : NeedRestoreRowChange(f)})

----------------------------------------------------------------------------
(* EventPuller: two streams of files, each with the event to come.         *)

NewStream(fs) == [files |-> fs, rest |-> <<>>, cur |-> <<>>]
\* the next file once this one is read; an empty file is not passed
Open(s) ==
  IF s.rest = <<>> /\ s.files # <<>> /\ Head(s.files) # <<>>
  THEN [s EXCEPT !.rest = Head(s.files), !.files = Tail(@)] ELSE s
\* mutant: the bytes of the event are not dropped
MutNextEvent(s) == IF s.rest = <<>> THEN [s EXCEPT !.cur = <<>>] ELSE [s EXCEPT !.cur = <<Head(s.rest)>>]
NextEvent(s) ==
  IF s.rest = <<>> THEN [s EXCEPT !.cur = <<>>] ELSE [s EXCEPT !.cur = <<Head(s.rest)>>, !.rest = Tail(@)]
Ready(s) == LET o == Open(s) IN IF o.cur = <<>> THEN NextEvent(o) ELSE o
LessThan(a, b) == a.ts < b.ts

\* the streams after one event, and the event, if there is any
PullOneEvent(d, r) ==
  LET dd == Ready(d) rr == Ready(r)
  IN IF dd.cur # <<>> /\ (rr.cur = <<>> \/ LessThan(dd.cur[1], rr.cur[1]))
     THEN [d |-> NextEvent(dd), r |-> rr, item |-> dd.cur]
     ELSE [d |-> dd, r |-> NextEvent(rr), item |-> rr.cur]

----------------------------------------------------------------------------
(* TiDB, and the pairs of rows.                                            *)

NoInfo == [id |-> 0, ver |-> 0]
Table(n) == {x \in tidb.tabs : x.name = n}
InfoOf(xs) == [id |-> (CHOOSE x \in xs : TRUE).id, ver |-> (CHOOSE x \in xs : TRUE).ver]

CanExecute(e) ==
  CASE e.type = "createdb" -> e.name[1] \notin tidb.dbs
    [] e.type \in {"dropdb", "modifydb"} -> e.name[1] \in tidb.dbs
    [] e.type = "create" -> e.name[1] \in tidb.dbs /\ Table(e.name) = {}
    [] OTHER -> Table(e.name) # {}
Executed(e) ==
  CASE e.type = "createdb" -> [tidb EXCEPT !.dbs = @ \cup {e.name[1]}]
    [] e.type = "dropdb" -> [tidb EXCEPT !.dbs = @ \ {e.name[1]}, !.tabs = {x \in @ : x.name[1] # e.name[1]}]
    [] e.type = "create" ->
         [tidb EXCEPT !.tabs = @ \cup {[name |-> e.name, id |-> tidb.next, ver |-> 1]}, !.next = @ + 1]
    [] e.type = "drop" -> [tidb EXCEPT !.tabs = @ \ Table(e.name)]
    [] e.type = "truncate" ->
         [tidb EXCEPT !.tabs = {IF x.name = e.name THEN [x EXCEPT !.id = tidb.next] ELSE x : x \in @}, !.next = @ + 1]
    [] e.type = "alter" ->
         [tidb EXCEPT !.tabs = {IF x.name = e.name THEN [x EXCEPT !.ver = @ + 1] ELSE x : x \in @}]
    [] OTHER -> tidb

\* a row as pairs of a table id and a version of its columns: <<>> deletes
RemoveRecord(info, k, v) == <<<<info.id, "r", k, <<>>>>, <<info.id, "i", v, <<>>>>>>
AddRecord(info, k, v) == <<<<info.id, "r", k, <<v, info.ver>>>>, <<info.id, "i", v, <<k>>>>>>
EncodeRow(info, e) ==
  (IF e.pre # "none" THEN RemoveRecord(info, e.key, e.pre) ELSE <<>>)
    \o (IF e.new # "none" THEN AddRecord(info, e.key, e.new) ELSE <<>>)
    \o (IF e.gone # "none" THEN RemoveRecord(info, e.key, e.gone) ELSE <<>>)

\* the pairs of one kind are written: the last one of a key counts (writeRows)
Put(have, p) ==
  LET others == {x \in have : x[1] # p[1] \/ x[2] # p[2] \/ x[3] # p[3]}
  IN IF p[4] = <<>> THEN others ELSE others \cup {p}
ClassifyAndAppend(buf, kind) == SelectSeq(buf, LAMBDA p : p[2] = kind)

----------------------------------------------------------------------------
(* RestoreLogData.                                                         *)

Fail == fails > 0 /\ fails' = fails - 1
Gone == [pc |-> "none", d |-> NewStream(<<>>), r |-> NewStream(<<>>), info |-> NoInfo, buf |-> <<>>,
         count |-> 0, then |-> "none", item |-> <<>>]

Init ==
  /\ plan \in LogPlans
  /\ main = [pc |-> "meta", end |-> IF plan.end = 0 THEN plan.now ELSE plan.end, ddls |-> <<>>,
             drop |-> [s \in {n[1] : n \in Range(plan.names)} |-> 0]]
  /\ tidb = [dbs |-> plan.dbs, tabs |-> plan.tabs, next |-> 10]
  /\ rows = plan.rows /\ tb = [t \in Ids |-> Gone]
  /\ lock = {} /\ fails = plan.fail /\ failed = FALSE /\ result = "none"

Stop(res) == main' = [main EXCEPT !.pc = "done"] /\ result' = res

\* the meta file limits the range of timestamps to what is resolved
ReadMeta ==
  /\ main.pc = "meta"
  /\ \/ plan.start > plan.resolved /\ Stop("error") /\ UNCHANGED fails
     \/ Fail /\ Stop("error")
     \/ /\ plan.start <= plan.resolved
        /\ main' = [main EXCEPT !.pc = "collect", !.end = Min({@, plan.resolved})]
        /\ UNCHANGED <<fails, result>>
  /\ UNCHANGED <<plan, tidb, rows, tb, lock, failed>>

\* collectDDLFiles
CollectDDLs ==
  /\ main.pc = "collect"
  /\ main' = [main EXCEPT !.pc = "db",
                !.ddls = SelectSeq(FlattenSeq(CollectDDLFiles), LAMBDA e : IsDBRelatedDDL(e) /\ TsInRange(e.ts))]
  /\ UNCHANGED <<plan, tidb, rows, tb, lock, fails, failed, result>>

\* doDBDDLJob, one DDL
DoDBDDLJob ==
  /\ main.pc = "db" /\ main.ddls # <<>>
  /\ \E e \in {Head(main.ddls)} :
       \/ /\ CanExecute(e) /\ tidb' = Executed(e)
          /\ main' = [main EXCEPT !.ddls = Tail(@), !.drop = IF e.type = "dropdb" THEN [@ EXCEPT ![e.name[1]] = e.ts] ELSE @]
          /\ UNCHANGED <<fails, result>>
       \/ /\ IF CanExecute(e) THEN Fail ELSE UNCHANGED fails
          /\ Stop("error") /\ UNCHANGED tidb
  /\ UNCHANGED <<plan, rows, tb, lock, failed>>

\* a puller and a buffer for every table, with the table info there is now
NewPullers ==
  /\ main.pc = "db" /\ main.ddls = <<>>
  /\ main' = [main EXCEPT !.pc = "tables"]
  /\ tb' = [t \in Ids |->
       IF t \notin Collected THEN Gone
       ELSE [Gone EXCEPT !.pc = "pull", !.d = NewStream(CollectDDLFiles), !.r = NewStream(CollectRowChangeFiles(t)),
               !.info = IF Table(plan.names[t]) = {} THEN NoInfo ELSE InfoOf(Table(plan.names[t]))]]
  /\ UNCHANGED <<plan, tidb, rows, lock, fails, failed, result>>

----------------------------------------------------------------------------
(* restoreTableFromPuller.                                                 *)

To(t, r) == tb' = [tb EXCEPT ![t] = r]
Return(t, err) == To(t, Gone) /\ failed' = (failed \/ err)
ThenApply(me, then) == [me EXCEPT !.pc = "apply", !.then = then]

\* a later drop of the schema undoes the event
ShouldFilter(e) == main.drop[e.name[1]] > e.ts
\* the DDL is about this table, and was not executed with those of databases
Mine(t, e) == e.name = plan.names[t] /\ ~IsDBRelatedDDL(e)

\* reloadTableMeta: by id while the buffer has one, where an id that is gone is no
\* error; else by name, where it is
Reloaded(t, me) ==
  LET same == {x \in tidb.tabs : x.id = me.info.id}
      named == Table(plan.names[t])
  IN IF me.info.id # 0 THEN IF same = {} THEN {me.info} ELSE {InfoOf(same)}
     ELSE IF named = {} THEN {} ELSE {InfoOf(named)}

\* TableBuffer.Append and ShouldApply
AppendItem(me, info, e) ==
  LET new == EncodeRow(info, e)
      m == [me EXCEPT !.info = info, !.buf = @ \o new, !.count = @ + (Len(new) \div 2)]
  IN IF m.count >= FlushKVPairs THEN ThenApply(m, "pull") ELSE m

\* one turn of the loop
Pull(t) ==
  /\ tb[t].pc = "pull"
  /\ \E p \in {PullOneEvent(tb[t].d, tb[t].r)} :
     \E me \in {[tb[t] EXCEPT !.d = p.d, !.r = p.r]} :
       CASE p.item = <<>> \/ (p.item # <<>> /\ p.item[1].ts > main.end) ->
              To(t, ThenApply(me, "return")) /\ UNCHANGED failed
         [] p.item # <<>> /\ p.item[1].ts < plan.start -> To(t, me) /\ UNCHANGED failed
         [] OTHER ->
              LET e == p.item[1]
              IN CASE ShouldFilter(e) -> To(t, ThenApply(me, "pull")) /\ UNCHANGED failed
                   [] ~ShouldFilter(e) /\ e.kind = "ddl" ->
                        /\ To(t, IF Mine(t, e) THEN [ThenApply(me, "lock") EXCEPT !.item = <<e>>] ELSE me)
                        /\ UNCHANGED failed
                   [] OTHER ->
                        \E infos \in {IF me.info = NoInfo THEN Reloaded(t, me) ELSE {me.info}} :
                          IF infos = {} THEN Return(t, TRUE)
                          ELSE \E info \in infos : To(t, AppendItem(me, info, e)) /\ UNCHANGED failed
  /\ UNCHANGED <<plan, main, tidb, rows, lock, fails, result>>

After(t) == IF tb[t].then = "return" THEN Gone ELSE [tb[t] EXCEPT !.pc = tb[t].then]

\* applyKVChanges: the records
ApplyData(t) ==
  /\ tb[t].pc = "apply"
  /\ To(t, IF tb[t].buf = <<>> THEN After(t) ELSE [tb[t] EXCEPT !.pc = "index"])
  /\ rows' = FoldLeft(Put, rows, ClassifyAndAppend(tb[t].buf, "r"))
  /\ UNCHANGED <<plan, main, tidb, lock, fails, failed, result>>
\* the index entries, and the buffer is cleared
ApplyIndex(t) ==
  /\ tb[t].pc = "index"
  /\ To(t, IF tb[t].then = "return" THEN Gone ELSE [After(t) EXCEPT !.buf = <<>>, !.count = 0])
  /\ rows' = FoldLeft(Put, rows, ClassifyAndAppend(tb[t].buf, "i"))
  /\ UNCHANGED <<plan, main, tidb, lock, fails, failed, result>>

\* the turn fails: a file cannot be read, a pair not be written, the
\* schemas not be loaded
Fails(t) ==
  /\ tb[t].pc \in {"pull", "apply", "index", "reload"}
  /\ IF failed THEN UNCHANGED fails ELSE Fail
  /\ Return(t, TRUE)
  /\ UNCHANGED <<plan, main, tidb, rows, lock, result>>

Lock(t) ==
  /\ tb[t].pc = "lock" /\ lock = {}
  /\ lock' = {t} /\ To(t, [tb[t] EXCEPT !.pc = "ddl"])
  /\ UNCHANGED <<plan, main, tidb, rows, fails, failed, result>>

\* the table info is taken anew after a DDL, except after a drop
Reload(t, me) == IF me.item[1].type = "drop" THEN {NoInfo} ELSE Reloaded(t, me)

\* use and the DDL itself; an error returns with the lock held
ExecuteDDL(t) ==
  /\ tb[t].pc = "ddl"
  /\ \E e \in {tb[t].item[1]} :
       \/ /\ CanExecute(e) /\ tidb' = Executed(e) /\ lock' = {}
          /\ To(t, [tb[t] EXCEPT !.pc = "reload"]) /\ UNCHANGED <<fails, failed>>
       \/ /\ IF CanExecute(e) /\ ~failed THEN Fail ELSE UNCHANGED fails
          /\ Return(t, TRUE) /\ UNCHANGED <<tidb, lock>>
  /\ UNCHANGED <<plan, main, rows, result>>

ReloadMeta(t) ==
  /\ tb[t].pc = "reload"
  /\ \E info \in Reload(t, tb[t]) : To(t, [tb[t] EXCEPT !.pc = "pull", !.info = info, !.item = <<>>])
  /\ UNCHANGED <<plan, main, tidb, rows, lock, fails, failed, result>>

\* eg.Wait
RestoreTablesEnds ==
  /\ main.pc = "tables" /\ \A t \in Ids : tb[t].pc = "none"
  /\ Stop(IF failed THEN "error" ELSE "ok")
  /\ UNCHANGED <<plan, tidb, rows, tb, lock, fails, failed>>

----------------------------------------------------------------------------

TableStep(t) ==
  Pull(t) \/ ApplyData(t) \/ ApplyIndex(t) \/ Fails(t) \/ Lock(t) \/ ExecuteDDL(t) \/ ReloadMeta(t)
LockLeaked == \E t \in lock : tb[t].pc = "none"
LogStep ==
  \/ ReadMeta \/ CollectDDLs \/ DoDBDDLJob \/ NewPullers \/ RestoreTablesEnds
  \/ \E t \in Ids : TableStep(t)
Next ==
  \/ LogStep
  \/ result # "none" /\ UNCHANGED vars
  \* the goroutine that returned from a failed DDL still holds ddlLock
  \/ LockLeaked /\ UNCHANGED vars
Spec == Init /\ [][Next]_vars
FairSpec == Spec /\ WF_vars(LogStep)

----------------------------------------------------------------------------
(* Properties.                                                             *)

\* The log replayed by its timestamps: what the table should hold.
Events(t) ==
  {e \in UNION {ToSet(f.events) : f \in plan.ddls \cup plan.files[t]} :
     plan.start <= e.ts /\ e.ts <= main.end
       /\ (e.name = plan.names[t] \/ (IsDBRelatedDDL(e) /\ e.name[1] = plan.names[t][1]))}
First(a, b) == a.ts < b.ts \/ (a.ts = b.ts /\ a.kind = "row" /\ b.kind = "ddl")
Replay(c, e) ==
  CASE e.kind = "row" ->
         [c EXCEPT !.rows = {x \in @ : x[1] # e.key} \cup (IF e.new = "none" THEN {} ELSE {<<e.key, <<e.new, c.ver>>>>})]
    [] e.kind = "ddl" /\ e.type = "alter" -> [c EXCEPT !.ver = @ + 1]
    [] e.kind = "ddl" /\ e.type = "create" -> [there |-> TRUE, ver |-> 1, rows |-> {}]
    [] e.kind = "ddl" /\ e.type = "truncate" -> [c EXCEPT !.rows = {}]
    [] e.kind = "ddl" /\ e.type \in {"drop", "dropdb"} -> [there |-> FALSE, ver |-> 0, rows |-> {}]
    [] OTHER -> c
RowsOf(all, id, kind) == {<<x[3], x[4]>> : x \in {y \in all : y[1] = id /\ y[2] = kind}}
Before(t) ==
  LET was == {x \in plan.tabs : x.name = plan.names[t]}
  IN IF was = {} THEN [there |-> FALSE, ver |-> 0, rows |-> {}]
     ELSE [there |-> TRUE, ver |-> InfoOf(was).ver, rows |-> RowsOf(plan.rows, InfoOf(was).id, "r")]
Wanted(t) ==
  LET es == Events(t)
      order == [n \in 1..Cardinality(es) |-> CHOOSE e \in es : Cardinality({x \in es : First(x, e)}) = n - 1]
  IN FoldLeft(Replay, Before(t), order)
Holds(t) ==
  LET now == Table(plan.names[t])
      recs == RowsOf(rows, InfoOf(now).id, "r")
  IN IF now = {} THEN ~Wanted(t).there
     ELSE /\ Wanted(t).there /\ Wanted(t).rows = recs
          /\ RowsOf(rows, InfoOf(now).id, "i") = {<<x[2][1], <<x[1]>>>> : x \in recs}

\* a truncated table has another id, which reloadTableMeta does not find
Truncated(t) == \E e \in Events(t) : e.kind = "ddl" /\ e.type = "truncate"


\* Log restore returns, whatever fails, unless ddlLock is never unlocked again.
Returned == result # "none" \/ LockLeaked
LogRestoreReturns == <>[]Returned
====
