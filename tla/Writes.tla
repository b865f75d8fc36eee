------------------------------- MODULE Writes -------------------------------
(***************************************************************************)
(* The workloads that write: their setup, measured and cleanup scripts     *)
(* (workloads/crud.py, merge_cdc.py, update_delete.py, optimize.py,        *)
(* synthetic_write_delta.py and the helpers of _fixtures.py) run statement *)
(* by statement against the tables of an engine, as run_workload and the   *)
(* adapters do.  DeltaForge gets scripts of several statements, of which   *)
(* any may fail, time out or be the last before the child is killed; Spark *)
(* gets single statements.  DeltaForge's CLI also prints errors and exits  *)
(* 0, which the adapter does not look for, and a statement it was sent and *)
(* not waited for may be executed much later, in another workload even.    *)
(* Nothing but the scripts repairs what is left.                           *)
(*                                                                         *)
(* A table is a bag of rows [key, val]; val is o_orderstatus or            *)
(* l_quantity.  A name is <<zone, table>>, zone "" being Spark's default   *)
(* database and every unqualified name.  HASH is a constant function, its  *)
(* buckets those of the scripts.  Where a script loads and drops all eight *)
(* TPC-H tables one after the other, lineitem stands for the eight: no     *)
(* other statement names one of the other seven.                           *)
(***************************************************************************)
EXTENDS Integers, Sequences, FiniteSets, Bags

CONSTANTS
    Keys,            \* keys of the source rows, a set of positive integers
    Hash,            \* key -> 0..2999, also for the keys INSERT makes
    FeedOffset,      \* 100000 in crud.py
    InsertOffset,    \* 200000
    Runs,            \* workload -> cold_runs + warm_runs
    MaxSessions,     \* bound: workloads run one after the other
    MaxInFlight      \* bound: statements not waited for that may still be executed

Engines   == {"df", "spark"}
\* Besides the five workloads, "parquet_view" and "csv_to_delta": what the two
\* helpers of _fixtures.py of these names make, which no workload uses at present.
Workloads == DOMAIN Runs

WritesAssumption ==
    /\ Keys # {} /\ Keys \subseteq Nat \ {0} /\ IsFiniteSet(Keys)
    /\ FeedOffset \in Nat \ {0} /\ InsertOffset \in Nat /\ FeedOffset < InsertOffset
    /\ Workloads \subseteq {"crud", "merge_cdc", "update_delete", "optimize", "synthetic",
                            "parquet_view", "csv_to_delta"}
    /\ \A w \in Workloads : Runs[w] \in Nat \ {0}
    /\ MaxSessions \in Nat
    /\ MaxInFlight \in Nat

ASSUME WritesAssumption

VARIABLES
    db,             \* engine -> [zones, tables]
    eng, wl,        \* the workload that runs, or ran last, and its engine
    phase,          \* "idle", "setup", "measure", "cleanup"
    step, rep, stmt,\* the loops of run_workload and of the adapter
    outcome,        \* how it ended: "done", "skipped" (setup), "killed"
    sessions,       \* how many were started
    inflight,       \* statements DeltaForge was sent, and may still execute
    clean,          \* history: every statement of this workload was executed
    disturbed,      \* history: a failure of this workload went unseen, or a
                    \* statement that was in flight was executed in it
    final           \* history: engine, workload -> tables after measuring

place == <<eng, wl, phase, step, rep, stmt>>
vars  == <<db, place, outcome, sessions, inflight, clean, disturbed, final>>

-----------------------------------------------------------------------------
(***************************************************************************)
(* Statements: what each needs to succeed and what it does                 *)
(***************************************************************************)

S(op, name)        == [op |-> op, name |-> name, from |-> <<>>, arg |-> 0]
From(op, name, s)  == [op |-> op, name |-> name, from |-> s, arg |-> 0]
Dml(op, name, pct) == [op |-> op, name |-> name, from |-> <<>>, arg |-> pct]

\* Variant of In: HASH is not the same function on every engine.
InPerEngine(k, m, r) == (Hash[k] + IF eng = "df" THEN 1 ELSE 0) % m = r
In(k, m, r) == Hash[k] % m = r
Below(k, m, r) == Hash[k] % m < r

BagKeys(b) == {row.key : row \in BagToSet(b)}
MaxKey(b) == CHOOSE k \in BagKeys(b) : \A l \in BagKeys(b) : l <= k
\* The bag of those of the rows of b, and the bag that has for every copy of a
\* row of b one of what f makes of that row.
Where(b, rows) == [row \in rows |-> b[row]]
Copies(b) == UNION {{row} \X (1..b[row]) : row \in BagToSet(b)}
Changed(b, f) ==
    [row \in {f[r] : r \in BagToSet(b)} |-> Cardinality({c \in Copies(b) : f[c[1]] = row})]

\* What {data_dir}/<table>.parquet holds.
Source(name) ==
    SetToBag({[key |-> k,
               val |-> IF name[2] \in {"orders", "stg_orders"} THEN "O" ELSE 0] :
                 k \in Keys})

\* The feed of crud.py: inserts re-keyed above MAX, updates with their keys.
CrudFeed(b) ==
    SetToBag(
      {[key |-> k + MaxKey(b) + FeedOffset, val |-> "F", op |-> "I"] :
          k \in {l \in BagKeys(b) : In(l, 500, 0)}} \cup
      {[key |-> k, val |-> "X", op |-> "U"] :
          k \in {l \in BagKeys(b) : In(l, 100, 7)}})

\* Variant of CrudInsert: re-keyed by the offset alone.
CrudInsertLow(b) ==
    LET chosen == {r \in BagToSet(b) : In(r.key, 30, 0)}
    IN b (+) Changed(Where(b, chosen),
                     [r \in chosen |-> [key |-> r.key + InsertOffset, val |-> "N"]])
CrudInsert(b) ==
    LET chosen == {r \in BagToSet(b) : In(r.key, 30, 0)}
    IN b (+) Changed(Where(b, chosen),
                     [r \in chosen |-> [key |-> r.key + MaxKey(b) + InsertOffset, val |-> "N"]])

CrudUpdate(b) ==
    Changed(b, [r \in BagToSet(b) |-> IF In(r.key, 100, 3) THEN [r EXCEPT !.val = "P"] ELSE r])
CrudDelete(b) == Where(b, {r \in BagToSet(b) : ~In(r.key, 100, 17)})

FeedRow(feed, k, op) == {s \in BagToSet(feed) : s.key = k /\ s.op = op}

Updated(b, feed) ==
    Changed(b, [r \in BagToSet(b) |->
                  IF FeedRow(feed, r.key, "U") = {} THEN r
                  ELSE [r EXCEPT !.val = (CHOOSE s \in FeedRow(feed, r.key, "U") : TRUE).val]])

Inserted(feed, rows) ==
    Changed(Where(feed, rows), [s \in rows |-> [key |-> s.key, val |-> s.val]])

CrudMerge(b, feed) ==
    Updated(b, feed) (+)
        Inserted(feed, {s \in BagToSet(feed) : s.op = "I" /\ s.key \notin BagKeys(b)})

\* The feed of merge_cdc.py and the MERGE that applies it.
CdcFeed(b) ==
    SetToBag({[key |-> r.key, val |-> r.val + 1,
               op |-> IF Below(r.key, 100, 1) THEN "U" ELSE "D"] :
                 r \in {q \in BagToSet(b) : Below(q.key, 100, 2)}})
CdcMerge(b, feed) ==
    LET updated == Updated(b, feed)
    IN Where(updated, {r \in BagToSet(updated) : FeedRow(feed, r.key, "D") = {}})

UpdatePct(b, pct) ==
    Changed(b, [r \in BagToSet(b) |->
                  IF Below(r.key, 100, pct) THEN [r EXCEPT !.val = @ + 1] ELSE r])
DeletePct(b, pct) == Where(b, {r \in BagToSet(b) : ~Below(r.key, 1000, pct * 10)})

\* IF EXISTS and IF NOT EXISTS make a statement legal in any state; the others
\* need their zone, their tables, and CREATE that its table is not there.
Legal(d, s) ==
    LET T == DOMAIN d.tables
    IN CASE s.op \in {"zone", "drop", "nothing"} -> TRUE
         [] s.op \in {"create", "mount"} -> s.name[1] \in d.zones /\ s.name \notin T
         [] s.op = "ctas"    -> /\ s.name[1] \in d.zones /\ s.name \notin T
                                /\ s.from # <<>> => s.from \in T
         [] s.op \in {"replace", "crud feed", "cdc feed"}
                             -> s.name[1] \in d.zones /\ (s.from # <<>> => s.from \in T)
         [] OTHER            -> s.name \in T /\ (s.from # <<>> => s.from \in T)

\* The new content of the table a statement writes.
Content(d, s) ==
    LET old == d.tables[s.name]
        src == IF s.from = <<>> THEN Source(s.name) ELSE d.tables[s.from]
    IN CASE s.op = "create"    -> EmptyBag
         [] s.op \in {"mount", "ctas", "replace"} -> src
         [] s.op = "crud feed" -> CrudFeed(src)
         [] s.op = "cdc feed"  -> CdcFeed(src)
         [] s.op = "append"    -> old (+) src
         [] s.op = "insert"    -> CrudInsert(old)
         [] s.op = "update"    -> CrudUpdate(old)
         [] s.op = "delete"    -> CrudDelete(old)
         [] s.op = "merge"     -> CrudMerge(old, src)
         [] s.op = "cdc merge" -> CdcMerge(old, src)
         [] s.op = "update %"  -> UpdatePct(old, s.arg)
         [] s.op = "delete %"  -> DeletePct(old, s.arg)
         [] OTHER              -> old      \* OPTIMIZE, SELECT

Effect(d, s) ==
    CASE s.op = "nothing" -> d
      [] s.op = "zone" -> [d EXCEPT !.zones = @ \cup {s.name[1]}]
      [] s.op \in {"drop", "drop it"} ->
           [d EXCEPT !.tables = [n \in DOMAIN @ \ {s.name} |-> @[n]]]
      [] OTHER ->
           [d EXCEPT !.tables = [n \in DOMAIN @ \cup {s.name} |->
                                   IF n = s.name THEN Content(d, s) ELSE @[n]]]

-----------------------------------------------------------------------------
(***************************************************************************)
(* Scripts: a step is a sequence of statements                             *)
(***************************************************************************)

Name(e, t) == IF e = "df" THEN <<"bench", t>> ELSE <<"", t>>
Plain(t)   == <<"", t>>
Stg(t)     == <<"bench_ext", [orders |-> "stg_orders", lineitem |-> "stg_lineitem"][t]>>
BenchZone  == S("zone", <<"bench", "">>)
ExtZone    == S("zone", <<"bench_ext", "">>)

\* Variant of Load: the staging table of an interrupted load is not dropped.
LoadOnce(e, t) ==
    IF e = "df"
    THEN <<BenchZone, ExtZone, S("drop", Name(e, t)), S("create", Name(e, t)), S("mount", Stg(t)),
           From("append", Name(e, t), Stg(t)), S("drop it", Stg(t))>>
    ELSE <<S("replace", Name(e, t))>>
\* Variant of Load: what an interrupted workload left is taken as loaded.
LoadInto(e, t) ==
    IF e = "df"
    THEN <<BenchZone, ExtZone, S("drop", Name(e, t)), S("create", Name(e, t)), S("drop", Stg(t)),
           S("mount", Stg(t)), From("append", Name(e, t), Stg(t)),
           S("drop it", Stg(t))>>
    ELSE <<IF Name(e, t) \in DOMAIN db[e].tables THEN S("nothing", Name(e, t))
           ELSE S("replace", Name(e, t))>>
Load(e, t) ==
    IF e = "df"
    THEN <<BenchZone, ExtZone, S("drop", Name(e, t)), S("create", Name(e, t)), S("drop", Stg(t)),
           S("mount", Stg(t)), From("append", Name(e, t), Stg(t)),
           S("drop it", Stg(t))>>
    ELSE <<S("replace", Name(e, t))>>

Feed(e) ==
    IF e = "df"
    THEN <<S("drop", Name(e, "cdc_feed")),
           From("crud feed", Name(e, "cdc_feed"), Name(e, "orders"))>>
    ELSE <<From("crud feed", Name(e, "cdc_feed"), Name(e, "orders"))>>

\* Views over the Parquet files, and CTAS from them: helpers of _fixtures.py.
View(e) == IF e = "df" THEN <<"bench_ext", "lineitem">> ELSE Plain("lineitem")
Mount(e) ==
    IF e = "df"
    THEN <<S("zone", View(e)), S("drop", View(e)), S("mount", View(e))>>
    ELSE <<S("replace", View(e))>>
Out(e)   == IF e = "df" THEN <<"bench_w", "lineitem">> ELSE Plain("lineitem")
CsvSrc   == <<"bench_ext", "lineitem_pq">>
CtasFromParquet(e) ==
    IF e = "df"
    THEN <<S("zone", CsvSrc), S("zone", Out(e)), S("drop", CsvSrc),
           S("mount", CsvSrc), S("drop", Out(e)), From("ctas", Out(e), CsvSrc)>>
    ELSE <<S("replace", Out(e))>>

Synth(e) == IF e = "df" THEN <<"write_zone", "synth_fact">> ELSE Plain("synth_fact")
WriteSynth(e) ==
    IF e = "df" THEN <<S("drop", Synth(e)), S("ctas", Synth(e))>>
    ELSE <<S("replace", Synth(e))>>

Line == Plain("lineitem")
UpdateStep(pct) == <<Dml("update %", Line, pct)>>
DeleteStep(pct) == <<Dml("delete %", Line, pct)>>

Setup(e, w) ==
    CASE w = "crud"          -> <<Load(e, "orders"), Feed(e)>>
      [] w = "merge_cdc"     -> <<Load(e, "lineitem"),
                                  <<From("cdc feed", Plain("cdc_changes"), Line)>>>>
      [] w = "update_delete" -> <<Load(e, "lineitem")>>
      [] w = "optimize"      -> <<Load(e, "lineitem")>>
                                \o [n \in 1..8 |-> <<S("append", Line)>>]
      [] w = "synthetic"     -> <<<<IF e = "df" THEN S("zone", Synth(e))
                                    ELSE S("nothing", Synth(e))>>>>
      [] w = "parquet_view"  -> <<Mount(e)>>
      [] OTHER               -> <<>>

Measured(e, w) ==
    CASE w = "crud" ->
           <<<<S("insert", Name(e, "orders"))>>, <<S("update", Name(e, "orders"))>>,
             <<S("delete", Name(e, "orders"))>>,
             <<From("merge", Name(e, "orders"), Name(e, "cdc_feed"))>>>>
      [] w = "merge_cdc" -> <<<<From("cdc merge", Line, Plain("cdc_changes"))>>>>
      [] w = "update_delete" ->
           <<UpdateStep(1), UpdateStep(10), UpdateStep(50), DeleteStep(1), DeleteStep(10)>>
      [] w = "optimize"      -> <<<<S("optimize", Line)>>>>
      [] w = "synthetic"     -> <<WriteSynth(e)>>
      [] w = "parquet_view"  -> <<<<S("select", View(e))>>>>
      [] OTHER               -> <<CtasFromParquet(e)>>

\* Variant of CleanUp: only the target is dropped.
CleanUpTarget(e, w) ==
    CASE w = "crud" -> <<<<S("drop", Name(e, "orders"))>>>>
      [] w = "synthetic" -> <<<<S("drop", Synth(e))>>>>
      [] w = "parquet_view" -> <<<<S("drop", View(e))>>>>
      [] w = "csv_to_delta" -> <<<<S("drop", Out(e))>>>>
      [] OTHER -> <<<<S("drop", Name(e, "lineitem"))>>>>
CleanUp(e, w) ==
    CASE w = "crud" -> <<<<S("drop", Name(e, "cdc_feed"))>>,
                         <<S("drop", Name(e, "orders"))>>>>
      [] w = "merge_cdc" -> <<<<S("drop", Plain("cdc_changes"))>>,
                              <<S("drop", Name(e, "lineitem"))>>>>
      [] w = "synthetic" -> <<<<S("drop", Synth(e))>>>>
      [] w = "parquet_view" -> <<<<S("drop", View(e))>>>>
      [] w = "csv_to_delta" -> <<IF e = "df"
                                 THEN <<S("drop", Out(e)), S("drop", CsvSrc)>>
                                 ELSE <<S("drop", Out(e))>>>>
      [] OTHER -> <<<<S("drop", Name(e, "lineitem"))>>>>

\* Every name in the scripts of a workload.
NamesIn(steps) == UNION {{steps[s][n].name : n \in 1..Len(steps[s])} : s \in 1..Len(steps)}
UsedBy(e, w)   == NamesIn(Setup(e, w)) \cup NamesIn(Measured(e, w))

Steps(p) == CASE p = "setup"   -> Setup(eng, wl)
              [] p = "measure" -> Measured(eng, wl)
              [] OTHER         -> CleanUp(eng, wl)
Script    == Steps(phase)[step]
Statement == Script[stmt]

-----------------------------------------------------------------------------
(***************************************************************************)
(* run_workload                                                            *)
(***************************************************************************)

Init ==
    /\ db = [e \in Engines |-> [zones |-> {""}, tables |-> <<>>]]
    /\ eng = "df" /\ wl \in Workloads /\ phase = "idle"
    /\ step = 1 /\ rep = 1 /\ stmt = 1
    /\ outcome = "none"
    /\ sessions = 0
    /\ inflight = {}
    /\ clean = TRUE
    /\ disturbed = FALSE
    /\ final = <<>>

Goto(p, s, r) == phase' = p /\ step' = s /\ rep' = r /\ stmt' = 1

Begin(e, w) ==
    /\ phase = "idle"
    /\ sessions < MaxSessions
    /\ sessions' = sessions + 1
    /\ eng' = e /\ wl' = w
    /\ Goto(IF Setup(e, w) = <<>> THEN "measure" ELSE "setup", 1, 1)
    /\ clean' = TRUE /\ disturbed' = FALSE
    /\ outcome' = "none"
    /\ UNCHANGED <<db, inflight, final>>

PhaseAfter == [setup |-> "measure", measure |-> "cleanup", cleanup |-> "idle"]

\* Variant of StepOver: one repetition too many.
StepOverLate ==
    IF phase = "measure" /\ rep <= Runs[wl] THEN Goto("measure", step, rep + 1)
    ELSE IF step < Len(Steps(phase)) THEN Goto(phase, step + 1, 1)
    ELSE Goto(PhaseAfter[phase], 1, 1)
\* A step is over: the repetitions of a measured step come before the next
\* step, the cleanup after the last.
StepOver ==
    IF phase = "measure" /\ rep < Runs[wl] THEN Goto("measure", step, rep + 1)
    ELSE IF step < Len(Steps(phase)) THEN Goto(phase, step + 1, 1)
    ELSE Goto(PhaseAfter[phase], 1, 1)

Finishing == phase = "cleanup" /\ step = Len(Steps("cleanup"))
Measuring == phase = "measure" /\ step = Len(Steps("measure")) /\ rep = Runs[wl]

Execute ==
    /\ phase # "idle"
    /\ Legal(db[eng], Statement)
    /\ db' = [db EXCEPT ![eng] = Effect(@, Statement)]
    /\ IF stmt < Len(Script)
       THEN stmt' = stmt + 1 /\ UNCHANGED <<phase, step, rep, final, outcome>>
       ELSE /\ StepOver
            /\ outcome' = IF Finishing THEN "done" ELSE outcome
            /\ final' = IF Measuring /\ clean
                        THEN [x \in DOMAIN final \cup {<<eng, wl>>} |->
                                IF x = <<eng, wl>> THEN db'[eng].tables ELSE final[x]]
                        ELSE final
    /\ UNCHANGED <<eng, wl, sessions, inflight, clean, disturbed>>

\* The statement at hand, if it was DeltaForge's, is executed later or never.
Abandon ==
    inflight' \in {inflight} \cup
        (IF eng = "df" /\ Cardinality(inflight) < MaxInFlight
         THEN {inflight \cup {Statement}} ELSE {})

\* An error or a timeout, which may leave the statement to be executed all the
\* same, at once or later.  The rest of the script is not run; a failed setup
\* ends the workload.
StatementFails ==
    /\ phase # "idle"
    /\ \/ db' = db /\ Abandon
       \/ /\ Legal(db[eng], Statement)
          /\ db' = [db EXCEPT ![eng] = Effect(@, Statement)]
          /\ UNCHANGED inflight
    /\ IF phase = "setup" THEN Goto("idle", 1, 1) /\ outcome' = "skipped"
       ELSE StepOver /\ outcome' = IF Finishing THEN "done" ELSE outcome
    /\ clean' = (clean /\ ~Legal(db[eng], Statement))
    /\ UNCHANGED <<eng, wl, sessions, disturbed, final>>

\* An error of DeltaForge that its CLI prints and exits 0 after: the adapter
\* goes on with the next statement and at last returns an exit_code of 0.
FailsUnseen ==
    /\ phase # "idle" /\ eng = "df"
    /\ IF stmt < Len(Script)
       THEN stmt' = stmt + 1 /\ UNCHANGED <<phase, step, rep, outcome>>
       ELSE StepOver /\ outcome' = IF Finishing THEN "done" ELSE outcome
    /\ clean' = FALSE /\ disturbed' = TRUE
    /\ UNCHANGED <<db, eng, wl, sessions, inflight, final>>

\* DeltaForge executes a statement it was sent, or refuses it as things are.
Land ==
    \E s \in inflight :
        /\ inflight' = inflight \ {s}
        /\ IF Legal(db["df"], s)
           THEN /\ db' = [db EXCEPT !["df"] = Effect(@, s)]
                /\ clean' = (clean /\ eng # "df")
                /\ disturbed' = (disturbed \/ eng = "df")
           ELSE UNCHANGED <<db, clean, disturbed>>
        /\ UNCHANGED <<place, outcome, sessions, final>>

Kill ==
    /\ phase # "idle"
    /\ Goto("idle", 1, 1)
    /\ outcome' = "killed"
    /\ Abandon
    /\ UNCHANGED <<db, eng, wl, sessions, clean, disturbed, final>>

Next ==
    \/ \E e \in Engines, w \in Workloads : Begin(e, w)
    \/ Execute
    \/ StatementFails
    \/ FailsUnseen
    \/ Land
    \/ Kill

Spec == Init /\ [][Next]_vars

-----------------------------------------------------------------------------
(***************************************************************************)
(* Properties                                                              *)
(***************************************************************************)

\* What DeltaForge is ever sent.
Sent == UNION {UNION {{steps[s][n] : n \in 1..Len(steps[s])} : s \in 1..Len(steps)} :
                 steps \in {Setup("df", w) : w \in Workloads} \cup
                            {Measured("df", w) : w \in Workloads} \cup
                            {CleanUp("df", w) : w \in Workloads}}

TypeOK ==
    /\ \A e \in Engines : /\ db[e].zones \subseteq {"", "bench", "bench_ext",
                                                   "bench_w", "write_zone"}
                          /\ \A n \in DOMAIN db[e].tables :
                                n[1] \in db[e].zones /\ IsABag(db[e].tables[n])
    /\ eng \in Engines /\ wl \in Workloads
    /\ phase \in {"idle", "setup", "measure", "cleanup"}
    /\ phase # "idle" => step \in 1..Len(Steps(phase)) /\ stmt \in 1..Len(Script)
    /\ rep \in 1..Runs[wl]
    /\ outcome \in {"none", "done", "skipped", "killed"}
    /\ sessions \in 0..MaxSessions
    /\ inflight \subseteq Sent
    /\ clean \in BOOLEAN /\ disturbed \in BOOLEAN
    /\ \A x \in DOMAIN final : x[1] \in Engines /\ x[2] \in Workloads

Target(e, w) == Name(e, IF w = "crud" THEN "orders" ELSE "lineitem")
Loaded == {"crud", "merge_cdc", "update_delete"}

\* When the first measured step begins, the target holds what the source file
\* holds and the feed what follows from that, whatever interrupted workloads and
\* half executed scripts left of either (_fixtures.py:146-164, crud.py:85-150),
\* failures that nobody saw and late statements included, unless they are of this
\* setup itself: from those the code has no defence.
SetupRestores ==
    phase = "measure" /\ step = 1 /\ rep = 1 /\ wl \in Loaded /\ ~disturbed =>
        LET T == db[eng].tables
            t == Target(eng, wl)
        IN /\ T[t] = Source(t)
           /\ wl = "crud" => T[Name(eng, "cdc_feed")] = CrudFeed(Source(t))
           /\ wl = "merge_cdc" => T[Plain("cdc_changes")] = CdcFeed(Source(t))

\* What DeltaForge has no variant for: unqualified names it does not find.
Unqualified == {"merge_cdc", "optimize"}

\* Whatever is left, no statement of a setup is refused: no CREATE meets a table
\* of an earlier session, however that ended.  On DeltaForge merge_cdc and
\* optimize are carved out, whose statements name their table without a zone.
SetupNotRefused ==
    phase = "setup" /\ ~disturbed =>
        Legal(db[eng], Statement) \/ (eng = "df" /\ wl \in Unqualified)

\* While crud.py runs o_orderkey stays a key: neither the re-keyed INSERTs,
\* repeated on a growing table, nor a feed whose new keys may be among theirs
\* makes a second row of it, whichever of the statements fail or are executed
\* although they failed (crud.py:157, "re-keyed to avoid PK collision").
KeysUnique ==
    wl = "crud" /\ phase \in {"measure", "cleanup"} /\ ~disturbed
    /\ Name(eng, "orders") \in DOMAIN db[eng].tables =>
        LET b == db[eng].tables[Name(eng, "orders")]
        IN \A r, s \in BagToSet(b) : r.key = s.key => r = s /\ b[r] = 1

\* A workload that runs through leaves the same rows on every engine and in every
\* session, "results are reproducible and cross-engine correct counts can be
\* asserted" (crud.py:4-5).
Reproducible ==
    \A x, y \in DOMAIN final :
        x[2] = y[2] /\ x[2] \in Loaded =>
            final[x][Target(x[1], x[2])] = final[y][Target(y[1], y[2])]

\* A workload that ends with every statement executed leaves no table, target,
\* feed or staging, that was not there in the beginning.
LeavesNothing ==
    outcome = "done" /\ clean =>
        UsedBy(eng, wl) \cap DOMAIN db[eng].tables = {}

\* The second and later executions of an UPDATE, a DELETE or a MERGE of crud.py
\* and merge_cdc.py change nothing: warm runs measure a statement that has nothing
\* left to do.  merge_cdc.py:87-89 says otherwise, "The MERGE accumulates state"
\* and the repetitions are not "a near-no-op".
RepeatsChangeNothing ==
    [][phase = "measure" /\ rep > 1 /\ clean /\ clean'
       /\ (wl = "merge_cdc" \/ (wl = "crud" /\ step > 1)) /\ phase' # "idle"
       => db'[eng] = db[eng]]_vars
=============================================================================
