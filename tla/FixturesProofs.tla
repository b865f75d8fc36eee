--------------------------- MODULE FixturesProofs ---------------------------
(***************************************************************************)
(* Proofs about the fixture generators, for any number of tables, any      *)
(* selections and scripts, and any number of sessions: what was never      *)
(* interrupted is complete, --overwrite repairs, and without it a complete *)
(* table is kept.                                                          *)
(***************************************************************************)
EXTENDS Fixtures, TLAPS

Jobs == [name : Generators, when : {"workload", "missing", "always", "cli"}]

\* The sessions, and where a program stands that runs none or no generator.
SessionOK ==
    /\ session \in [kind : {"idle", "run", "script"}, args : Seq(Generators),
                    queue : Seq(Jobs), overwrite : BOOLEAN]
    /\ Idle => gen = "none"
    /\ verdict # "none" => Idle
    /\ gen = "none" => i = 1 /\ ~busy
    /\ session.kind = "run" => ~session.overwrite /\ session.args \in Seq(Families)
    /\ session.kind = "script" =>
          \A n \in DOMAIN session.queue : session.queue[n].when = "cli"

Whole(content)   == \A t \in Tables : content[t] = "whole"
Uniform(content) == Whole(content) \/ \A t \in Tables : content[t] = "absent"

\* What the loop over the tables has passed is whole, and what lies before it is
\* whole or not there.
UpToTable(content, n, writing) ==
    \A t \in Tables : /\ t < n => content[t] = "whole"
                      /\ t >= n => content[t] \in {"absent", "whole"} \/ (t = n /\ writing)
UpTo(content) == UpToTable(content, i, busy)

Done == {"stamp", "queries", "none"}

\* A table that is being written is not one yet, and what it is made of is there.
WritingOK ==
    Stage = "delta" /\ busy => delta[gen][i] = "cut" /\ Source \notin {"absent", "cut"}

\* Only JOB's CSV files can be cut and still be read.
NeverShort ==
    \A f \in Families \ {"job"}, t \in Tables :
        parquet[f][t] # "short" /\ delta[f][t] # "short"

\* SSB's views are of a complete TPC-H.
ViewsWhole == gen = "ssb" /\ Stage \in {"delta"} \cup Done => Whole(delta["tpch"])

\* Overwriting leaves no table behind it that it has not written.
Overwritten ==
    session.overwrite /\ gen \in Families \ {"job"} =>
        /\ Stage = "delta" => \A t \in Tables : t < i => delta[gen][t] = "whole"
        /\ Stage \in Done => Whole(delta[gen])

\* As long as nothing was interrupted, every family is there as a whole or not at
\* all, but for what the current generator is at.
ArchiveClean == ~stopped => archive \in {"absent", "whole"}
CsvClean ==
    ~stopped =>
        IF gen = "job" /\ Stage # "download"
        THEN IF Stage = "extract"
             THEN /\ \A n \in Tables : n < i => csv[ArchiveOrder[n]] = "whole"
                  /\ i = 1 /\ ~busy => Uniform(csv)
             ELSE Whole(csv)
        ELSE Uniform(csv)
ParquetClean ==
    ~stopped =>
        /\ \A f \in Families : IF Stage = "parquet" /\ Family = f
                               THEN UpTo(parquet[f]) ELSE Uniform(parquet[f])
        /\ gen \in Families \ {"ssb"} /\ Stage \in {"delta"} \cup Done => Whole(parquet[gen])
DeltaClean ==
    ~stopped =>
        \A f \in Families :
            IF gen = f /\ Stage = "delta" THEN UpTo(delta[f])
            ELSE /\ Uniform(delta[f])
                 /\ gen = f /\ Stage \in Done => Whole(delta[f])

\* What a session was asked for is still to be done, or is complete.
Listed(queue, name) == \E n \in DOMAIN queue : queue[n].name = name
Owed(name)          == gen = name \/ Listed(session.queue, name)
Pledge(s, broken, name) ==
    \/ s.kind = "run" /\ ~broken
    \/ s.kind = "script" /\ s.overwrite /\ name # "job"
Covered ==
    \A n \in DOMAIN session.args :
        session.args[n] \in Families /\ Pledge(session, stopped, session.args[n]) =>
            Owed(session.args[n]) \/ TablesWhole(session.args[n])

IInv ==
    /\ TypeOK /\ SessionOK
    /\ WritingOK /\ NeverShort /\ ViewsWhole /\ Overwritten
    /\ ArchiveClean /\ CsvClean /\ ParquetClean /\ DeltaClean
    /\ Covered /\ UninterruptedIsWhole /\ OverwriteRepairs
-----------------------------------------------------------------------------
(* What Stages says, generator by generator.                               *)
StageAt(g, n) == IF g \in Generators /\ n <= Len(Stages[g]) THEN Stages[g][n] ELSE "none"

\* The stages of each generator, by their number.
LEMMA StageTable ==
    ASSUME NEW n \in Nat \ {0}
    PROVE  /\ StageAt("tpch_parquet", n) = IF n = 1 THEN "parquet" ELSE "none"
           /\ StageAt("tpch", n) = IF n = 1 THEN "sources" ELSE IF n = 2 THEN "delta" ELSE "none"
           /\ StageAt("tpcds", n) = IF n = 1 THEN "parquet" ELSE IF n = 2 THEN "delta"
                                    ELSE IF n = 3 THEN "queries" ELSE "none"
           /\ StageAt("ssb", n) = IF n = 1 THEN "sources" ELSE IF n = 2 THEN "delta"
                                  ELSE IF n = 3 THEN "stamp" ELSE "none"
           /\ StageAt("job", n) = IF n = 1 THEN "download" ELSE IF n = 2 THEN "extract"
                                  ELSE IF n = 3 THEN "parquet" ELSE IF n = 4 THEN "delta"
                                  ELSE "none"
           /\ Len(Stages["tpch_parquet"]) = 1 /\ Len(Stages["tpch"]) = 2
           /\ Len(Stages["tpcds"]) = 3 /\ Len(Stages["ssb"]) = 3 /\ Len(Stages["job"]) = 4
  <1>1. Stages["tpch_parquet"] = <<"parquet">> /\ Stages["tpch"] = <<"sources", "delta">>
          /\ Stages["tpcds"] = <<"parquet", "delta", "queries">> /\ Stages["ssb"] = <<"sources", "delta", "stamp">>
          /\ Stages["job"] = <<"download", "extract", "parquet", "delta">>
    BY DEF Stages
  <1> QED
    BY <1>1 DEF StageAt, Generators, Families

\* Which generators have a stage.
Having(s) ==
    CASE s = "sources" -> {"tpch", "ssb"}
      [] s = "parquet" -> {"tpch_parquet", "tpcds", "job"}
      [] s = "delta"   -> Families
      [] s = "stamp"   -> {"ssb"}
      [] s = "queries" -> {"tpcds"}
      [] OTHER         -> {"job"}

\* A stage is one of the current generator's; nobody's is none.
LEMMA StageOfGen ==
    ASSUME TypeOK
    PROVE  /\ gen = "none" => Stage = "none"
           /\ Stage \in {"sources", "download", "extract", "parquet", "delta", "stamp", "queries",
                          "none"}
           /\ Stage # "none" => gen \in Having(Stage) /\ gen \in Generators
                                 /\ stage \in Nat \ {0} /\ stage <= Len(Stages[gen])
  <1>1. CASE gen = "none"
    BY <1>1 DEF Stage, Generators, Families
  <1>2. CASE gen # "none"
    <2>1. stage \in Nat \ {0} /\ gen \in Generators /\ Stage = StageAt(gen, stage)
      <3>1. Len(Stages[gen]) \in Nat /\ gen \in Generators
        BY <1>2, StageTable DEF TypeOK, Generators, Families
      <3> QED
        BY <1>2, <3>1 DEF TypeOK, Stage, StageAt
    <2>2. Stage # "none" => stage <= Len(Stages[gen])
      BY <2>1 DEF Stage
    <2> QED
      BY <1>2, <2>1, <2>2, StageTable DEF Generators, Families, Having
  <1> QED
    BY <1>1, <1>2

\* The stage behind another.
Follows(s, g) ==
    CASE s = "sources"  -> "delta"
      [] s = "download" -> "extract"
      [] s = "extract"  -> "parquet"
      [] s = "parquet"  -> IF g = "tpch_parquet" THEN "none" ELSE "delta"
      [] s = "delta"    -> IF g = "ssb" THEN "stamp" ELSE IF g = "tpcds" THEN "queries" ELSE "none"
      [] OTHER          -> "none"

\* NextStage leads to the stage that follows.
LEMMA StageBehind ==
    ASSUME TypeOK, Stage # "none", NextStage
    PROVE  /\ Stage' = Follows(Stage, gen)
           /\ gen' = gen /\ i' = 1 /\ ~busy'
           /\ stage' \in 1..(Len(Stages[gen]) + 1)
  <1>1. stage \in Nat \ {0} /\ gen \in Generators /\ stage <= Len(Stages[gen])
    BY StageOfGen
  <1>2. gen' = gen /\ i' = 1 /\ ~busy' /\ stage' = stage + 1
    BY DEF NextStage
  <1>3. Stage = StageAt(gen, stage) /\ Stage' = StageAt(gen, stage + 1)
    BY <1>2 DEF Stage, StageAt
  <1>4. Len(Stages[gen]) \in Nat
    BY <1>1, StageTable DEF Generators, Families
  <1>5. Stage' = Follows(Stage, gen)
    <2>1. CASE gen = "tpch_parquet"
      BY <1>1, <1>3, <2>1, StageTable DEF Follows
    <2>2. CASE gen = "tpch"
      BY <1>1, <1>3, <2>2, StageTable DEF Follows
    <2>3. CASE gen = "tpcds"
      BY <1>1, <1>3, <2>3, StageTable DEF Follows
    <2>4. CASE gen = "ssb"
      BY <1>1, <1>3, <2>4, StageTable DEF Follows
    <2>5. CASE gen = "job"
      BY <1>1, <1>3, <2>5, StageTable DEF Follows
    <2> QED
      BY <1>1, <2>1, <2>2, <2>3, <2>4, <2>5 DEF Generators, Families
  <1> QED
    BY <1>1, <1>2, <1>4, <1>5

\* The stage is that of gen and stage alone.
LEMMA StageKept == UNCHANGED <<gen, stage>> => Stage' = Stage
  BY DEF Stage

\* There is a first table.
LEMMA NumberOfTables == Last \in Nat \ {0} /\ 1 \in Tables
  BY FixturesAssumption DEF FixturesAssumption, Tables

-----------------------------------------------------------------------------
(* What a step of a generator may do to the position of the program: go to  *)
(* the next stage, stay in this one, fail, or end the generator.           *)
Stays ==
    /\ UNCHANGED <<session, gen, stage, verdict, sessions, stopped>>
    /\ i' \in Tables /\ busy' \in BOOLEAN
Fails == End("failed") /\ stopped' \in {stopped, TRUE}

\* NextTable goes to the next stage, or to a table that there is.
LEMMA NextTableKinds ==
    ASSUME TypeOK, NextTable
    PROVE  NextStage \/ (Stays /\ i' = i + 1 /\ ~busy' /\ i < Last)
  <1>1. i \in 1..Last /\ Last \in Nat
    BY NumberOfTables DEF TypeOK, Tables
  <1>2. CASE i = Last
    BY <1>2 DEF NextTable
  <1>3. CASE i # Last
    <2>1. i + 1 \in Tables /\ i < Last
      BY <1>1, <1>3 DEF Tables
    <2> QED
      BY <1>3, <2>1 DEF NextTable, Stays
  <1> QED
    BY <1>2, <1>3

\* StayAt changes nothing but busy.
LEMMA StayAtKind ==
    ASSUME TypeOK, NEW b \in BOOLEAN, StayAt(b)
    PROVE  Stays /\ i' = i /\ busy' = b
  BY DEF TypeOK, StayAt, Stays

\* Every step of a generator is of one of four kinds.
LEMMA GenerateKinds ==
    ASSUME TypeOK, Generate
    PROVE  /\ Working
           /\ (Stage # "none" /\ NextStage) \/ Stays \/ Fails \/ GeneratorReturns
  <1> USE NextTableKinds, StayAtKind DEF Fails
  <1>1. CASE CheckSources
    BY <1>1 DEF CheckSources, Fail
  <1>2. CASE SkipParquet
    BY <1>2 DEF SkipParquet
  <1>3. CASE StartParquet \/ FinishParquet
    BY <1>3 DEF StartParquet, FinishParquet
  <1>4. CASE CsvRefused
    BY <1>4 DEF CsvRefused, Fail
  <1>5. CASE Download
    BY <1>5 DEF Download
  <1>6. CASE Extract
    BY <1>6 DEF Extract
  <1>7. CASE SkipTable \/ RemoveTable
    BY <1>7 DEF SkipTable, RemoveTable, AtDelta
  <1>8. CASE SourceRaises
    BY <1>8 DEF SourceRaises, AtDelta, Fail
  <1>9. CASE StartTable \/ CommitTable
    BY <1>9 DEF StartTable, CommitTable, AtDelta
  <1>10. CASE Stamp
    BY <1>10 DEF Stamp
  <1>11. CASE ExtractQueries
    BY <1>11 DEF ExtractQueries
  <1>12. CASE GeneratorReturns
    BY <1>12 DEF GeneratorReturns
  <1> QED
    BY <1>1, <1>2, <1>3, <1>4, <1>5, <1>6, <1>7, <1>8, <1>9, <1>10, <1>11, <1>12 DEF Generate

\* Only a generator touches what is on disk.
FilesOK ==
    /\ parquet \in [Families -> [Tables -> Contents]]
    /\ delta \in [Families -> [Tables -> Contents]]
    /\ stamp \in BOOLEAN
    /\ archive \in Contents
    /\ csv \in [Tables -> Contents \ {"cut"}]
    /\ queries \in Contents \ {"cut"}
ControlOK ==
    /\ gen \in Generators \cup {"none"}
    /\ gen # "none" => stage \in 1..(Len(Stages[gen]) + 1)
    /\ i \in Tables
    /\ busy \in BOOLEAN
    /\ verdict \in {"none", "ready", "refused", "done", "failed"}
    /\ sessions \in 0..MaxSessions
    /\ stopped \in BOOLEAN
    /\ SessionOK

\* TypeOK and SessionOK, regrouped: the disk and the program.
LEMMA TypeParts == (TypeOK /\ SessionOK) <=> (FilesOK /\ ControlOK)
  BY DEF TypeOK, SessionOK, FilesOK, ControlOK

(* What a generator writes is a content.                                   *)
LEMMA GenerateFiles ==
    ASSUME TypeOK, Generate
    PROVE  FilesOK'
  <1> USE DEF TypeOK, FilesOK, Contents
  <1>f. Stage = "parquet" => Family \in Families
    BY StageOfGen DEF Family, Having, Generators, Families
  <1>d. Stage = "delta" => gen \in Families /\ Source \in Contents
    <2>1. Stage = "delta" => gen \in Families
      BY StageOfGen DEF Having
    <2> QED
      BY <2>1 DEF Source
  <1>1. CASE CheckSources \/ SkipParquet \/ CsvRefused \/ SkipTable \/ SourceRaises \/ GeneratorReturns
    BY <1>1 DEF CheckSources, SkipParquet, CsvRefused, SkipTable, SourceRaises, GeneratorReturns,
                Fail, files
  <1>2. CASE StartParquet
    BY <1>2, <1>f DEF StartParquet
  <1>3. CASE FinishParquet
    BY <1>3, <1>f DEF FinishParquet
  <1>4. CASE Download
    BY <1>4 DEF Download, files
  <1>5. CASE Extract
    BY <1>5, FixturesAssumption DEF Extract, FixturesAssumption
  <1>6. CASE RemoveTable
    <2>1. PICK c \in {"absent", "cut"} : delta' = [delta EXCEPT ![gen][i] = c]
      BY <1>6 DEF RemoveTable
    <2> QED
      BY <1>6, <1>d, <2>1 DEF RemoveTable, AtDelta
  <1>7. CASE StartTable
    BY <1>7, <1>d DEF StartTable, AtDelta
  <1>8. CASE CommitTable
    BY <1>8, <1>d DEF CommitTable
  <1>9. CASE Stamp
    BY <1>9 DEF Stamp
  <1>10. CASE ExtractQueries
    BY <1>10 DEF ExtractQueries
  <1> QED
    BY <1>1, <1>2, <1>3, <1>4, <1>5, <1>6, <1>7, <1>8, <1>9, <1>10 DEF Generate

(* A session that ends leaves no generator behind.                         *)
LEMMA EndControl ==
    ASSUME ControlOK, NEW how \in {"ready", "refused", "done", "failed"}, End(how),
           stopped' \in BOOLEAN
    PROVE  ControlOK'
  <1>1. <<>> \in Seq(Jobs)
    OBVIOUS
  <1>2. session' = [session EXCEPT !.kind = "idle", !.queue = <<>>]
          /\ gen' = "none" /\ stage' = 0 /\ i' = 1 /\ ~busy' /\ busy' \in BOOLEAN /\ verdict' = how
          /\ sessions' = sessions
    BY DEF End
  <1>3. session'.kind = "idle" /\ session' \in [kind : {"idle", "run", "script"}, args : Seq(Generators),
                    queue : Seq(Jobs), overwrite : BOOLEAN]
    BY <1>1, <1>2 DEF ControlOK, SessionOK
  <1> QED
    BY <1>2, <1>3, NumberOfTables DEF ControlOK, SessionOK, Idle

\* A step of a generator leaves the program in a place it can be in.
LEMMA GenerateControl ==
    ASSUME TypeOK, SessionOK, Generate
    PROVE  ControlOK'
  <1>0. ControlOK /\ Working
    BY TypeParts, GenerateKinds
  <1>1. CASE Stage # "none" /\ NextStage
    BY <1>0, <1>1, StageBehind, NumberOfTables DEF ControlOK, SessionOK, NextStage, Idle, Working
  <1>2. CASE Stays
    BY <1>0, <1>2 DEF ControlOK, SessionOK, Stays, Idle, Working
  <1>3. CASE Fails
    BY <1>0, <1>3, EndControl DEF Fails, ControlOK
  <1>4. CASE GeneratorReturns
    BY <1>0, <1>4, NumberOfTables DEF ControlOK, SessionOK, GeneratorReturns, Idle
  <1> QED
    BY <1>1, <1>2, <1>3, <1>4, GenerateKinds

(* The queue holds jobs, expanded or not.                                  *)
LEMMA JobList ==
    ASSUME NEW S, NEW names \in Seq(S), NEW when, S \subseteq Generators,
           when \in {"workload", "missing", "always", "cli"}
    PROVE  LET q == [n \in DOMAIN names |-> Job(names[n], when)]
           IN  /\ q \in Seq(Jobs) /\ DOMAIN q = DOMAIN names
               /\ \A n \in DOMAIN q : q[n].name = names[n] /\ q[n].when = when
  <1> DEFINE q == [n \in DOMAIN names |-> Job(names[n], when)]
  <1>1. \A n \in DOMAIN names : names[n] \in Generators
    OBVIOUS
  <1>2. \A n \in DOMAIN names : Job(names[n], when) \in Jobs
    BY <1>1 DEF Job, Jobs
  <1>3. DOMAIN names = 1..Len(names) /\ Len(names) \in Nat
    OBVIOUS
  <1>4. q \in [1..Len(names) -> Jobs]
    BY <1>2, <1>3
  <1>5. q \in Seq(Jobs)
    BY <1>3, <1>4
  <1> QED
    BY <1>5 DEF Job

(* What a workload is expanded to contains its own generator.             *)
LEMMA Expanded ==
    ASSUME NEW name \in Generators
    PROVE  /\ Expand(name) \in Seq(Jobs)
           /\ \A n \in DOMAIN Expand(name) : Expand(name)[n].when \in {"missing", "always"}
           /\ \E n \in DOMAIN Expand(name) : Expand(name)[n].name = name
  <1> DEFINE a == Job("tpch_parquet", "missing")
             b == Job("tpch", "missing")
             c == Job(name, "always")
  <1>1. a \in Jobs /\ b \in Jobs /\ c \in Jobs
    BY DEF Job, Jobs, Generators, Families
  <1>2. /\ a.when = "missing" /\ b.when = "missing" /\ c.when = "always"
        /\ b.name = "tpch" /\ c.name = name
    BY DEF Job
  <1>3. Expand(name) = IF name = "tpch" THEN <<a, b>>
                       ELSE IF name = "ssb" THEN <<a, b, c>> ELSE <<c>>
    BY DEF Expand
  <1> HIDE DEF a, b, c
  <1>4. /\ <<a, b>> \in Seq(Jobs) /\ Len(<<a, b>>) = 2
        /\ <<a, b>>[1] = a /\ <<a, b>>[2] = b
    BY <1>1
  <1>5. /\ <<a, b, c>> \in Seq(Jobs) /\ Len(<<a, b, c>>) = 3
        /\ <<a, b, c>>[1] = a /\ <<a, b, c>>[2] = b /\ <<a, b, c>>[3] = c
    BY <1>1
  <1>6. CASE name = "tpch"
    <2> DEFINE q == <<a, b>>
    <2>1. q = Expand(name)
      BY <1>3, <1>6
    <2> HIDE DEF q
    <2>2. q \in Seq(Jobs) /\ Len(q) = 2 /\ q[1] = a /\ q[2] = b
      BY <1>4 DEF q
    <2>3. DOMAIN q = {1, 2}
      BY <2>2
    <2> QED
      BY <1>2, <1>6, <2>1, <2>2, <2>3
  <1>7. CASE name = "ssb"
    <2> DEFINE q == <<a, b, c>>
    <2>1. q = Expand(name)
      BY <1>3, <1>7
    <2> HIDE DEF q
    <2>3. q \in Seq(Jobs) /\ Len(q) = 3 /\ q[1] = a /\ q[2] = b /\ q[3] = c
      BY <1>5 DEF q
    <2>4. DOMAIN q = 1..3
      BY <2>3
    <2> QED
      BY <1>2, <1>7, <2>1, <2>3, <2>4
  <1>8. CASE name \notin {"tpch", "ssb"}
    <2>1. Expand(name) = <<c>>
      BY <1>3, <1>8
    <2> QED
      BY <1>1, <1>2, <2>1
  <1> QED
    BY <1>6, <1>7, <1>8

(* A program that is started, takes its next job, ends or is stopped.       *)
LEMMA StartControl ==
    ASSUME ControlOK, NEW kind \in {"run", "script"}, NEW args \in Seq(Generators),
           NEW queue \in Seq(Jobs), NEW overwrite \in BOOLEAN,
           Start(kind, args, queue, overwrite),
           kind = "run" => ~overwrite /\ args \in Seq(Families),
           kind = "script" => \A n \in DOMAIN queue : queue[n].when = "cli"
    PROVE  ControlOK'
  <1>1. session' = [kind |-> kind, args |-> args, queue |-> queue, overwrite |-> overwrite]
    BY DEF Start
  <1>2. sessions' \in 0..MaxSessions
    BY FixturesAssumption DEF Start, ControlOK, FixturesAssumption
  <1> QED
    BY <1>1, <1>2 DEF Start, ControlOK, SessionOK, Idle

\* So does the start of the runner,
LEMMA RunStarts ==
    ASSUME ControlOK, NEW sel \in Selections, StartRun(sel)
    PROVE  ControlOK'
  <1>1. sel \in Seq(Families) /\ Families \subseteq Generators
    BY FixturesAssumption DEF FixturesAssumption, Generators
  <1>2. sel \in Seq(Generators)
    BY <1>1
  <1> QED
    <2> DEFINE queue == [n \in DOMAIN sel |-> Job(sel[n], "workload")]
    <2>1. queue \in Seq(Jobs)
      BY <1>1, JobList
    <2>2. Start("run", sel, queue, FALSE)
      BY DEF StartRun
    <2> HIDE DEF queue
    <2> QED
      BY <1>1, <1>2, <2>1, <2>2, StartControl

\* and the start of a script.
LEMMA ScriptStarts ==
    ASSUME ControlOK, NEW script \in Scripts, NEW overwrite \in BOOLEAN,
           StartScript(script, overwrite)
    PROVE  ControlOK'
  <1>1. script \in Seq(Generators)
    BY FixturesAssumption DEF FixturesAssumption
  <1> QED
    BY <1>1, JobList, StartControl DEF StartScript

\* The queue, its first job and the others.
LEMMA HeadAndTail ==
    ASSUME ControlOK, session.queue # <<>>
    PROVE  /\ Head(session.queue) \in Jobs /\ Tail(session.queue) \in Seq(Jobs)
           /\ Head(session.queue) = session.queue[1]
           /\ 1 \in DOMAIN session.queue
           /\ \A n \in DOMAIN Tail(session.queue) :
                 n + 1 \in DOMAIN session.queue /\ Tail(session.queue)[n] = session.queue[n + 1]
           /\ \A n \in DOMAIN session.queue \ {1} :
                 n - 1 \in DOMAIN Tail(session.queue) /\ Tail(session.queue)[n - 1] = session.queue[n]
  <1>1. session.queue \in Seq(Jobs)
    BY DEF ControlOK, SessionOK
  <1> QED
    BY <1>1

(* The families of a job, and the three things that happen to the first.   *)
LEMMA NextJobKinds ==
    ASSUME ControlOK, NextJob
    PROVE  LET job == Head(session.queue)
               rest == Tail(session.queue)
           IN  /\ session.queue # <<>> /\ Between
               /\ UNCHANGED <<files, i, busy, verdict, sessions, stopped>>
               /\ \/ /\ Skipped(job) /\ session' = [session EXCEPT !.queue = rest]
                     /\ UNCHANGED <<gen, stage>>
                  \/ /\ ~Skipped(job) /\ job.when = "workload"
                     /\ session' = [session EXCEPT !.queue = Expand(job.name) \o rest]
                     /\ UNCHANGED <<gen, stage>>
                  \/ /\ ~Skipped(job) /\ job.when # "workload"
                     /\ session' = [session EXCEPT !.queue = rest]
                     /\ gen' = job.name /\ stage' = 1
  BY DEF NextJob

(* Every step leaves the program in a place it can be in.                   *)
LEMMA NextJobControl ==
    ASSUME ControlOK, NextJob
    PROVE  ControlOK'
  <1> DEFINE job == Head(session.queue)
             rest == Tail(session.queue)
  <1>1. /\ session.queue # <<>> /\ Between
        /\ UNCHANGED <<i, busy, verdict, sessions, stopped>>
    BY NextJobKinds
  <1>2. job \in Jobs /\ rest \in Seq(Jobs) /\ session.queue \in Seq(Jobs)
          /\ job = session.queue[1] /\ 1 \in DOMAIN session.queue
    BY <1>1, HeadAndTail DEF ControlOK, SessionOK
  <1>3. ASSUME session.kind = "script"
        PROVE  job.when = "cli" /\ \A n \in DOMAIN rest : rest[n].when = "cli"
    BY <1>1, <1>2, <1>3, HeadAndTail DEF ControlOK, SessionOK
  <1>4. CASE session' = [session EXCEPT !.queue = rest] /\ UNCHANGED <<gen, stage>>
    <2> HIDE DEF rest
    <2> QED
      BY <1>1, <1>2, <1>3, <1>4 DEF ControlOK, SessionOK, Idle, Between
  <1>5. CASE /\ job.when = "workload"
             /\ session' = [session EXCEPT !.queue = Expand(job.name) \o rest]
             /\ UNCHANGED <<gen, stage>>
    <2> DEFINE q == Expand(job.name) \o rest
    <2>1. q \in Seq(Jobs)
      <3>1. Expand(job.name) \in Seq(Jobs)
        BY <1>2, Expanded DEF Jobs
      <3> HIDE DEF job, rest
      <3> QED
        BY <1>2, <3>1
    <2>2. session.kind # "script"
      BY <1>3, <1>5
    <2> HIDE DEF q, job, rest
    <2>3. session' = [session EXCEPT !.queue = q]
      BY <1>5 DEF q
    <2> QED
      BY <1>1, <1>5, <2>1, <2>2, <2>3 DEF ControlOK, SessionOK, Idle, Between
  <1>6. CASE /\ session' = [session EXCEPT !.queue = rest]
             /\ gen' = job.name /\ stage' = 1
    <2>1. job.name \in Generators /\ "none" \notin Generators
      BY <1>2 DEF Jobs, Generators, Families
    <2>2. 1 \in 1..(Len(Stages[job.name]) + 1)
      BY <2>1, StageTable DEF Generators, Families
    <2> HIDE DEF rest, job
    <2> QED
      BY <1>1, <1>2, <1>3, <1>6, <2>1, <2>2 DEF ControlOK, SessionOK, Idle, Between
  <1> QED
    BY <1>4, <1>5, <1>6, NextJobKinds

\* A session ends with the verdict its kind and its files deserve.
LEMMA EndSessionEnds ==
    ASSUME EndSession
    PROVE  /\ Between /\ session.queue = <<>> /\ UNCHANGED <<files, stopped>>
           /\ \E how \in {"done", "ready", "refused"} :
                 /\ End(how)
                 /\ how = "done" => session.kind = "script"
                 /\ how = "ready" => session.kind # "script"
                        /\ \A n \in DOMAIN session.args : Staged(session.args[n])
  <1>1. Between /\ session.queue = <<>> /\ UNCHANGED <<files, stopped>>
    BY DEF EndSession
  <1>2. CASE session.kind = "script"
    <2>1. End("done")
      BY <1>2 DEF EndSession
    <2> QED
      BY <1>1, <1>2, <2>1
  <1>3. CASE session.kind # "script" /\ \A n \in DOMAIN session.args : Staged(session.args[n])
    <2>1. End("ready")
      BY <1>3 DEF EndSession
    <2> QED
      BY <1>1, <1>3, <2>1
  <1>4. CASE session.kind # "script" /\ ~\A n \in DOMAIN session.args : Staged(session.args[n])
    <2>1. End("refused")
      BY <1>4 DEF EndSession
    <2> QED
      BY <1>1, <1>4, <2>1
  <1> QED
    BY <1>2, <1>3, <1>4

\* The contents stay contents.
LEMMA FilesKept == (FilesOK /\ UNCHANGED files) => FilesOK'
  BY DEF FilesOK, files

\* The types hold at the start,
LEMMA InitTypes == Init => TypeOK /\ SessionOK
  <1>1. <<>> \in Seq(Jobs) /\ <<>> \in Seq(Generators)
    OBVIOUS
  <1> SUFFICES ASSUME Init PROVE TypeOK /\ SessionOK
    OBVIOUS
  <1>2. 0 \in 0..MaxSessions
    BY FixturesAssumption DEF FixturesAssumption
  <1>3. TypeOK
    <2>1. session.kind = "idle"
      BY DEF Init, Nobody
    <2> QED
      BY <1>2, <2>1, NumberOfTables DEF Init, TypeOK, Contents
  <1>4. SessionOK
    <2>1. Nobody \in [kind : {"idle", "run", "script"}, args : Seq(Generators),
                      queue : Seq(Jobs), overwrite : BOOLEAN]
      BY <1>1 DEF Nobody
    <2>2. Nobody.kind = "idle"
      BY DEF Nobody
    <2> HIDE DEF Nobody
    <2> QED
      BY <2>1, <2>2 DEF Init, SessionOK, Idle
  <1> QED
    BY <1>3, <1>4

\* and after every step.
LEMMA NextTypes ==
    ASSUME TypeOK, SessionOK, [Next]_vars
    PROVE  TypeOK' /\ SessionOK'
  <1>1. FilesOK /\ ControlOK
    BY TypeParts
  <1>2. FilesOK' /\ ControlOK'
    <2>1. CASE \E sel \in Selections : StartRun(sel)
      BY <1>1, <2>1, RunStarts, FilesKept DEF StartRun, Start
    <2>2. CASE \E script \in Scripts, overwrite \in BOOLEAN : StartScript(script, overwrite)
      BY <1>1, <2>2, ScriptStarts, FilesKept DEF StartScript, Start
    <2>3. CASE NextJob
      BY <1>1, <2>3, NextJobControl, FilesKept DEF NextJob
    <2>4. CASE EndSession
      BY <1>1, <2>4, EndSessionEnds, EndControl, FilesKept DEF ControlOK
    <2>5. CASE Generate
      BY <2>5, GenerateFiles, GenerateControl
    <2>6. CASE Stop
      BY <1>1, <2>6, EndControl, FilesKept DEF Stop
    <2>7. CASE UNCHANGED vars
      BY <1>1, <2>7, FilesKept DEF vars, control, ControlOK, SessionOK, Idle
    <2> QED
      BY <2>1, <2>2, <2>3, <2>4, <2>5, <2>6, <2>7 DEF Next, Step
  <1>3. (TypeOK /\ SessionOK)'
    BY <1>2 DEF TypeOK, SessionOK, FilesOK, ControlOK
  <1> QED
    BY <1>3

(* The steps that are not a generator's leave the disk alone; after them no *)
(* generator runs, or one is at its first stage.                            *)
Launched(name) ==
    /\ gen' = name /\ stage' = 1 /\ i' = 1 /\ ~busy'
    /\ gen = "none" /\ stopped' = stopped /\ session.kind # "idle"
Quits ==
    /\ gen' = "none" /\ i' = 1 /\ ~busy'
    /\ (gen = "none" /\ stopped' = stopped) \/ stopped' = TRUE

\* A step that is not a generator's starts one, leaves none, or does nothing.
LEMMA OutsideKinds ==
    ASSUME TypeOK, SessionOK, [Next]_vars, ~Generate
    PROVE  /\ UNCHANGED files
           /\ \/ UNCHANGED vars
              \/ \E name \in Generators : Launched(name)
              \/ Quits
  <1>0. gen = "none" => i = 1 /\ ~busy
    BY DEF SessionOK
  <1>1. CASE \E sel \in Selections : StartRun(sel)
    BY <1>0, <1>1 DEF StartRun, Start, Quits, SessionOK, files
  <1>2. CASE \E script \in Scripts, overwrite \in BOOLEAN : StartScript(script, overwrite)
    BY <1>0, <1>2 DEF StartScript, Start, Quits, SessionOK, files
  <1>3. CASE NextJob
    <2>1. ControlOK
      BY TypeParts
    <2>2. session.queue # <<>> /\ Between /\ UNCHANGED <<files, i, busy, stopped>>
            /\ (gen' = gen \/ (gen' = Head(session.queue).name /\ stage' = 1))
      BY <1>3, <2>1, NextJobKinds
    <2>3. Head(session.queue).name \in Generators
      BY <2>1, <2>2, HeadAndTail DEF Jobs
    <2> QED
      BY <1>0, <2>2, <2>3 DEF Between, Idle, Quits, Launched
  <1>4. CASE EndSession
    BY <1>4, EndSessionEnds DEF End, Between, Quits
  <1>5. CASE Stop
    BY <1>5 DEF Stop, End, Quits
  <1>6. CASE UNCHANGED vars
    BY <1>6 DEF vars
  <1> QED
    BY <1>1, <1>2, <1>3, <1>4, <1>5, <1>6 DEF Next, Step

\* The stage at which a generator starts.
LEMMA StageLaunched ==
    ASSUME NEW name \in Generators, Launched(name)
    PROVE  /\ Stage' = IF name \in {"tpch", "ssb"} THEN "sources"
                       ELSE IF name = "job" THEN "download" ELSE "parquet"
           /\ gen' = name
  <1>1. Stage' = StageAt(name, 1) /\ gen' = name
    BY DEF Launched, Stage, StageAt
  <1> QED
    BY <1>1, StageTable DEF Generators, Families

\* Without a generator there is no stage.
LEMMA StageNobody ==
    gen' = "none" => Stage' = "none"
  BY DEF Stage, Generators, Families

\* A stuttering step leaves everything derived from the variables alone.
LEMMA StageUnchanged ==
    UNCHANGED vars => UNCHANGED <<files, session, gen, stage, i, busy, verdict, stopped, Stage, Family>>
  BY DEF vars, control, Stage, Family, files

(* The loop over the tables goes on, or is over.                           *)
LEMMA TableMoves ==
    ASSUME TypeOK, Stage # "none", NextTable
    PROVE  /\ \/ i = Last /\ i' = 1 /\ Stage' = Follows(Stage, gen)
              \/ i < Last /\ i' = i + 1 /\ Stage' = Stage
           /\ ~busy' /\ UNCHANGED <<session, gen, verdict, stopped>>
  <1>1. CASE i = Last
    BY <1>1, StageBehind DEF NextTable, NextStage
  <1>2. CASE i # Last
    <2>1. i < Last
      BY <1>2, NumberOfTables DEF TypeOK, Tables
    <2> QED
      BY <1>2, <2>1, StageKept DEF NextTable
  <1> QED
    BY <1>1, <1>2

\* NextStage, as the stages see it.
LEMMA StageMoves ==
    ASSUME TypeOK, Stage # "none", NextStage
    PROVE  /\ i' = 1 /\ Stage' = Follows(Stage, gen) /\ ~busy'
           /\ UNCHANGED <<session, gen, verdict, stopped>>
  BY StageBehind DEF NextStage

\* StayAt, as the stages see it.
LEMMA StageStays ==
    ASSUME NEW b \in BOOLEAN, StayAt(b)
    PROVE  Stage' = Stage /\ busy' = b /\ UNCHANGED <<session, gen, i, verdict, stopped>>
  BY StageKept DEF StayAt

(* Where a step of a generator leads, and which stage it belongs to.       *)
LEMMA Failing == End("failed") => gen' = "none" /\ ~busy' /\ i' = 1 /\ Stage' = "none"
  BY StageNobody DEF End

-----------------------------------------------------------------------------
(* A table that is being written.                                          *)
LEMMA WritingKept ==
    ASSUME TypeOK, SessionOK, WritingOK, [Next]_vars
    PROVE  WritingOK'
  <1>1. CASE ~Generate
    <2>1. CASE UNCHANGED vars
      <3>1. Source' = Source
        BY <2>1, StageUnchanged DEF Source, files
      <3> QED
        BY <2>1, <3>1, StageUnchanged DEF WritingOK, files
    <2> QED
      BY <1>1, <2>1, OutsideKinds DEF Launched, Quits, WritingOK
  <1>2. CASE StartTable
    <2>1. gen \in Families /\ Stage = "delta" /\ Stage' = Stage /\ UNCHANGED <<gen, i, parquet>>
      BY <1>2, StageOfGen, StageStays DEF StartTable, AtDelta, Having
    <2>2. delta'[gen][i] = "cut"
      BY <1>2, <2>1 DEF StartTable, TypeOK
    <2>3. Source' \notin {"absent", "cut"}
      <3>1. CASE gen = "ssb"
        BY <2>1, <3>1 DEF Source
      <3>2. CASE gen # "ssb"
        BY <1>2, <2>1, <3>2 DEF Source, StartTable
      <3> QED
        BY <3>1, <3>2
    <2> QED
      BY <2>1, <2>2, <2>3 DEF WritingOK
  <1>3. CASE Generate /\ ~StartTable
    <2> SUFFICES ASSUME busy', Stage' = "delta"
                 PROVE  FALSE
      BY DEF WritingOK
    <2> USE <1>3, StageMoves, TableMoves, StageStays, Failing
    <2>1. CASE CheckSources
      BY <2>1 DEF CheckSources, Fail
    <2>2. CASE SkipParquet \/ StartParquet \/ FinishParquet
      BY <2>2 DEF SkipParquet, StartParquet, FinishParquet
    <2>3. CASE CsvRefused \/ SourceRaises
      BY <2>3 DEF CsvRefused, SourceRaises, Fail
    <2>4. CASE Download \/ Extract
      BY <2>4 DEF Download, Extract
    <2>5. CASE SkipTable \/ RemoveTable \/ CommitTable
      BY <2>5 DEF SkipTable, RemoveTable, CommitTable, AtDelta
    <2>6. CASE Stamp \/ ExtractQueries \/ GeneratorReturns
      BY <2>6 DEF Stamp, ExtractQueries, GeneratorReturns
    <2> QED
      BY <2>1, <2>2, <2>3, <2>4, <2>5, <2>6 DEF Generate
  <1> QED
    BY <1>1, <1>2, <1>3

(* Which stage a generator's step belongs to, and the files it touches.     *)
LEMMA StageOfStep ==
    /\ CheckSources => Stage = "sources" /\ UNCHANGED files
    /\ SkipParquet \/ CsvRefused => Stage = "parquet" /\ UNCHANGED files
    /\ StartParquet \/ FinishParquet => Stage = "parquet" /\ UNCHANGED <<delta, stamp, archive, csv>>
    /\ Download => Stage = "download" /\ UNCHANGED <<parquet, delta, stamp, csv>>
    /\ Extract => Stage = "extract" /\ UNCHANGED <<parquet, delta, stamp, archive>>
    /\ SkipTable \/ SourceRaises => Stage = "delta" /\ UNCHANGED files
    /\ RemoveTable \/ StartTable \/ CommitTable =>
          Stage = "delta" /\ UNCHANGED <<parquet, stamp, archive, csv>>
    /\ Stamp => Stage = "stamp" /\ UNCHANGED <<parquet, delta, archive, csv>>
    /\ ExtractQueries => Stage = "queries" /\ UNCHANGED <<parquet, delta, stamp, archive, csv>>
    /\ GeneratorReturns => Stage = "none" /\ UNCHANGED files
  BY DEF CheckSources, SkipParquet, CsvRefused, StartParquet, FinishParquet, Download, Extract,
         SkipTable, SourceRaises, RemoveTable, StartTable, CommitTable, Stamp, ExtractQueries,
         GeneratorReturns, AtDelta, Fail, files

(* What a step does to the tables of the current generator and no other.    *)
LEMMA DeltaStep ==
    ASSUME TypeOK, Generate, delta' # delta
    PROVE  /\ gen \in Families /\ Stage = "delta"
           /\ \E c \in Contents :
                 /\ delta' = [delta EXCEPT ![gen][i] = c]
                 /\ \/ c = "absent" /\ session.overwrite /\ RemoveTable
                    \/ c = "cut" /\ RemoveTable /\ session.overwrite /\ stopped'
                    \/ c = "cut" /\ StartTable /\ delta[gen][i] = "absent"
                    \/ c = Source /\ CommitTable
  <1>1. RemoveTable \/ StartTable \/ CommitTable
    BY StageOfStep DEF Generate, files
  <1>2. gen \in Families /\ Stage = "delta"
    BY <1>1, StageOfStep, StageOfGen DEF Having
  <1>3. Source \in Contents
    BY <1>2 DEF Source, TypeOK, Contents
  <1>4. CASE RemoveTable
    BY <1>2, <1>4 DEF RemoveTable, Contents
  <1>5. CASE StartTable
    BY <1>2, <1>5 DEF StartTable, Contents
  <1>6. CASE CommitTable
    BY <1>2, <1>3, <1>6 DEF CommitTable
  <1> QED
    BY <1>1, <1>4, <1>5, <1>6

(* What is made of a source is whole, where the source cannot be cut.       *)
LEMMA SourceWhole ==
    ASSUME TypeOK, NeverShort, ViewsWhole, WritingOK, gen \in Families \ {"job"},
           Stage = "delta", busy
    PROVE  Source = "whole"
  <1>1. Source \notin {"absent", "cut"}
    BY DEF WritingOK
  <1>2. CASE gen = "ssb"
    BY <1>2 DEF ViewsWhole, Whole, Source
  <1>3. CASE gen # "ssb"
    BY <1>1, <1>3 DEF Source, NeverShort, TypeOK, Contents
  <1> QED
    BY <1>2, <1>3

\* A source that is whole makes a table that is whole; only JOB has other sources.
LEMMA NeverShortKept ==
    ASSUME TypeOK, SessionOK, WritingOK, NeverShort, ViewsWhole, [Next]_vars
    PROVE  NeverShort'
  <1>1. ASSUME NEW f \in Families \ {"job"}, NEW t \in Tables
        PROVE  delta'[f][t] # "short"
    <2>1. CASE delta' = delta
      BY <2>1 DEF NeverShort
    <2>2. CASE delta' # delta
      <3>1. Generate
        BY <2>2, OutsideKinds DEF files
      <3>2. PICK c \in Contents : /\ delta' = [delta EXCEPT ![gen][i] = c]
                                  /\ c = "short" => c = Source /\ CommitTable
        BY <2>2, <3>1, DeltaStep
      <3>3. gen \in Families /\ Stage = "delta"
        BY <2>2, <3>1, DeltaStep
      <3>4. gen # "job" => c # "short"
        BY <3>2, <3>3, SourceWhole DEF CommitTable
      <3> QED
        BY <3>2, <3>3, <3>4 DEF NeverShort, TypeOK
    <2> QED
      BY <2>1, <2>2
  <1>2. ASSUME NEW f \in Families \ {"job"}, NEW t \in Tables
        PROVE  parquet'[f][t] # "short"
    <2>1. CASE parquet' = parquet
      BY <2>1 DEF NeverShort
    <2>2. CASE parquet' # parquet
      <3>1. StartParquet \/ FinishParquet
        BY <2>2, OutsideKinds, StageOfStep DEF Generate, files
      <3>2. Family \in Families
        BY <3>1, StageOfStep, StageOfGen DEF Family, Having, Families
      <3>3. PICK c : /\ parquet' = [parquet EXCEPT ![Family][i] = c]
                     /\ gen # "job" => c \in {"cut", "whole", parquet[Family][i]}
        BY <3>1 DEF StartParquet, FinishParquet
      <3>4. Family = "job" <=> gen = "job"
        BY DEF Family
      <3> QED
        BY <3>2, <3>3, <3>4 DEF NeverShort, TypeOK
    <2> QED
      BY <2>1, <2>2
  <1> QED
    BY <1>1, <1>2 DEF NeverShort

(* Where the generator stands after a step.                                *)
LEMMA StageAfter ==
    ASSUME TypeOK, Generate
    PROVE  \/ Stage' = Stage /\ UNCHANGED <<gen, session, verdict, stopped>>
           \/ /\ Stage # "none" /\ Stage' = Follows(Stage, gen) /\ i' = 1 /\ ~busy'
              /\ UNCHANGED <<gen, session, verdict, stopped>>
           \/ gen' = "none" /\ Stage' = "none"
  <1>1. GeneratorReturns => gen' = "none"
    BY DEF GeneratorReturns
  <1> QED
    BY <1>1, GenerateKinds, StageMoves, StageKept, Failing, StageNobody DEF Stays, Fails

(* SSB is past its check only with all of TPC-H behind it.                 *)
LEMMA ViewsWholeKept ==
    ASSUME TypeOK, SessionOK, WritingOK, NeverShort, ViewsWhole, [Next]_vars
    PROVE  ViewsWhole'
  <1> SUFFICES ASSUME gen' = "ssb", Stage' \in {"delta"} \cup Done
               PROVE  Whole(delta'["tpch"])
    BY DEF ViewsWhole, Whole
  <1>1. CASE ~Generate
    <2>1. UNCHANGED vars
      BY <1>1, OutsideKinds, StageLaunched DEF Quits, Done
    <2> QED
      BY <2>1, StageUnchanged DEF ViewsWhole, files
  <1>2. CASE Generate
    <2>1. gen = "ssb" /\ (Stage' = Stage \/ (Stage # "none" /\ Stage' = Follows(Stage, gen)))
      BY <1>2, StageAfter
    <2>2. CASE Stage \in {"delta"} \cup Done
      <3>1. Whole(delta["tpch"])
        BY <2>1, <2>2 DEF ViewsWhole
      <3>2. delta'["tpch"] = delta["tpch"]
        <4>1. delta' # delta => \E c \in Contents : delta' = [delta EXCEPT !["ssb"][i] = c]
          BY <1>2, <2>1, DeltaStep
        <4> QED
          BY <4>1 DEF TypeOK, Families
      <3> QED
        BY <3>1, <3>2
    <2>3. CASE Stage = "sources"
      <3>1. CheckSources
        BY <1>2, <2>3, StageOfStep DEF Generate
      <3>2. SourcesFound
        BY <2>1, <3>1, Failing DEF CheckSources, Fail
      <3>3. \A t \in Tables : delta["tpch"][t] \in Contents /\ delta["tpch"][t] # "short"
        BY DEF NeverShort, TypeOK, Families
      <3>4. \A t \in Tables : delta["tpch"][t] \notin {"absent", "cut"}
        BY <2>1, <3>2 DEF SourcesFound
      <3>5. delta' = delta
        BY <3>1, StageOfStep DEF files
      <3> QED
        BY <3>3, <3>4, <3>5 DEF Whole, Contents
    <2>4. Stage \in {"sources", "delta"} \cup Done
      BY <2>1, StageOfGen DEF Having, Done
    <2> QED
      BY <2>2, <2>3, <2>4
  <1> QED
    BY <1>1, <1>2

(* What overwriting has passed, it has written.                            *)
LEMMA OverwrittenKept ==
    ASSUME TypeOK, SessionOK, WritingOK, NeverShort, ViewsWhole, Overwritten, [Next]_vars
    PROVE  Overwritten'
  <1> SUFFICES ASSUME session'.overwrite, gen' \in Families \ {"job"}
               PROVE  /\ Stage' = "delta" => \A t \in Tables : t < i' => delta'[gen'][t] = "whole"
                      /\ Stage' \in Done => Whole(delta'[gen'])
    BY DEF Overwritten, Whole
  <1>a. Tables \subseteq Nat \ {0} /\ Last \in Nat /\ i \in Tables /\ Tables = 1..Last
    BY NumberOfTables DEF Tables, TypeOK
  <1>1. CASE ~Generate
    <2>1. CASE UNCHANGED vars
      BY <2>1, StageUnchanged DEF Overwritten, files
    <2>2. CASE \E name \in Generators : Launched(name)
      BY <2>2, StageLaunched DEF Done
    <2>3. CASE Quits
      BY <2>3 DEF Quits, Families
    <2> QED
      BY <1>1, <2>1, <2>2, <2>3, OutsideKinds
  <1>2. CASE Generate
    <2>1. /\ gen' = gen /\ session' = session /\ stopped' = stopped
          /\ Stage' = Stage \/ (Stage # "none" /\ Stage' = Follows(Stage, gen) /\ i' = 1)
      BY <1>2, StageAfter DEF Families
    <2>2. CASE Stage = "delta"
      <3>1. \A t \in Tables : t < i => delta[gen][t] = "whole"
        BY <2>1, <2>2 DEF Overwritten
      <3>2. CASE SkipTable \/ SourceRaises
        BY <2>1, <3>2, Failing DEF SkipTable, SourceRaises, Fail, Families
      <3>3. CASE RemoveTable \/ StartTable
        <4>1. Stage' = Stage /\ i' = i
          BY <2>1, <3>3, StageStays, Failing DEF RemoveTable, StartTable, Families
        <4>2. \E c : delta' = [delta EXCEPT ![gen][i] = c]
          BY <3>3 DEF RemoveTable, StartTable
        <4> QED
          BY <1>a, <2>1, <2>2, <3>1, <4>1, <4>2 DEF TypeOK, Done
      <3>4. CASE CommitTable
        <4>1. Source = "whole"
          BY <2>1, <2>2, <3>4, SourceWhole DEF CommitTable
        <4>2. delta' = [delta EXCEPT ![gen][i] = "whole"]
          BY <3>4, <4>1 DEF CommitTable
        <4>3. \A t \in Tables : t < i + 1 => delta'[gen][t] = "whole"
          BY <1>a, <2>1, <3>1, <4>2 DEF TypeOK
        <4>4. NextTable
          BY <3>4 DEF CommitTable
        <4>5. CASE i = Last
          BY <1>a, <2>1, <2>2, <4>3, <4>4, <4>5, TableMoves DEF Whole, Follows
        <4>6. CASE i # Last
          BY <1>a, <2>1, <2>2, <4>3, <4>4, <4>6, TableMoves DEF Done
        <4> QED
          BY <4>5, <4>6
      <3> QED
        BY <1>2, <2>2, <3>2, <3>3, <3>4, StageOfStep DEF Generate
    <2>3. CASE Stage # "delta"
      <3>1. delta' = delta
        BY <1>2, <2>3, DeltaStep
      <3>2. CASE Stage \in Done
        BY <2>1, <3>1, <3>2 DEF Overwritten, Done, Follows
      <3>3. CASE Stage \notin Done
        <4>1. Stage \in {"sources", "parquet"}
          BY <2>1, <2>3, <3>3, StageOfGen DEF Done, Having
        <4>2. Stage' = Stage \/ (Stage' = "delta" /\ i' = 1)
          BY <2>1, <4>1 DEF Follows, Families
        <4> QED
          BY <1>a, <4>1, <4>2 DEF Done
      <3> QED
        BY <3>2, <3>3
    <2> QED
      BY <2>2, <2>3
  <1> QED
    BY <1>1, <1>2

-----------------------------------------------------------------------------
(* As long as nothing was interrupted, stopped has not been set, and a      *)
(* generator that fails does so at its check of what it builds on.          *)
LEMMA StoppedStays == [Next]_vars /\ ~stopped' /\ TypeOK /\ SessionOK => ~stopped
  <1> SUFFICES ASSUME [Next]_vars, ~stopped', TypeOK, SessionOK PROVE ~stopped
    OBVIOUS
  <1>1. Generate => stopped' \in {stopped, TRUE}
    BY GenerateKinds DEF NextStage, Stays, Fails, GeneratorReturns
  <1> QED
    BY <1>1, OutsideKinds, StageUnchanged DEF Launched, Quits

Clean == ArchiveClean /\ CsvClean /\ ParquetClean /\ DeltaClean

\* Before any interruption a generator fails at its check of its sources or not at all.
LEMMA FailsClean ==
    ASSUME TypeOK, SessionOK, ViewsWhole, Clean, Generate, ~stopped', gen' = "none"
    PROVE  UNCHANGED files /\ Stage \in {"sources", "none"}
  <1>0. ~stopped
    BY StoppedStays DEF Next, Step
  <1>w. Working
    BY GenerateKinds
  <1> USE StageMoves, TableMoves, StageStays, StageOfStep DEF Working
  <1>1. CASE CheckSources \/ GeneratorReturns
    BY <1>1
  <1>2. CASE SkipParquet \/ StartParquet \/ FinishParquet
    BY <1>w, <1>2 DEF SkipParquet, StartParquet, FinishParquet
  <1>3. CASE CsvRefused
    <2>1. Whole(csv) /\ i \in Tables
      BY <1>0, <1>3 DEF CsvRefused, Clean, CsvClean, TypeOK
    <2>2. csv[i] = "whole"
      BY <2>1 DEF Whole
    <2> QED
      BY <1>3, <2>2 DEF CsvRefused
  <1>4. CASE Download
    BY <1>w, <1>4 DEF Download
  <1>5. CASE Extract
    BY <1>0, <1>w, <1>5 DEF Extract, Clean, ArchiveClean
  <1>6. CASE SkipTable \/ RemoveTable \/ StartTable \/ CommitTable
    BY <1>w, <1>6 DEF SkipTable, RemoveTable, StartTable, CommitTable, AtDelta
  <1>7. CASE SourceRaises
    <2>1. gen \in Families /\ Stage = "delta" /\ i \in Tables
      BY <1>7, StageOfGen DEF Having, TypeOK
    <2>2. CASE gen = "ssb"
      BY <1>7, <2>2 DEF SourceRaises, Source
    <2>3. CASE gen # "ssb"
      <3>1. Whole(parquet[gen])
        BY <1>0, <2>1, <2>3 DEF Clean, ParquetClean
      <3> QED
        BY <1>7, <2>1, <2>3, <3>1 DEF SourceRaises, Source, Whole
    <2> QED
      BY <2>2, <2>3
  <1>8. CASE Stamp \/ ExtractQueries
    BY <1>w, <1>8 DEF Stamp, ExtractQueries
  <1> QED
    BY <1>1, <1>2, <1>3, <1>4, <1>5, <1>6, <1>7, <1>8 DEF Generate

\* Nothing but the download writes the archive.
LEMMA ArchiveKept ==
    ASSUME TypeOK, SessionOK, ArchiveClean, [Next]_vars
    PROVE  ArchiveClean'
  <1>1. CASE archive' = archive
    BY <1>1, StoppedStays DEF ArchiveClean
  <1>2. CASE archive' # archive
    <2>1. Download
      BY <1>2, OutsideKinds, StageOfStep DEF Generate, files
    <2> QED
      BY <1>2, <2>1 DEF Download, files, ArchiveClean
  <1> QED
    BY <1>1, <1>2

\* The tarball's members, in any order that names each table once.
LEMMA CsvKept ==
    ASSUME TypeOK, SessionOK, ViewsWhole, Clean, [Next]_vars
    PROVE  CsvClean'
  <1> SUFFICES ASSUME ~stopped' PROVE CsvClean'
    BY DEF CsvClean
  <1>0. ~stopped
    BY StoppedStays
  <1>c. CsvClean
    BY DEF Clean
  <1>u. Whole(csv) => Uniform(csv)
    BY DEF Uniform
  <1>1. CASE ~Generate
    <2>1. CASE UNCHANGED vars
      BY <1>0, <1>c, <2>1, StageUnchanged DEF CsvClean, files, Uniform, Whole
    <2>2. CASE \E name \in Generators : Launched(name)
      <3>1. gen = "none" /\ csv' = csv /\ (gen' = "job" => Stage' = "download")
        BY <1>1, <2>2, OutsideKinds, StageLaunched DEF files, Launched
      <3> QED
        BY <1>0, <1>c, <3>1 DEF CsvClean, Uniform, Whole
    <2>3. CASE Quits
      <3>1. gen = "none" /\ gen' = "none" /\ csv' = csv
        BY <1>1, <2>3, OutsideKinds DEF Quits, files
      <3> QED
        BY <1>0, <1>c, <3>1 DEF CsvClean, Uniform, Whole
    <2> QED
      BY <1>1, <2>1, <2>2, <2>3, OutsideKinds
  <1>2. CASE Generate /\ gen' = "none"
    <2>1. UNCHANGED files /\ Stage \in {"sources", "none"}
      BY <1>2, FailsClean
    <2>2. Uniform(csv)
      BY <1>0, <1>c, <1>u, <2>1 DEF CsvClean
    <2> QED
      BY <1>2, <2>1, <2>2 DEF CsvClean, files, Uniform, Whole
  <1>3. CASE Generate /\ gen' # "none" /\ ~Extract
    <2>1. csv' = csv /\ Stage # "extract"
      <3>1. csv' = csv
        BY <1>3, StageOfStep DEF Generate, files
      <3>2. Stage # "extract"
        BY <1>3, StageOfStep DEF Generate
      <3> QED
        BY <3>1, <3>2
    <2>2. /\ gen' = gen
          /\ Stage' = Stage \/ (Stage' = Follows(Stage, gen) /\ i' = 1 /\ Stage # "none")
      BY <1>3, StageAfter
    <2>3. CASE gen # "job"
      BY <1>0, <1>c, <2>1, <2>2, <2>3 DEF CsvClean, Uniform, Whole
    <2>4. CASE gen = "job" /\ Stage = "download"
      <3>1. Uniform(csv)
        BY <1>0, <1>c, <2>4 DEF CsvClean
      <3>2. Stage' = "download" \/ (Stage' = "extract" /\ i' = 1)
        BY <2>2, <2>4 DEF Follows
      <3>3. ~\E n \in Tables : n < 1
        BY NumberOfTables DEF Tables
      <3> QED
        BY <2>1, <2>2, <2>4, <3>1, <3>2, <3>3 DEF CsvClean, Uniform, Whole
    <2>5. CASE gen = "job" /\ Stage # "download"
      <3>1. Whole(csv)
        BY <1>0, <1>c, <2>1, <2>5 DEF CsvClean
      <3>2. Stage' \notin {"download", "extract"}
        BY <2>1, <2>2, <2>5, StageOfGen DEF Follows
      <3> QED
        BY <2>1, <2>2, <2>5, <3>1, <3>2 DEF CsvClean, Whole
    <2> QED
      BY <2>3, <2>4, <2>5
  <1>4. CASE Extract /\ gen' # "none"
    <2>1. gen = "job" /\ Stage = "extract" /\ i \in Tables /\ Tables = 1..Last /\ Last \in Nat
      BY <1>4, StageOfStep, StageOfGen, NumberOfTables DEF Having, TypeOK, Tables
    <2>2. /\ \A n \in Tables : n < i => csv[ArchiveOrder[n]] = "whole"
          /\ i = 1 /\ ~busy => Uniform(csv)
      BY <1>0, <1>c, <2>1 DEF CsvClean
    <2>a. archive \in {"absent", "whole"}
      BY <1>0 DEF Clean, ArchiveClean
    <2>b. \A n \in Tables : ArchiveOrder[n] \in Tables
      BY FixturesAssumption DEF FixturesAssumption
    <2>3. CASE i = 1 /\ ~busy /\ csv[Last] # "absent" /\ NextStage /\ csv' = csv
      <3>1. Last \in Tables
        BY NumberOfTables, <2>1
      <3>2. Whole(csv)
        BY <2>2, <2>3, <3>1 DEF Uniform
      <3>3. Stage' = "parquet" /\ gen' = gen
        BY <2>1, <2>3, StageMoves DEF Follows
      <3> QED
        BY <2>1, <2>3, <3>2, <3>3 DEF CsvClean, Whole
    <2>4. CASE ~busy /\ csv' = [csv EXCEPT ![ArchiveOrder[i]] = "short"] /\ StayAt(TRUE)
      <3>1. \A n \in Tables : n < i => ArchiveOrder[n] # ArchiveOrder[i]
        BY <2>1, FixturesAssumption DEF FixturesAssumption
      <3>2. Stage' = "extract" /\ gen' = "job" /\ i' = i /\ busy'
        BY <2>1, <2>4, StageStays
      <3>3. \A n \in Tables : n < i => csv'[ArchiveOrder[n]] = "whole"
        BY <2>1, <2>2, <2>4, <2>b, <3>1 DEF TypeOK
      <3> QED
        BY <3>2, <3>3 DEF CsvClean
    <2>5. CASE busy /\ csv' = [csv EXCEPT ![ArchiveOrder[i]] = "whole"] /\ NextTable
      <3>1. \A n \in Tables : n < i + 1 => csv'[ArchiveOrder[n]] = "whole"
        BY <2>1, <2>2, <2>5, <2>b DEF TypeOK
      <3>2. CASE i = Last
        <4>1. \A n \in Tables : csv'[ArchiveOrder[n]] = "whole"
          BY <2>1, <3>1, <3>2
        <4>2. \A t \in Tables : csv'[t] = "whole"
          BY <4>1, FixturesAssumption DEF FixturesAssumption
        <4>3. Stage' = "parquet" /\ gen' = gen
          BY <2>1, <2>5, <3>2, TableMoves DEF Follows
        <4> QED
          BY <2>1, <4>2, <4>3 DEF CsvClean, Whole
      <3>3. CASE i # Last
        <4>1. Stage' = "extract" /\ gen' = "job" /\ i' = i + 1 /\ i' # 1
          BY <2>1, <2>5, <3>3, TableMoves
        <4> QED
          BY <3>1, <4>1 DEF CsvClean
      <3> QED
        BY <3>2, <3>3
    <2> QED
      BY <1>4, <2>a, <2>3, <2>4, <2>5, Failing DEF Extract
  <1> QED
    BY <1>1, <1>2, <1>3, <1>4, StageOfStep DEF Generate

(* The loop over the tables, as seen from one family's content.            *)
LEMMA LoopStarts ==
    ASSUME NEW content, Uniform(content), NEW b \in BOOLEAN, ~b
    PROVE  UpToTable(content, 1, b)
  BY NumberOfTables DEF Uniform, Whole, UpToTable, Tables

\* One table of the loop is written.
LEMMA LoopWrites ==
    ASSUME NEW content \in [Tables -> Contents], NEW n \in Tables, NEW b \in BOOLEAN,
           NEW c \in Contents, UpToTable(content, n, b)
    PROVE  /\ UpToTable([content EXCEPT ![n] = c], n, TRUE)
           /\ c \in {"absent", "whole"} => UpToTable([content EXCEPT ![n] = c], n, FALSE)
  BY NumberOfTables DEF UpToTable, Tables

\* One table of the loop is passed.
LEMMA LoopPasses ==
    ASSUME NEW content, NEW n \in Tables, NEW b \in BOOLEAN, UpToTable(content, n, b),
           content[n] = "whole", NEW d \in BOOLEAN
    PROVE  /\ UpToTable(content, n + 1, d) \/ n = Last
           /\ n = Last => Whole(content)
  <1>1. Tables = 1..Last /\ Last \in Nat
    BY NumberOfTables DEF Tables
  <1>2. n = Last => Whole(content)
    BY <1>1 DEF UpToTable, Whole
  <1>3. ASSUME n # Last PROVE UpToTable(content, n + 1, d)
    <2> SUFFICES ASSUME NEW t \in Tables
                 PROVE  /\ t < n + 1 => content[t] = "whole"
                        /\ t >= n + 1 => content[t] \in {"absent", "whole"}
      BY DEF UpToTable
    <2>1. /\ t < n => content[t] = "whole"
          /\ t > n => content[t] \in {"absent", "whole"}
      BY <1>1 DEF UpToTable
    <2> QED
      BY <1>1, <2>1
  <1> QED
    BY <1>2, <1>3

\* Complete is one way to be there as a whole or not at all.
LEMMA WholeIsUniform == \A content : Whole(content) => Uniform(content)
  BY DEF Uniform

(* The Parquet files while their stage lasts.                              *)
LEMMA ParquetLoop ==
    ASSUME TypeOK, SessionOK, Clean, ~stopped, Generate, Stage = "parquet", gen' # "none",
           busy' \in BOOLEAN
    PROVE  /\ \A f \in Families \ {Family} : parquet'[f] = parquet[f]
           /\ \/ Stage' = "parquet" /\ UpToTable(parquet'[Family], i', busy')
              \/ Stage' = Follows("parquet", gen) /\ Whole(parquet'[Family])
  <1>1. Family \in Families /\ i \in Tables /\ busy \in BOOLEAN
          /\ parquet[Family] \in [Tables -> Contents] /\ parquet \in [Families -> [Tables -> Contents]]
    BY StageOfGen DEF Family, Having, Generators, Families, TypeOK
  <1>2. UpToTable(parquet[Family], i, busy)
    BY <1>1 DEF Clean, ParquetClean, UpTo
  <1>3. CASE SkipParquet
    <2>1. parquet' = parquet /\ ~busy
      BY <1>3 DEF SkipParquet, files
    <2>2. CASE i = 1 /\ ~NeedsGen /\ NextStage
      <3>1. Whole(parquet[Family])
        BY <1>1, <1>2, <2>1, <2>2, NumberOfTables DEF NeedsGen, AllOf, Whole, UpToTable, Tables
      <3> QED
        BY <2>1, <2>2, <3>1, StageMoves
    <2>3. CASE parquet[Family][i] # "absent" /\ NextTable
      <3>1. parquet[Family][i] = "whole"
        BY <1>1, <1>2, <2>1, <2>3, NumberOfTables DEF UpToTable, Tables
      <3> QED
        BY <1>1, <1>2, <2>1, <2>3, <3>1, LoopPasses, TableMoves, NumberOfTables DEF Tables
    <2> QED
      BY <1>3, <2>2, <2>3 DEF SkipParquet
  <1>4. CASE StartParquet
    <2>1. PICK c \in Contents : parquet' = [parquet EXCEPT ![Family][i] = c]
      BY <1>1, <1>4 DEF StartParquet, Contents
    <2>2. StayAt(TRUE)
      BY <1>4 DEF StartParquet
    <2>3. Stage' = "parquet" /\ i' = i /\ busy' = TRUE
      BY <2>2, StageStays
    <2>4. parquet'[Family] = [parquet[Family] EXCEPT ![i] = c]
      BY <1>1, <2>1
    <2>5. UpToTable(parquet'[Family], i, TRUE)
      <3>1. UpToTable([parquet[Family] EXCEPT ![i] = c], i, TRUE)
        BY <1>1, <1>2, LoopWrites
      <3> QED
        BY <2>4, <3>1
    <2> QED
      BY <1>1, <2>1, <2>3, <2>5
  <1>5. CASE FinishParquet
    <2>1. gen = "job" => csv[i] = "whole"
      BY <1>1 DEF Clean, CsvClean, Whole
    <2>2. parquet' = [parquet EXCEPT ![Family][i] = "whole"] /\ NextTable
      BY <1>5, <2>1 DEF FinishParquet
    <2>3. parquet'[Family] = [parquet[Family] EXCEPT ![i] = "whole"]
            /\ parquet'[Family][i] = "whole"
      BY <1>1, <2>2
    <2>4. UpToTable(parquet'[Family], i, FALSE)
      BY <1>1, <1>2, <2>3, LoopWrites DEF Contents
    <2>5. /\ UpToTable(parquet'[Family], i + 1, FALSE) \/ i = Last
          /\ i = Last => Whole(parquet'[Family])
      BY <1>1, <2>3, <2>4, LoopPasses
    <2>6. busy' = FALSE
      BY <2>2, TableMoves
    <2>7. CASE i = Last
      BY <1>1, <2>2, <2>5, <2>7, TableMoves, NumberOfTables DEF Tables
    <2>8. CASE i # Last
      <3>1. Stage' = "parquet" /\ i' = i + 1 /\ UpToTable(parquet'[Family], i + 1, FALSE)
        BY <2>2, <2>5, <2>8, TableMoves, NumberOfTables DEF Tables
      <3> QED
        BY <1>1, <2>2, <2>6, <3>1
    <2> QED
      BY <2>7, <2>8
  <1> QED
    BY <1>3, <1>4, <1>5, StageOfStep, Failing DEF Generate, CsvRefused, Fail

\* The Parquet files of every family, whatever the program does.
LEMMA ParquetKept ==
    ASSUME TypeOK, SessionOK, ViewsWhole, Clean, [Next]_vars
    PROVE  ParquetClean'
  <1> SUFFICES ASSUME ~stopped'
      PROVE  /\ \A f \in Families : IF Stage' = "parquet" /\ Family' = f
                     THEN UpToTable(parquet'[f], i', busy') ELSE Uniform(parquet'[f])
             /\ gen' \in Families \ {"ssb"} /\ Stage' \in {"delta"} \cup Done
                   => Whole(parquet'[gen'])
    BY DEF ParquetClean, UpTo, UpToTable, Uniform, Whole
  <1>0. ~stopped /\ busy' \in BOOLEAN
    BY StoppedStays, NextTypes DEF TypeOK
  <1>c. /\ \A f \in Families : IF Stage = "parquet" /\ Family = f
                     THEN UpToTable(parquet[f], i, busy) ELSE Uniform(parquet[f])
        /\ gen \in Families \ {"ssb"} /\ Stage \in {"delta"} \cup Done => Whole(parquet[gen])
    BY <1>0 DEF Clean, ParquetClean, UpTo
  <1>1. CASE ~Generate
    <2>1. CASE UNCHANGED vars
      BY <1>c, <2>1, StageUnchanged DEF files
    <2>2. CASE \E name \in Generators : Launched(name)
      <3>1. gen = "none" /\ parquet' = parquet /\ i' = 1 /\ ~busy'
        BY <1>1, <2>2, OutsideKinds DEF files, Launched
      <3>2. Stage = "none"
        BY <3>1, StageOfGen
      <3>3. \A f \in Families : Uniform(parquet[f])
        BY <1>c, <3>2
      <3>4. Stage' \notin {"delta"} \cup Done
        BY <2>2, StageLaunched DEF Done
      <3> QED
        BY <1>0, <3>1, <3>3, <3>4, LoopStarts
    <2>3. CASE Quits
      <3>1. gen = "none" /\ gen' = "none" /\ parquet' = parquet
        BY <1>1, <2>3, OutsideKinds DEF Quits, files
      <3>2. Stage = "none" /\ Stage' = "none"
        BY <3>1, StageOfGen, StageNobody
      <3> QED
        BY <1>c, <3>1, <3>2 DEF Families
    <2> QED
      BY <1>1, <2>1, <2>2, <2>3, OutsideKinds
  <1>2. CASE Generate /\ gen' = "none"
    <2>1. parquet' = parquet /\ Stage \in {"sources", "none"}
      BY <1>2, FailsClean DEF files
    <2> QED
      BY <1>2, <1>c, <2>1, StageNobody DEF Families
  <1>3. CASE Generate /\ gen' # "none"
    <2>1. /\ gen' = gen /\ Family' = Family
          /\ \/ Stage' = Stage
             \/ Stage' = Follows(Stage, gen) /\ i' = 1 /\ ~busy' /\ Stage # "none"
      BY <1>3, StageAfter DEF Family
    <2>2. CASE Stage = "parquet"
      <3>1. /\ \A f \in Families \ {Family} : parquet'[f] = parquet[f]
            /\ \/ Stage' = "parquet" /\ UpToTable(parquet'[Family], i', busy')
               \/ Stage' = Follows("parquet", gen) /\ Whole(parquet'[Family])
        BY <1>0, <1>3, <2>2, ParquetLoop
      <3>2. Follows("parquet", gen) # "parquet"
        BY DEF Follows
      <3>3. gen \in Families => Family = gen
        BY DEF Family, Families
      <3> QED
        BY <1>c, <2>1, <2>2, <3>1, <3>2, <3>3, WholeIsUniform DEF Done
    <2>3. CASE Stage # "parquet"
      <3>1. parquet' = parquet
        BY <1>3, <2>3, StageOfStep DEF Generate, files
      <3>2. \A f \in Families : Uniform(parquet[f])
        BY <1>c, <2>3
      <3>3. CASE Stage = "sources"
        <4>1. CheckSources
          BY <1>3, <3>3, StageOfStep DEF Generate
        <4>2. SourcesFound /\ Stage' = "delta" /\ gen \in {"tpch", "ssb"}
          BY <1>3, <3>3, <4>1, Failing, StageMoves, StageOfGen DEF CheckSources, Fail, Follows, Having
        <4>3. gen = "tpch" => Whole(parquet["tpch"])
          <5>1. ASSUME gen = "tpch" PROVE AllOf(parquet["tpch"])
            BY <4>2, <5>1 DEF SourcesFound
          <5> QED
            BY <3>2, <5>1, NumberOfTables DEF Uniform, Whole, AllOf, Families
        <4> QED
          BY <2>1, <3>1, <3>2, <4>2, <4>3
      <3>4. CASE Stage \in {"delta"} \cup Done
        <4>1. Stage' \in {"delta"} \cup Done
          BY <2>1, <3>4 DEF Done, Follows
        <4> QED
          BY <1>c, <2>1, <3>1, <3>2, <3>4, <4>1 DEF Done
      <3>5. CASE Stage \in {"download", "extract"}
        <4>1. Stage' \in {"download", "extract"} \/ (Stage' = "parquet" /\ i' = 1 /\ ~busy')
          BY <2>1, <3>5 DEF Follows
        <4> QED
          BY <1>0, <3>1, <3>2, <4>1, LoopStarts DEF Done
      <3> QED
        BY <2>3, <3>3, <3>4, <3>5, StageOfGen DEF Done
    <2> QED
      BY <2>2, <2>3
  <1> QED
    BY <1>1, <1>2, <1>3

\* NextTable behind a table that is whole.
LEMMA LoopGoesOn ==
    ASSUME TypeOK, Stage # "none", NextTable,
           NEW content, NEW b \in BOOLEAN, UpToTable(content, i, b), content[i] = "whole"
    PROVE  \/ Stage' = Stage /\ busy' = FALSE /\ UpToTable(content, i', FALSE)
           \/ Stage' = Follows(Stage, gen) /\ Whole(content)
  <1>1. i \in Tables
    BY DEF TypeOK
  <1>2. CASE i = Last
    <2>1. Whole(content)
      BY <1>1, <1>2, LoopPasses
    <2>2. Stage' = Follows(Stage, gen)
      BY <1>2, TableMoves, NumberOfTables DEF Tables
    <2> QED
      BY <2>1, <2>2
  <1>3. CASE i # Last
    <2>1. Stage' = Stage /\ busy' = FALSE /\ i' = i + 1
      BY <1>1, <1>3, TableMoves, NumberOfTables DEF Tables
    <2>2. UpToTable(content, i + 1, FALSE)
      BY <1>1, <1>3, LoopPasses
    <2> QED
      BY <2>1, <2>2
  <1> QED
    BY <1>2, <1>3

(* The Delta tables while their stage lasts.                               *)
LEMMA DeltaLoop ==
    ASSUME TypeOK, SessionOK, ViewsWhole, Clean, ~stopped, ~stopped', Generate, Stage = "delta",
           gen' # "none"
    PROVE  /\ \A f \in Families \ {gen} : delta'[f] = delta[f]
           /\ \/ Stage' = "delta" /\ \E b \in BOOLEAN : busy' = b /\ UpToTable(delta'[gen], i', b)
              \/ Stage' = Follows("delta", gen) /\ Whole(delta'[gen])
  <1>1. gen \in Families /\ i \in Tables /\ busy \in BOOLEAN /\ Last \in Nat /\ Tables = 1..Last
          /\ delta[gen] \in [Tables -> Contents] /\ delta \in [Families -> [Tables -> Contents]]
    BY StageOfGen, NumberOfTables DEF Having, TypeOK, Tables
  <1>2. UpToTable(delta[gen], i, busy)
    BY <1>1 DEF Clean, DeltaClean, UpTo
  <1>3. CASE SkipTable
    <2>1. delta' = delta /\ ~busy /\ NextTable /\ delta[gen][i] = "whole"
      BY <1>1, <1>2, <1>3 DEF SkipTable, AtDelta, files, UpToTable
    <2>2. \/ Stage' = Stage /\ busy' = FALSE /\ UpToTable(delta[gen], i', FALSE)
          \/ Stage' = Follows(Stage, gen) /\ Whole(delta[gen])
      BY <1>1, <1>2, <2>1, LoopGoesOn
    <2> QED
      BY <2>1, <2>2
  <1>4. CASE RemoveTable
    <2>1. delta' = [delta EXCEPT ![gen][i] = "absent"] /\ StayAt(FALSE)
      BY <1>4 DEF RemoveTable
    <2>2. delta'[gen] = [delta[gen] EXCEPT ![i] = "absent"]
      BY <1>1, <2>1
    <2>3. UpToTable(delta'[gen], i, FALSE)
      <3>1. UpToTable([delta[gen] EXCEPT ![i] = "absent"], i, FALSE)
        BY <1>1, <1>2, LoopWrites DEF Contents
      <3> QED
        BY <2>2, <3>1
    <2>4. Stage' = "delta" /\ busy' = FALSE /\ i' = i
      BY <2>1, StageStays
    <2> QED
      BY <1>1, <2>1, <2>3, <2>4
  <1>5. CASE StartTable
    <2>1. delta' = [delta EXCEPT ![gen][i] = "cut"] /\ StayAt(TRUE)
      BY <1>5 DEF StartTable
    <2>2. delta'[gen] = [delta[gen] EXCEPT ![i] = "cut"]
      BY <1>1, <2>1
    <2>3. UpToTable(delta'[gen], i, TRUE)
      <3>1. UpToTable([delta[gen] EXCEPT ![i] = "cut"], i, TRUE)
        BY <1>1, <1>2, LoopWrites DEF Contents
      <3> QED
        BY <2>2, <3>1
    <2>4. Stage' = "delta" /\ busy' = TRUE /\ i' = i
      BY <2>1, StageStays
    <2> QED
      BY <1>1, <2>1, <2>3, <2>4
  <1>6. CASE CommitTable
    <2>1. Source = "whole"
      <3>1. CASE gen = "ssb"
        BY <3>1 DEF ViewsWhole, Whole, Source
      <3>2. CASE gen # "ssb"
        BY <1>1, <3>2 DEF Clean, ParquetClean, Whole, Source
      <3> QED
        BY <3>1, <3>2
    <2>2. delta' = [delta EXCEPT ![gen][i] = "whole"] /\ NextTable
      BY <1>6, <2>1 DEF CommitTable
    <2>3. delta'[gen] = [delta[gen] EXCEPT ![i] = "whole"] /\ delta'[gen][i] = "whole"
      BY <1>1, <2>2
    <2>4. UpToTable(delta'[gen], i, FALSE)
      BY <1>1, <1>2, <2>3, LoopWrites DEF Contents
    <2>5. \/ Stage' = Stage /\ busy' = FALSE /\ UpToTable(delta'[gen], i', FALSE)
          \/ Stage' = Follows(Stage, gen) /\ Whole(delta'[gen])
      BY <2>2, <2>3, <2>4, LoopGoesOn
    <2>6. \A f \in Families \ {gen} : delta'[f] = delta[f]
      BY <1>1, <2>2
    <2> QED
      BY <2>5, <2>6
  <1> QED
    BY <1>3, <1>4, <1>5, <1>6, StageOfStep, Failing DEF Generate, SourceRaises, Fail

\* The Delta tables of every family, whatever the program does.
LEMMA DeltaKept ==
    ASSUME TypeOK, SessionOK, ViewsWhole, Clean, [Next]_vars
    PROVE  DeltaClean'
  <1> SUFFICES ASSUME ~stopped'
      PROVE  \A f \in Families :
                IF gen' = f /\ Stage' = "delta" THEN UpToTable(delta'[f], i', busy')
                ELSE Uniform(delta'[f]) /\ (gen' = f /\ Stage' \in Done => Whole(delta'[f]))
    BY DEF DeltaClean, UpTo, UpToTable, Uniform, Whole
  <1>0. ~stopped /\ busy' \in BOOLEAN
    BY StoppedStays, NextTypes DEF TypeOK
  <1>c. \A f \in Families :
            IF gen = f /\ Stage = "delta" THEN UpToTable(delta[f], i, busy)
            ELSE Uniform(delta[f]) /\ (gen = f /\ Stage \in Done => Whole(delta[f]))
    BY <1>0 DEF Clean, DeltaClean, UpTo
  <1>1. CASE ~Generate
    <2>1. CASE UNCHANGED vars
      BY <1>c, <2>1, StageUnchanged DEF files
    <2>2. CASE (\E name \in Generators : Launched(name)) \/ Quits
      <3>1. gen = "none" /\ delta' = delta
        BY <1>1, <2>2, OutsideKinds DEF files, Launched, Quits
      <3>2. \A f \in Families : Uniform(delta[f])
        BY <1>c, <3>1 DEF Families
      <3>3. gen' = "none" \/ Stage' \notin {"delta"} \cup Done
        BY <2>2, StageLaunched DEF Done, Quits
      <3> QED
        BY <3>1, <3>2, <3>3 DEF Done, Families
    <2> QED
      BY <1>1, <2>1, <2>2, OutsideKinds
  <1>2. CASE Generate /\ gen' = "none"
    <2>1. delta' = delta /\ Stage \in {"sources", "none"}
      BY <1>2, FailsClean DEF files
    <2> QED
      BY <1>2, <1>c, <2>1 DEF Families
  <1>3. CASE Generate /\ gen' # "none"
    <2>1. /\ gen' = gen
          /\ \/ Stage' = Stage
             \/ Stage' = Follows(Stage, gen) /\ i' = 1 /\ ~busy' /\ Stage # "none"
      BY <1>3, StageAfter
    <2>2. CASE Stage = "delta"
      <3>1. /\ \A f \in Families \ {gen} : delta'[f] = delta[f]
            /\ \/ Stage' = "delta" /\ \E b \in BOOLEAN : busy' = b /\ UpToTable(delta'[gen], i', b)
               \/ Stage' = Follows("delta", gen) /\ Whole(delta'[gen])
        BY <1>0, <1>3, <2>2, DeltaLoop
      <3>2. Follows("delta", gen) # "delta"
        BY DEF Follows
      <3>3. Stage' = "delta" => UpToTable(delta'[gen], i', busy')
        BY <3>1, <3>2
      <3> QED
        BY <1>c, <2>1, <2>2, <3>1, <3>2, <3>3, WholeIsUniform
    <2>3. CASE Stage # "delta"
      <3>1. delta' = delta
        BY <1>3, <2>3, DeltaStep
      <3>2. \A f \in Families : Uniform(delta[f])
        BY <1>c, <2>3
      <3>3. CASE Stage \in Done
        <4>1. Stage' \in Done
          BY <2>1, <3>3 DEF Done, Follows
        <4> QED
          BY <1>c, <2>1, <3>1, <3>2, <3>3, <4>1 DEF Done
      <3>4. CASE Stage \notin Done
        <4>1. Stage' \notin Done \/ gen \notin Families
          BY <2>1, <2>3, <3>4, StageOfGen DEF Follows, Done, Families
        <4>2. Stage' = "delta" => i' = 1 /\ ~busy'
          BY <2>1, <2>3
        <4> QED
          BY <1>0, <2>1, <3>1, <3>2, <4>1, <4>2, LoopStarts
      <3> QED
        BY <3>3, <3>4
    <2> QED
      BY <2>2, <2>3
  <1> QED
    BY <1>1, <1>2, <1>3

-----------------------------------------------------------------------------
(* What a session was asked for does not get lost on the way.              *)
LEMMA ListedNext ==
    ASSUME ControlOK, session.queue # <<>>, NEW name, Listed(session.queue, name)
    PROVE  Head(session.queue).name = name \/ Listed(Tail(session.queue), name)
  <1>1. PICK n \in DOMAIN session.queue : session.queue[n].name = name
    BY DEF Listed
  <1>2. CASE n = 1
    BY <1>1, <1>2, HeadAndTail
  <1>3. CASE n # 1
    BY <1>1, <1>3, HeadAndTail DEF Listed
  <1> QED
    BY <1>2, <1>3

\* A job of either part is a job of both.
LEMMA ListedBoth ==
    ASSUME NEW p \in Seq(Jobs), NEW q \in Seq(Jobs), NEW name,
           Listed(p, name) \/ Listed(q, name)
    PROVE  Listed(p \o q, name)
  <1>1. CASE Listed(p, name)
    <2>1. PICK n \in DOMAIN p : p[n].name = name
      BY <1>1 DEF Listed
    <2>2. n \in DOMAIN (p \o q) /\ (p \o q)[n] = p[n]
      BY <2>1
    <2> QED
      BY <2>1, <2>2 DEF Listed
  <1>2. CASE Listed(q, name)
    <2>1. PICK n \in DOMAIN q : q[n].name = name
      BY <1>2 DEF Listed
    <2>2. Len(p) + n \in DOMAIN (p \o q) /\ (p \o q)[Len(p) + n] = q[n]
      BY <2>1
    <2> QED
      BY <2>1, <2>2 DEF Listed
  <1> QED
    BY <1>1, <1>2

(* A job that is skipped has been done.                                    *)
LEMMA SkippedIsWhole ==
    ASSUME TypeOK, SessionOK, Clean, Between, session.queue # <<>>,
           Skipped(Head(session.queue)), Head(session.queue).name \in Families,
           Pledge(session, stopped, Head(session.queue).name)
    PROVE  Whole(delta[Head(session.queue).name])
  <1> DEFINE job == Head(session.queue)
  <1>1. job \in Jobs /\ job = session.queue[1] /\ 1 \in DOMAIN session.queue
    BY TypeParts, HeadAndTail
  <1>2. session.kind = "script" => job.when = "cli"
    BY <1>1 DEF SessionOK
  <1> HIDE DEF job
  <1>3. job.when # "cli" /\ job.when \in {"workload", "missing"} /\ SomeOf(delta[job.name])
    BY <1>1 DEF Skipped, Jobs, Families, job
  <1>4. ~stopped
    BY <1>2, <1>3 DEF Pledge, job
  <1>5. Uniform(delta[job.name])
    <2>1. gen = "none"
      BY DEF Between
    <2> QED
      BY <1>4, <2>1 DEF Clean, DeltaClean, Families, job
  <1> QED
    BY <1>3, <1>5 DEF SomeOf, Uniform, job

\* What a session owes it does, or has still on its list.
LEMMA CoveredKept ==
    ASSUME TypeOK, SessionOK, Overwritten, Clean, Covered, [Next]_vars
    PROVE  Covered'
  <1> SUFFICES ASSUME NEW n \in DOMAIN session'.args, session'.args[n] \in Families,
                      Pledge(session', stopped', session'.args[n])
               PROVE  \/ gen' = session'.args[n]
                      \/ Listed(session'.queue, session'.args[n])
                      \/ Whole(delta'[session'.args[n]])
    BY DEF Covered, Pledge, Owed, Listed, TablesWhole, Whole
  <1> DEFINE name == session'.args[n]
  <1>k. session'.kind # "idle" /\ name \in Families
    BY DEF Pledge
  <1>e. ~\E how : End(how)
    <2>1. ASSUME NEW how, End(how) PROVE FALSE
      BY <1>k, <2>1 DEF End, SessionOK
    <2> QED
      BY <2>1
  <1>o. ControlOK
    BY TypeParts
  <1>c. ASSUME session'.args = session.args, Pledge(session, stopped, name)
        PROVE  gen = name \/ Listed(session.queue, name) \/ Whole(delta[name])
    BY <1>c DEF Covered, Owed, TablesWhole, Whole
  <1>1. CASE \E sel \in Selections : StartRun(sel)
    <2>1. PICK sel \in Selections : StartRun(sel)
      BY <1>1
    <2>2. sel \in Seq(Families) /\ Families \subseteq Generators
      BY FixturesAssumption DEF FixturesAssumption, Generators
    <2>3. session'.args = sel /\ session'.queue = [m \in DOMAIN sel |-> Job(sel[m], "workload")]
      BY <2>1 DEF StartRun, Start
    <2> QED
      BY <2>2, <2>3, JobList DEF Listed
  <1>2. CASE \E script \in Scripts, overwrite \in BOOLEAN : StartScript(script, overwrite)
    <2>1. PICK script \in Scripts, overwrite \in BOOLEAN : StartScript(script, overwrite)
      BY <1>2
    <2>2. script \in Seq(Generators)
      BY FixturesAssumption DEF FixturesAssumption
    <2>3. session'.args = script /\ session'.queue = [m \in DOMAIN script |-> Job(script[m], "cli")]
      BY <2>1 DEF StartScript, Start
    <2> QED
      BY <2>2, <2>3, JobList DEF Listed
  <1>3. CASE NextJob
    <2> DEFINE job == Head(session.queue)
               rest == Tail(session.queue)
    <2>1. /\ session.queue # <<>> /\ Between /\ delta' = delta /\ stopped' = stopped
          /\ \/ /\ Skipped(job) /\ session' = [session EXCEPT !.queue = rest]
                /\ UNCHANGED <<gen, stage>>
             \/ /\ session' = [session EXCEPT !.queue = Expand(job.name) \o rest]
                /\ UNCHANGED <<gen, stage>>
             \/ /\ session' = [session EXCEPT !.queue = rest]
                /\ gen' = job.name
      BY <1>o, <1>3, NextJobKinds DEF files
    <2>2. job \in Jobs /\ rest \in Seq(Jobs)
      BY <1>o, <2>1, HeadAndTail
    <2>q. ASSUME NEW q, session' = [session EXCEPT !.queue = q]
          PROVE  /\ session'.queue = q /\ session'.args = session.args
                 /\ Pledge(session, stopped, name)
      BY <2>1, <2>q DEF Pledge, SessionOK
    <2>3. session'.args = session.args /\ Pledge(session, stopped, name)
      BY <2>1, <2>q
    <2>4. job.name = name \/ Listed(rest, name) \/ Whole(delta[name])
      BY <1>k, <1>o, <1>c, <2>1, <2>3, ListedNext DEF Between, Families
    <2>5. CASE Skipped(job) /\ session' = [session EXCEPT !.queue = rest]
      <3>1. job.name = name => Whole(delta[name])
        BY <1>k, <2>1, <2>3, <2>5, SkippedIsWhole
      <3> QED
        BY <2>1, <2>4, <2>5, <2>q, <3>1
    <2>6. CASE session' = [session EXCEPT !.queue = Expand(job.name) \o rest] /\ UNCHANGED gen
      <3>1. /\ Expand(job.name) \in Seq(Jobs)
            /\ Listed(Expand(job.name), job.name)
        BY <2>2, Expanded DEF Jobs, Listed
      <3>2. session'.queue = Expand(job.name) \o rest
        BY <2>6, <2>q
      <3>3. job.name = name \/ Listed(rest, name) => Listed(session'.queue, name)
        BY <2>2, <3>1, <3>2, ListedBoth
      <3> QED
        BY <2>1, <2>4, <3>3
    <2>7. CASE session' = [session EXCEPT !.queue = rest] /\ gen' = job.name
      BY <2>1, <2>4, <2>7, <2>q
    <2> QED
      BY <2>1, <2>5, <2>6, <2>7
  <1>4. CASE EndSession
    BY <1>e, <1>4, EndSessionEnds
  <1>5. CASE Stop
    BY <1>e, <1>5 DEF Stop
  <1>6. CASE Generate /\ ~GeneratorReturns
    <2>1. UNCHANGED <<session, gen, stopped>>
      BY <1>e, <1>6, GenerateKinds DEF Fails, NextStage, Stays
    <2>2. gen # name => delta'[name] = delta[name]
      BY <1>k, <1>6, DeltaStep DEF TypeOK
    <2> QED
      BY <1>c, <2>1, <2>2
  <1>7. CASE GeneratorReturns
    <2>1. UNCHANGED <<session, stopped, delta>> /\ Stage = "none"
      BY <1>7 DEF GeneratorReturns, files
    <2>2. gen = name => Whole(delta[name])
      BY <1>k, <2>1 DEF Pledge, Clean, DeltaClean, Overwritten, Done
    <2> QED
      BY <1>c, <2>1, <2>2
  <1>8. CASE UNCHANGED vars
    BY <1>c, <1>8, StageUnchanged DEF files
  <1> QED
    BY <1>1, <1>2, <1>3, <1>4, <1>5, <1>6, <1>7, <1>8 DEF Next, Step

(* How a session comes to its verdict.                                     *)
LEMMA VerdictKinds ==
    ASSUME TypeOK, SessionOK, [Next]_vars, verdict' \in {"ready", "done"}
    PROVE  \/ UNCHANGED <<verdict, session, delta, stopped>>
           \/ /\ EndSession
              /\ UNCHANGED <<delta, stopped, gen>>
              /\ session'.args = session.args /\ session'.overwrite = session.overwrite
              /\ session.queue = <<>> /\ gen = "none"
              /\ session.kind = IF verdict' = "ready" THEN "run" ELSE "script"
  <1>e. ASSUME NEW how, End(how) PROVE verdict' = how
    BY <1>e DEF End
  <1>1. ~(\E sel \in Selections : StartRun(sel))
    BY DEF StartRun, Start
  <1>2. ~(\E script \in Scripts, overwrite \in BOOLEAN : StartScript(script, overwrite))
    BY DEF StartScript, Start
  <1>w. verdict = verdict' => Idle
    BY DEF SessionOK
  <1>3. ~NextJob
    BY <1>w DEF NextJob, Between
  <1>4. ~Generate
    <2>1. ASSUME Generate PROVE FALSE
      BY <1>e, <1>w, <2>1, GenerateKinds DEF NextStage, Stays, Fails, GeneratorReturns, Working
    <2> QED
      BY <2>1
  <1>5. ~Stop
    BY <1>e DEF Stop
  <1>6. CASE UNCHANGED vars
    BY <1>6, StageUnchanged DEF files
  <1>7. CASE EndSession
    <2>1. /\ Between /\ session.queue = <<>> /\ UNCHANGED <<files, stopped>>
          /\ \E how \in {"done", "ready", "refused"} :
                /\ End(how)
                /\ how = "done" => session.kind = "script"
                /\ how = "ready" => session.kind # "script"
      BY <1>7, EndSessionEnds
    <2>2. session' = [session EXCEPT !.kind = "idle", !.queue = <<>>] /\ gen' = "none"
      BY <2>1 DEF End
    <2>3. session'.args = session.args /\ session'.overwrite = session.overwrite
      BY <2>2 DEF SessionOK
    <2>4. session.kind = IF verdict' = "ready" THEN "run" ELSE "script"
      BY <1>e, <2>1 DEF Between, Idle, SessionOK
    <2> QED
      BY <1>7, <2>1, <2>2, <2>3, <2>4 DEF Between, files
  <1> QED
    BY <1>1, <1>2, <1>3, <1>4, <1>5, <1>6, <1>7 DEF Next, Step

\* A verdict is given only when nothing is owed.
LEMMA VerdictsKept ==
    ASSUME TypeOK, SessionOK, Covered, UninterruptedIsWhole, OverwriteRepairs, [Next]_vars
    PROVE  UninterruptedIsWhole' /\ OverwriteRepairs'
  <1>1. ASSUME EndSession, session.queue = <<>>, gen = "none", NEW n \in DOMAIN session.args,
               session.args[n] \in Families, Pledge(session, stopped, session.args[n])
        PROVE  TablesWhole(session.args[n])
    BY <1>1 DEF Covered, Owed, Listed, Families
  <1>2. UninterruptedIsWhole'
    <2> SUFFICES ASSUME ~stopped', verdict' = "ready", NEW n \in DOMAIN session'.args
                 PROVE  \A t \in Tables : delta'[session'.args[n]][t] = "whole"
      BY DEF UninterruptedIsWhole, TablesWhole
    <2>1. CASE UNCHANGED <<verdict, session, delta, stopped>>
      BY <2>1 DEF UninterruptedIsWhole, TablesWhole
    <2>2. CASE EndSession /\ ~UNCHANGED <<verdict, session, delta, stopped>>
      <3>1. /\ UNCHANGED <<delta, stopped, gen>> /\ session'.args = session.args
            /\ session.queue = <<>> /\ gen = "none" /\ session.kind = "run"
        BY <2>2, VerdictKinds
      <3>2. session.args[n] \in Families
        BY <3>1 DEF SessionOK
      <3> QED
        BY <1>1, <2>2, <3>1, <3>2 DEF Pledge, TablesWhole
    <2> QED
      BY <2>1, <2>2, VerdictKinds
  <1>3. OverwriteRepairs'
    <2> SUFFICES ASSUME verdict' = "done", session'.overwrite, NEW n \in DOMAIN session'.args,
                        session'.args[n] \in Families \ {"job"}
                 PROVE  \A t \in Tables : delta'[session'.args[n]][t] = "whole"
      BY DEF OverwriteRepairs, TablesWhole
    <2>1. CASE UNCHANGED <<verdict, session, delta, stopped>>
      BY <2>1 DEF OverwriteRepairs, TablesWhole
    <2>2. CASE EndSession /\ ~UNCHANGED <<verdict, session, delta, stopped>>
      <3>1. /\ UNCHANGED <<delta, stopped, gen>> /\ session'.args = session.args
            /\ session'.overwrite = session.overwrite
            /\ session.queue = <<>> /\ gen = "none" /\ session.kind = "script"
        BY <2>2, VerdictKinds
      <3> QED
        BY <1>1, <2>2, <3>1 DEF Pledge, TablesWhole
    <2> QED
      BY <2>1, <2>2, VerdictKinds
  <1> QED
    BY <1>2, <1>3

-----------------------------------------------------------------------------
\* The invariant holds at the start.
LEMMA InitIInv == Init => IInv
  <1> SUFFICES ASSUME Init PROVE IInv
    OBVIOUS
  <1>1. TypeOK /\ SessionOK
    BY InitTypes
  <1>2. Stage = "none" /\ gen = "none"
    BY <1>1, StageOfGen DEF Init
  <1>3. \A f \in Families : Uniform(parquet[f]) /\ Uniform(delta[f])
    BY DEF Init, Uniform
  <1>4. Uniform(csv)
    BY DEF Init, Uniform
  <1>5. WritingOK /\ ViewsWhole /\ Overwritten
    BY <1>2 DEF WritingOK, ViewsWhole, Overwritten, Families
  <1>6. NeverShort
    BY DEF Init, NeverShort
  <1>7. ArchiveClean /\ CsvClean /\ ParquetClean /\ DeltaClean
    BY <1>2, <1>3, <1>4 DEF Init, ArchiveClean, CsvClean, ParquetClean, DeltaClean, Families
  <1>8. Covered /\ UninterruptedIsWhole /\ OverwriteRepairs
    BY DEF Init, Covered, UninterruptedIsWhole, OverwriteRepairs, Nobody
  <1> QED
    BY <1>1, <1>5, <1>6, <1>7, <1>8 DEF IInv

\* The invariant is inductive.
LEMMA NextIInv == IInv /\ [Next]_vars => IInv'
  <1> SUFFICES ASSUME IInv, [Next]_vars PROVE IInv'
    OBVIOUS
  <1> USE DEF IInv
  <1>1. TypeOK' /\ SessionOK'
    BY NextTypes
  <1>2. WritingOK' /\ NeverShort' /\ ViewsWhole' /\ Overwritten'
    BY WritingKept, NeverShortKept, ViewsWholeKept, OverwrittenKept
  <1>3. Clean
    BY DEF Clean
  <1>4. ArchiveClean' /\ CsvClean' /\ ParquetClean' /\ DeltaClean'
    BY <1>3, ArchiveKept, CsvKept, ParquetKept, DeltaKept
  <1>5. Covered' /\ UninterruptedIsWhole' /\ OverwriteRepairs'
    BY <1>3, CoveredKept, VerdictsKept
  <1> QED
    BY <1>1, <1>2, <1>4, <1>5

\* The inductive invariant: what the files can hold while each generator goes
\* through its stages, and what a session still owes of what it was asked for.
THEOREM Invariant == Spec => []IInv
  BY InitIInv, NextIInv, PTL DEF Spec

\* Every variable keeps its type: the stage stays inside the current generator's
\* list, the table inside the family, and no CSV file is ever unreadable.
THEOREM TypeCorrect == Spec => []TypeOK
  <1>1. IInv => TypeOK
    BY DEF IInv
  <1> QED
    BY Invariant, <1>1, PTL

\* Where nothing was interrupted, a run that begins to measure finds the tables of
\* all its workloads complete, for any tables, selections, scripts and sessions.
THEOREM ReadyIsComplete == Spec => []UninterruptedIsWhole
  <1>1. IInv => UninterruptedIsWhole
    BY DEF IInv
  <1> QED
    BY Invariant, <1>1, PTL

\* A generator that returns zero under --overwrite has written every table of its
\* family anew, whatever interruptions had left there; JOB's CSV files are kept.
THEOREM OverwritingRepairs == Spec => []OverwriteRepairs
  <1>1. IInv => OverwriteRepairs
    BY DEF IInv
  <1> QED
    BY Invariant, <1>1, PTL

\* Without --overwrite no step touches a table that is complete: what the loop
\* writes to was absent when it began (StartTable) and cut ever since (WritingOK).
THEOREM CompleteStays == Spec => CompleteIsKept
  <1>1. IInv /\ [Next]_vars =>
          [\A f \in Families, t \in Tables :
              delta[f][t] = "whole" /\ ~session.overwrite => delta'[f][t] = "whole"]_vars
    <2> SUFFICES ASSUME IInv, [Next]_vars, NEW f \in Families, NEW t \in Tables,
                        delta[f][t] = "whole", ~session.overwrite
                 PROVE  delta'[f][t] = "whole"
      OBVIOUS
    <2>1. CASE delta' = delta
      BY <2>1
    <2>2. CASE delta' # delta
      <3>1. TypeOK /\ Generate
        BY <2>2, OutsideKinds DEF files, IInv
      <3>2. PICK c \in Contents :
                /\ delta' = [delta EXCEPT ![gen][i] = c]
                /\ \/ StartTable /\ delta[gen][i] = "absent"
                   \/ c = Source /\ CommitTable
        BY <2>2, <3>1, DeltaStep
      <3>3. gen \in Families /\ Stage = "delta"
        BY <2>2, <3>1, DeltaStep
      <3>4. delta[gen][i] # "whole"
        BY <3>2, <3>3 DEF CommitTable, IInv, WritingOK
      <3> QED
        BY <3>1, <3>2, <3>3, <3>4 DEF TypeOK
    <2> QED
      BY <2>1, <2>2
  <1> QED
    BY Invariant, <1>1, PTL DEF CompleteIsKept, Spec
=============================================================================
