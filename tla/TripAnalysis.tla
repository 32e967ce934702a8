---------------------------- MODULE TripAnalysis ----------------------------
(***************************************************************************)
(* The experiments around the simulator.  runovnis.py launches ovnis for a *)
(* folder, puts a header on its log of arrivals and has analyse.py turn    *)
(* the log into tripstats.txt; analyse.py then averages the tripstats.txt  *)
(* of all folders into average.txt and compares the routes found there.    *)
(* Several runovnis.py may work on different folders at once, and the      *)
(* averages may be taken meanwhile.                                        *)
(*                                                                         *)
(* A file is a sequence of lines.  What a line holds in its columns is     *)
(* reduced to a token: <<l, g>> stands for the statistics of the vehicles  *)
(* of group g (a route, a strategy or "total") in launch l.  A row whose   *)
(* group has one vehicle only has an empty standard deviation, on which    *)
(* the reader fails: its token is missing.                                 *)
(***************************************************************************)
EXTENDS Integers, Sequences, FiniteSets, FiniteSetsExt, SequencesExt

CONSTANTS
    Folders,          \* output folders
    Routes,           \* routenames of the scenario
    RouteOrder,       \* the routes and the strategies in the order in which
    StrategyOrder,    \* groupby sorts them
    strategynames,    \* the strategies that process_average_calculation knows
    Arrivals,         \* what a launch may report: <<routes, strategies,
                      \* groups of one>> of the vehicles that arrived
    NumStats,         \* len(statnames)
    MaxLaunches       \* bound: launches of ovnis

Strategies == Range(StrategyOrder)
Groups == Routes \cup Strategies \cup {"total"}
Launches == 1..MaxLaunches
Tokens == Launches \X Groups
NoFile == [launch |-> 0, header |-> FALSE, routes |-> {}, strategies |-> {}, single |-> {}]
Nothing == [log |-> NoFile, tables |-> 0]

ASSUME TripAssumption ==
    /\ RouteOrder \in Seq(Routes) /\ Range(RouteOrder) = Routes /\ IsInjective(RouteOrder)
    /\ StrategyOrder \in Seq(Strategies) /\ IsInjective(StrategyOrder)
    /\ strategynames \subseteq Strategies
    /\ Routes \cap Strategies = {} /\ "total" \notin Routes \cup Strategies
    /\ Arrivals \subseteq (SUBSET Routes) \X (SUBSET Strategies) \X (SUBSET (Routes \cup Strategies))
    /\ \A a \in Arrivals : (a[1] = {} <=> a[2] = {}) /\ a[3] \subseteq a[1] \cup a[2]
    /\ NumStats \in Nat /\ MaxLaunches \in Nat

VARIABLES
    launches,    \* launches of ovnis so far
    lastLaunch,  \* the last launch in each folder, 0 for none
    silent,      \* launches that logged no arrival
    log,         \* output_log_routing_end: who wrote it and what is in it
    tripstats,   \* tripstats.txt, a sequence of lines; <<>>: absent or empty
    source,      \* what is in each tripstats.txt: of which log, how many tables
    exists,      \* folders that have a tripstats.txt
    job,         \* where the runovnis.py of a folder is
    calc,        \* where process_average_calculation is
    todo,        \* folders that os.walk has yet to reach
    seen,        \* the sources of the tripstats.txt read so far
    averages,    \* sum_averages, route_averages and strategy_averages
    average,     \* average.txt
    result       \* what process_compare_dirs plots for each route

vars == <<launches, lastLaunch, silent, log, tripstats, source, exists, job, calc,
          todo, seen, averages, average, result>>

Logs == [launch: 0..MaxLaunches, header: BOOLEAN, routes: SUBSET Routes,
         strategies: SUBSET Strategies, single: SUBSET (Routes \cup Strategies)]
Sources == [log: Logs, tables: 0..2]
Errors == {"IndexError", "KeyError", "ValueError", "loops"}

-----------------------------------------------------------------------------
(* tripstats.txt *)

Line(kind, name, val) == [kind |-> kind, name |-> name, val |-> val]

\* The k-th of the groups that occur, in the order of groupby.
NotAfter(order, h, g) == \E i, j \in DOMAIN order : i <= j /\ order[i] = h /\ order[j] = g
Kth(order, present, k) ==
    CHOOSE g \in present : Cardinality({h \in present : NotAfter(order, h, g)}) = k

\* The row of group g: one vehicle has no standard deviation.
Row(f, g) == Line("row", g, IF g \in f.single THEN {} ELSE {<<f.launch, g>>})

\* DataFrame.to_csv: a header in two levels, a line for the index names, the
\* groups that occur, in sorted order, and the newline written after it.
Table(column, order, present, f) ==
    <<Line("head", column, {}), Line("head", "", {}), Line("names", "", {})>>
    \o [k \in 1..Cardinality(present) |-> Row(f, Kth(order, present, k))]
    \o <<Line("blank", "", {})>>

\* The lines about all trips that come first.
Totals(f) ==
    <<Line("skipped", "", {})>>
    \o [k \in 1..NumStats |-> Line("stat", "total", {<<f.launch, "total">>})]

\* The file up to its first table, and all of it.
WithStrategies(f) == Totals(f) \o Table("routingStrategy", StrategyOrder, f.strategies, f)
write_group_stats(f) == WithStrategies(f) \o Table("routeId", RouteOrder, f.routes, f)

\* Faulty variant: values are told apart by their position in the table.
ReadByPosition(lines, p, names) ==
    LET first == p + 3
        N == Cardinality(names)
        taken == CHOOSE k \in 0..N :
                    /\ \A j \in first..(first + k - 1) :
                          j <= Len(lines) /\ lines[j].kind = "row"
                    /\ k = N \/ first + k > Len(lines) \/ lines[first + k].kind # "row"
    IN {Line("row", SetToSeq(names)[k], lines[first + k - 1].val) : k \in 1..taken}

\* Faulty variant: one header line too many is skipped.
ReadFromSecondRow(lines, p, names) ==
    {lines[j] : j \in {k \in (p + 4)..(p + 3 + Cardinality(names)) :
                         k <= Len(lines) /\ lines[k].kind = "row"}}

\* read_df_stats with the header at line p: at most one row for each name in
\* the list, and it stops at the first line that is not a row.
read_df_stats(lines, p, names) ==
    LET first == p + 3
        N == Cardinality(names)
        taken == CHOOSE k \in 0..N :
                    /\ \A j \in first..(first + k - 1) :
                          j <= Len(lines) /\ lines[j].kind = "row"
                    /\ k = N \/ first + k > Len(lines) \/ lines[first + k].kind # "row"
    IN {lines[j] : j \in first..(first + taken - 1)}

\* The line of the routes table that the while loop of read_stats looks for.
RouteHeaders(lines, p) ==
    {q \in DOMAIN lines : q > p /\ lines[q].kind = "head" /\ lines[q].name = "routeId"}

\* How a row ends the reading: the dictionary is asked for the name before
\* float sees the value.
RowError(r, names) ==
    IF r.name \notin names THEN "KeyError" ELSE IF r.val = {} THEN "ValueError" ELSE "none"

\* The rows are read in the order of their lines.
FirstError(lines, rows, names) ==
    LET bad == {j \in DOMAIN lines : lines[j] \in rows /\ RowError(lines[j], names) # "none"}
    IN IF bad = {} THEN "none" ELSE RowError(lines[Min(bad)], names)

\* read_stats on one file: what it adds to the averages, or how it fails.
\* Without a line of the routes the while loop reads on for ever.
read_stats(lines) ==
    LET head == NumStats + 2
        isHead == head <= Len(lines) /\ lines[head].kind = "head"
        str == IF isHead /\ lines[head].name = "routingStrategy"
               THEN read_df_stats(lines, head, strategynames) ELSE {}
        q == IF RouteHeaders(lines, head) = {} THEN 0 ELSE Min(RouteHeaders(lines, head))
        rts == IF q = 0 THEN {} ELSE read_df_stats(lines, q, Routes)
        error == IF Len(lines) < NumStats + 1 THEN "IndexError"
                 ELSE IF FirstError(lines, str, strategynames) # "none"
                 THEN FirstError(lines, str, strategynames)
                 ELSE IF q = 0 THEN "loops"
                 ELSE FirstError(lines, rts, Routes)
        Added(g) == UNION {r.val : r \in {x \in str \cup rts : x.name = g}}
    IN [error |-> error,
        added |-> [g \in Groups |-> IF g # "total" THEN Added(g)
                                    ELSE UNION {lines[j].val : j \in DOMAIN lines \cap {2}}]]

-----------------------------------------------------------------------------
(* runovnis.py for one folder *)

UNCHANGED_calc == UNCHANGED <<calc, todo, seen, averages, average, result>>

\* Faulty variant: ovnis appends to the log of an earlier launch.
AppendLaunch(i, rts, strs, ones) ==
    /\ job[i] = "idle" /\ launches < MaxLaunches
    /\ launches' = launches + 1
    /\ lastLaunch' = [lastLaunch EXCEPT ![i] = launches']
    /\ log' = IF rts = {} THEN log
              ELSE [log EXCEPT ![i] = [launch |-> IF @.launch = 0 THEN launches' ELSE @.launch,
                                       header |-> @.header,
                                       routes |-> @.routes \cup rts,
                                       strategies |-> @.strategies \cup strs,
                                       single |-> ones]]
    /\ silent' = IF rts = {} THEN silent \cup {launches'} ELSE silent
    /\ job' = [job EXCEPT ![i] = "ran"]
    /\ UNCHANGED <<tripstats, source, exists>> /\ UNCHANGED_calc

\* os.system of ovnis, which ends or crashes (nobody looks): its Log opens,
\* and so empties, the file with the first arrival it reports.  The vehicles
\* that arrived took the routes rts with the strategies strs, the groups of
\* ones having a single vehicle.
Launch(i, rts, strs, ones) ==
    /\ job[i] = "idle" /\ launches < MaxLaunches
    /\ launches' = launches + 1
    /\ lastLaunch' = [lastLaunch EXCEPT ![i] = launches']
    /\ log' = IF rts = {} THEN log
              ELSE [log EXCEPT ![i] = [launch |-> launches', header |-> FALSE,
                                       routes |-> rts, strategies |-> strs,
                                       single |-> ones]]
    /\ silent' = IF rts = {} THEN silent \cup {launches'} ELSE silent
    /\ job' = [job EXCEPT ![i] = "ran"]
    /\ UNCHANGED <<tripstats, source, exists>> /\ UNCHANGED_calc

\* runovnis.py without --runOvnis: only the analysis.
OnlyAnalysis(i) ==
    /\ job[i] = "idle"
    /\ job' = [job EXCEPT ![i] = "ran"]
    /\ UNCHANGED <<launches, lastLaunch, silent, log, tripstats, source, exists>>
    /\ UNCHANGED_calc

\* The header is put before the lines unless it is there; a missing log is
\* an exception and runovnis.py ends.
AddHeader(i) ==
    /\ job[i] = "ran"
    /\ IF log[i] = NoFile
       THEN job' = [job EXCEPT ![i] = "idle"] /\ UNCHANGED log
       ELSE /\ job' = [job EXCEPT ![i] = "headed"]
            /\ log' = [log EXCEPT ![i].header = TRUE]
    /\ UNCHANGED <<launches, lastLaunch, silent, tripstats, source, exists>>
    /\ UNCHANGED_calc

\* Faulty variant: tripstats.txt is opened to append.
OpenToAppend(i) ==
    /\ job[i] = "headed"
    /\ job' = [job EXCEPT ![i] = "open"]
    /\ exists' = exists \cup {i}
    /\ UNCHANGED <<launches, lastLaunch, silent, log, tripstats, source>> /\ UNCHANGED_calc

\* process_trips up to the opening of tripstats.txt, which empties it.
OpenTripstats(i) ==
    /\ job[i] = "headed"
    /\ job' = [job EXCEPT ![i] = "open"]
    /\ tripstats' = [tripstats EXCEPT ![i] = <<>>]
    /\ source' = [source EXCEPT ![i] = Nothing]
    /\ exists' = exists \cup {i}
    /\ UNCHANGED <<launches, lastLaunch, silent, log>> /\ UNCHANGED_calc

\* The lines reach the file when write_group_stats returns and drops it.
WriteTripstats(i) ==
    /\ job[i] = "open"
    /\ job' = [job EXCEPT ![i] = "idle"]
    /\ tripstats' = [tripstats EXCEPT ![i] = write_group_stats(log[i])]
    /\ source' = [source EXCEPT ![i] = [log |-> log[i], tables |-> 2]]
    /\ UNCHANGED <<launches, lastLaunch, silent, log, exists>> /\ UNCHANGED_calc

\* write_group_stats ends before it returns, with an exception or Ctrl-C: the
\* lines written so far reach the file.  A table has all of its rows or none.
\* (Killed outright the job leaves no line.)
BreaksOff(i) ==
    /\ job[i] = "open"
    /\ job' = [job EXCEPT ![i] = "idle"]
    /\ \/ \E n \in 0..(NumStats + 1) :
             /\ tripstats' = [tripstats EXCEPT ![i] = SubSeq(Totals(log[i]), 1, n)]
             /\ source' = [source EXCEPT ![i] = [log |-> log[i], tables |-> 0]]
       \/ \E str \in {{}, log[i].strategies} :
             LET f == [log[i] EXCEPT !.strategies = str, !.routes = {}]
             IN /\ tripstats' = [tripstats EXCEPT ![i] = WithStrategies(f)]
                /\ source' = [source EXCEPT ![i] = [log |-> f, tables |-> 1]]
       \/ LET f == [log[i] EXCEPT !.routes = {}]
          IN /\ tripstats' = [tripstats EXCEPT ![i] = write_group_stats(f)]
             /\ source' = [source EXCEPT ![i] = [log |-> f, tables |-> 2]]
    /\ UNCHANGED <<launches, lastLaunch, silent, log, exists>> /\ UNCHANGED_calc

-----------------------------------------------------------------------------
(* process_average_calculation and process_compare_dirs *)

UNCHANGED_jobs ==
    UNCHANGED <<launches, lastLaunch, silent, log, tripstats, source, exists, job>>

\* process_average_calculation begins: read_stats starts from empty lists.
\* One that reads for ever is stopped before another begins.
StartAverages ==
    /\ calc # "reading"
    /\ calc' = "reading"
    /\ todo' = Folders /\ seen' = {}
    /\ averages' = [g \in Groups |-> {}]
    /\ result' = [g \in Routes |-> {}]
    /\ UNCHANGED average /\ UNCHANGED_jobs

\* read_stats reaches the next folder of os.walk, in any order, and reads the
\* tripstats.txt that is there by now.  An exception drops the lists.
ReadFolder(i) ==
    /\ calc = "reading" /\ i \in todo
    /\ todo' = todo \ {i}
    /\ IF i \in exists
       THEN LET r == read_stats(tripstats[i])
            IN /\ seen' = seen \cup {source[i]}
               /\ IF r.error = "none"
                  THEN /\ averages' = [g \in Groups |-> averages[g] \cup r.added[g]]
                       /\ UNCHANGED calc
                  ELSE calc' = r.error /\ averages' = [g \in Groups |-> {}]
       ELSE UNCHANGED <<calc, seen, averages>>
    /\ UNCHANGED <<average, result>> /\ UNCHANGED_jobs

\* For each group its name and the line of its averages.
Sections(order) ==
    [k \in 1..(2 * Len(order)) |->
        LET g == order[(k + 1) \div 2]
        IN IF k % 2 = 1 THEN Line("name", g, {}) ELSE Line("stat", g, averages[g])]

\* write_average_stats.  The dictionaries come in any order; np.amin of a
\* route without a value raises an exception after the route's name, while a
\* strategy without a value gets a zero.
write_average_stats(ro, so) ==
    LET empty == {k \in DOMAIN ro : averages[ro[k]] = {}}
        ok == IF empty = {} THEN ro ELSE SubSeq(ro, 1, Min(empty) - 1)
        total == <<Line("name", "total", {}), Line("stat", "total", averages["total"])>>
    IN IF averages["total"] = {} THEN <<Line("name", "total", {})>>
       ELSE total \o Sections(ok)
            \o IF empty = {} THEN Sections(so)
               ELSE <<Line("name", ro[Min(empty)], {})>>

WriteAverage(ro, so) ==
    /\ calc = "reading" /\ todo = {}
    /\ average' = write_average_stats(ro, so)
    /\ calc' = IF \E g \in Routes : averages[g] = {} THEN "ValueError" ELSE "written"
    /\ UNCHANGED <<todo, seen, averages, result>> /\ UNCHANGED_jobs

\* Lines that read_average_stats books to route g: the group changes only at
\* the name of a route.
BookedTo(lines, g) ==
    {j \in DOMAIN lines :
        /\ lines[j].kind = "stat"
        /\ LET names == {k \in 1..j : lines[k].kind = "name" /\ lines[k].name \in Routes}
           IN names # {} /\ lines[Max(names)].name = g}

\* Faulty variant: the group is set once, at the first route found.
ReadFirstSection(lines) ==
    LET names == {k \in DOMAIN lines : lines[k].kind = "name" /\ lines[k].name \in Routes}
        stats == {k \in DOMAIN lines : lines[k].kind = "stat"}
    IN [g \in Routes |-> IF names = {} \/ lines[Min(names)].name # g THEN {}
                         ELSE UNION {lines[k].val : k \in stats \cap {Max(stats)}}]

\* read_average_stats: the last line booked wins.
read_average_stats(lines) ==
    [g \in Routes |-> IF BookedTo(lines, g) = {} THEN {}
                      ELSE lines[Max(BookedTo(lines, g))].val]

\* process_compare_dirs is a command of its own: it takes the average.txt
\* that is there, the one a failed calculation cut short or left alone too,
\* and knows nothing of the lists of that calculation.
Compare ==
    /\ calc # "reading" /\ average # <<>>
    /\ result' = read_average_stats(average)
    /\ calc' = "compared"
    /\ todo' = {} /\ seen' = {}
    /\ averages' = [g \in Groups |-> {}]
    /\ UNCHANGED average /\ UNCHANGED_jobs

-----------------------------------------------------------------------------

Init ==
    /\ launches = 0 /\ silent = {}
    /\ lastLaunch = [i \in Folders |-> 0]
    /\ log = [i \in Folders |-> NoFile]
    /\ tripstats = [i \in Folders |-> <<>>]
    /\ source = [i \in Folders |-> Nothing]
    /\ exists = {}
    /\ job = [i \in Folders |-> "idle"]
    /\ calc = "idle" /\ todo = {} /\ seen = {}
    /\ averages = [g \in Groups |-> {}]
    /\ average = <<>>
    /\ result = [g \in Routes |-> {}]

Next ==
    \/ \E i \in Folders :
          \/ \E a \in Arrivals : Launch(i, a[1], a[2], a[3])
          \/ OnlyAnalysis(i) \/ AddHeader(i) \/ OpenTripstats(i)
          \/ WriteTripstats(i) \/ BreaksOff(i) \/ ReadFolder(i)
    \/ StartAverages
    \/ \E ro \in SetToSeqs(Routes), so \in SetToSeqs(strategynames) : WriteAverage(ro, so)
    \/ Compare

Spec == Init /\ [][Next]_vars

-----------------------------------------------------------------------------
(* Properties *)

\* Types; a tripstats.txt that is absent or has just been opened has no line.
TypeOK ==
    /\ launches \in 0..MaxLaunches /\ silent \subseteq Launches
    /\ lastLaunch \in [Folders -> 0..MaxLaunches]
    /\ log \in [Folders -> Logs]
    /\ source \in [Folders -> Sources]
    /\ exists \subseteq Folders /\ todo \subseteq Folders
    /\ job \in [Folders -> {"idle", "ran", "headed", "open"}]
    /\ \A i \in Folders : i \notin exists \/ job[i] = "open" => tripstats[i] = <<>>
    /\ calc \in {"idle", "reading", "written", "compared"} \cup Errors
    /\ seen \subseteq Sources
    /\ averages \in [Groups -> SUBSET Tokens]
    /\ result \in [Routes -> SUBSET Tokens]

\* The tripstats.txt that runovnis.py leaves is about the launch it has just
\* made, unless that launch reported no arrival: then the log, and with it
\* the statistics, are those of an earlier launch.
FreshUnlessSilent ==
    \A i \in Folders :
        job[i] = "open" => \/ log[i].launch = lastLaunch[i]
                           \/ lastLaunch[i] \in silent

\* The positions that read_df_stats relies on are right whichever groups
\* occur in a log: each route and each strategy is averaged over its own
\* values, one for each log in which it occurs.
OwnGroupAverages ==
    calc = "written" =>
        \A g \in Routes \cup strategynames :
            averages[g] = {<<x.log.launch, g>> :
                             x \in {y \in seen : g \in y.log.routes \cup y.log.strategies}}

\* The averages fail only for a reason: a tripstats.txt still empty or broken
\* off before its tables, a strategy that is not in strategynames, a route that
\* no vehicle took or a group of one vehicle.  The loop that looks for the
\* routes only goes on for ever on a file broken off before their table.
FailuresExplained ==
    /\ calc = "IndexError" => \E x \in seen : x.tables = 0
    /\ calc = "loops" => \E x \in seen : x.tables < 2
    /\ calc = "KeyError" => \E x \in seen : x.tables > 0 /\ ~(x.log.strategies \subseteq strategynames)
    /\ calc = "ValueError" =>
         \/ \E g \in Routes : \A x \in seen : g \notin x.log.routes
         \/ \E x \in seen : x.log.single \cap (x.log.routes \cup x.log.strategies) # {}

\* Whatever order the sections are in, every plotted route but the one whose
\* section comes last shows the values of its own section; that one shows
\* those of a strategy, because no strategy name ends the section of a route.
OnlyLastRouteMixed ==
    calc = "compared" =>
        \A k \in 1..(Len(average) - 1) :
            \/ average[k].kind # "name" \/ average[k].name \notin Routes
            \/ result[average[k].name] = average[k + 1].val
            \/ \A m \in (k + 1)..Len(average) : average[m].name \notin Routes
                                             \/ average[m].name = average[k].name

=============================================================================
