---------------------------- MODULE Measurements ----------------------------
(***************************************************************************)
(* The measurements of one case: process_get_case() of the processor       *)
(* fetches each file of the case and reads those that hold measurements or *)
(* a series of them (testmeasurement.c); their limits may fail the case,   *)
(* and all values go into the report.  The samples of the power            *)
(* measurement come first.                                                 *)
(*                                                                         *)
(* A line is the sequence of its fields between the semicolons.  A field   *)
(* is a number, "nan", a "time" (strtod() takes its year) or a "word", and *)
(* is blank if it starts with white space: the end of a line, for one.     *)
(***************************************************************************)
EXTENDS ResultLogger, Integers

CONSTANTS
  GetLists,    (* the get elements a case may have, in the order of its list *)
  Leftovers,   (* what the output folder may already hold under a name       *)
  PowerFiles   (* the samples of the power measurement                       *)

\* A line has something in it: its end.
Field == [k : {"num", "nan", "time", "word"}, v : Int, blank : BOOLEAN]
Line  == Seq(Field) \ {<<>>}
Contents == [there : BOOLEAN, lines : Seq(Line)]
File == [base : STRING, measurement : BOOLEAN, series : BOOLEAN, content : Contents]

ASSUME MeasurementsAssumption ==
  /\ GetLists \subseteq Seq(File)
  /\ Leftovers \subseteq Contents
  /\ PowerFiles \subseteq Seq(Line)

Missing == [there |-> FALSE, lines |-> <<>>]

VARIABLES
  pc, c,           (* where the case is, and the case                        *)
  gets, file,      (* files to fetch, the one at hand                        *)
  lines, started,  (* lines not yet read; a series has been created          *)
  folder,          (* the output folder: names to contents                   *)
  bail_out, no_measurement_verdicts, w,
  (* Observation only: the power samples, the result before, what was read,  *)
  (* and whether a file was read although it could not be copied.            *)
  power, before, measured, stale

given == <<no_measurement_verdicts, power, before>>
vars  == <<pc, c, gets, file, lines, started, folder, bail_out, w, given, measured, stale>>

-----------------------------------------------------------------------------
(* Numbers                                                                  *)

\* strtod(): no conversion gives 0.
Converts(field) == field.k \in {"num", "time", "nan"}
Double(field) ==
  [nan |-> field.k = "nan", v |-> IF field.k \in {"num", "time"} THEN field.v ELSE 0]

Less(x, y)   == ~x.nan /\ ~y.nan /\ x.v < y.v
AtMost(x, y) == ~x.nan /\ ~y.nan /\ x.v <= y.v

\* The limit itself fails.  A target that equals it fails nothing.
Past(m, value) ==
  \/ Less(m.failure, m.target) /\ Less(value, m.failure)
  \/ Less(m.target, m.failure) /\ Less(m.failure, value)
Beyond(m, value) ==
  \/ Less(m.failure, m.target) /\ AtMost(value, m.failure)
  \/ Less(m.target, m.failure) /\ AtMost(m.failure, value)

-----------------------------------------------------------------------------
(* eval_measurements()                                                      *)

Failing(cont) == Stopped([cont EXCEPT !.verdict = "FAIL"])

eval_meas(cont, meas) ==
  IF meas.target_specified /\ Beyond(meas, meas.value) THEN Failing(cont) ELSE cont

eval_measurement_series(cont, series) ==
  IF ~series.target_specified THEN cont
  ELSE LET Item(v, item) == IF Beyond(series, item.value) THEN Failing(v) ELSE v
           walked == Walk(Item, cont, series.items)
       IN  [walked EXCEPT !.ok = walked.verdict # "FAIL"]

eval_measurements ==
  LET cont == [verdict |-> "PASS", ok |-> TRUE]
  IN  IF file.series THEN Walk(eval_measurement_series, cont, c.series).verdict
      ELSE Walk(eval_meas, cont, c.measurements).verdict

-----------------------------------------------------------------------------
(* process_current_measurement()                                            *)

NewSeries ==
  [target_specified |-> FALSE, target |-> Double([k |-> "word"]),
   failure |-> Double([k |-> "word"]), items |-> <<>>]

\* Values go to the series that was created last.
FirstSeries   == 1
CurrentSeries == Len(c.series)

Item(field, timed) == [value |-> Double(field), has_timestamp |-> timed]
add_measurement_item(list, at, item) == [list EXCEPT ![at].items = Append(@, item)]

PowerSample ==
  /\ pc = "power" /\ lines # <<>> /\ lines' = Tail(lines)
  /\ LET field == Head(lines)[1]
     IN  IF ~Converts(field) THEN UNCHANGED <<c, started>>
         ELSE LET list == IF started THEN c.series ELSE Append(c.series, NewSeries)
              IN  /\ c' = [c EXCEPT !.series = add_measurement_item(list, Len(list), Item(field, FALSE))]
                  /\ started' = TRUE
  /\ UNCHANGED <<pc, gets, file, folder, bail_out, w, given, measured, stale>>

PowerEnds ==
  /\ pc = "power" /\ lines = <<>>
  /\ pc' = "gets"
  /\ UNCHANGED <<c, gets, file, lines, started, folder, bail_out, w, given, measured, stale>>

-----------------------------------------------------------------------------
(* process_get_case()                                                       *)

\* process_get(): the copy may fail, which nobody is told, and the link may be
\* lost over it or over the deletion.  The output folder is not emptied.
GetFile ==
  /\ pc = "gets" /\ gets # <<>> /\ ~bail_out
  /\ file' = Head(gets) /\ gets' = Tail(gets)
  /\ \E copied \in {file'.content.there, FALSE} :
       /\ folder' = IF copied THEN [folder EXCEPT ![file'.base] = file'.content] ELSE folder
       /\ bail_out' \in BOOLEAN
       /\ IF bail_out' \/ ~file'.measurement
          THEN UNCHANGED <<pc, stale>>
          ELSE pc' = "open" /\ stale' = (stale \/ ~copied)
  /\ UNCHANGED <<c, lines, started, w, given, measured>>

SkipFile ==
  /\ pc = "gets" /\ gets # <<>> /\ bail_out
  /\ gets' = Tail(gets)
  /\ UNCHANGED <<pc, c, file, lines, started, folder, bail_out, w, given, measured, stale>>

\* What get_measurements() returned counts only for a case that has passed
\* otherwise, and without -M.
Judge(ok) ==
  /\ pc' = "gets"
  /\ c' = IF c.case_res = "PASS" /\ ~no_measurement_verdicts
             /\ (~ok \/ eval_measurements = "FAIL")
          THEN [c EXCEPT !.case_res = "FAIL"] ELSE c

OpenFile ==
  /\ pc = "open"
  /\ LET content == folder[file.base]
     IN  /\ lines' = content.lines
         /\ measured' = Append(measured, [series |-> file.series, content |-> content])
         /\ IF content.there THEN pc' = "read" /\ UNCHANGED c ELSE Judge(FALSE)
  /\ started' = FALSE
  /\ UNCHANGED <<gets, file, folder, bail_out, w, given, stale>>

ReadLine(series) ==
  /\ pc = "read" /\ file.series = series /\ lines # <<>> /\ lines' = Tail(lines)
  /\ UNCHANGED <<gets, file, folder, bail_out, w, given, measured, stale>>

\* parse_measurements(): name;value;unit and, if what follows is not blank,
\* target;failure.  A line whose name is blank is left out.
HasTarget(line) == Len(line) > 3 /\ ~line[4].blank
Malformed(line) == Len(line) < 3 \/ (HasTarget(line) /\ Len(line) < 5)

ReadBlank ==
  /\ ReadLine(FALSE) /\ Head(lines)[1].blank
  /\ UNCHANGED <<pc, c, started>>

ReadMeasurement ==
  /\ ReadLine(FALSE) /\ ~Head(lines)[1].blank /\ ~Malformed(Head(lines))
  /\ LET line == Head(lines)
         limited == HasTarget(line)
         NoLimit == [k |-> "word"]
     IN  c' = [c EXCEPT !.measurements = Append(@,
                 [value |-> Double(line[2]), target_specified |-> limited,
                  target  |-> Double(IF limited THEN line[4] ELSE NoLimit),
                  failure |-> Double(IF limited THEN line[5] ELSE NoLimit)])]
  /\ UNCHANGED <<pc, started>>

ReadMalformed ==
  /\ \/ ReadLine(FALSE) /\ ~Head(lines)[1].blank /\ Malformed(Head(lines))
     \/ ReadLine(TRUE) /\ ~started /\ Len(Head(lines)) < 2
  /\ Judge(FALSE)
  /\ UNCHANGED started

\* parse_series_header(): name;unit and target;failure, which are ignored
\* unless both are numbers.
ReadHeader ==
  /\ ReadLine(TRUE) /\ ~started /\ Len(Head(lines)) >= 2
  /\ LET line == Head(lines)
     IN  c' = [c EXCEPT !.series = Append(@,
                 IF Len(line) > 3 /\ Converts(line[3]) /\ Converts(line[4])
                 THEN [NewSeries EXCEPT !.target_specified = TRUE,
                                        !.target = Double(line[3]), !.failure = Double(line[4])]
                 ELSE NewSeries)]
  /\ started' = TRUE /\ UNCHANGED pc

\* parse_series(): a value, or a timestamp and a value; other lines are left out.
ReadItem ==
  /\ ReadLine(TRUE) /\ started
  /\ LET line  == Head(lines)
         timed == Len(line) > 1
         field == IF timed THEN line[2] ELSE line[1]
     IN  c' = IF (timed => line[1].k = "time") /\ Converts(field)
              THEN [c EXCEPT !.series = add_measurement_item(@, CurrentSeries, Item(field, timed))]
              ELSE c
  /\ UNCHANGED <<pc, started>>

EndOfFile ==
  /\ pc = "read" /\ lines = <<>>
  /\ Judge(TRUE)
  /\ UNCHANGED <<gets, file, lines, started, folder, bail_out, w, given, measured, stale>>

WriteCase ==
  /\ pc = "gets" /\ gets = <<>>
  /\ w' = xml_write_case(w, c) /\ pc' = "done"
  /\ UNCHANGED <<c, gets, file, lines, started, folder, bail_out, given, measured, stale>>

-----------------------------------------------------------------------------
NewCase(res) ==
  [gen |-> [name |-> "case"], described |-> FALSE, filtered |-> FALSE, steps |-> <<>>,
   case_res |-> res, measurements |-> <<>>, series |-> <<>>]

Init ==
  /\ before \in {"PASS", "FAIL", "N/A"} /\ c = NewCase(before)
  /\ power \in PowerFiles /\ pc = "power" /\ lines = power /\ started = FALSE
  /\ gets \in GetLists /\ file = [base |-> NULL, measurement |-> FALSE, series |-> FALSE, content |-> Missing]
  /\ folder \in [{gets[i].base : i \in DOMAIN gets} -> Leftovers]
  /\ bail_out = FALSE /\ no_measurement_verdicts \in BOOLEAN
  /\ w = NewWriter /\ measured = <<>> /\ stale = FALSE

Next ==
  \/ PowerSample \/ PowerEnds \/ GetFile \/ SkipFile \/ OpenFile
  \/ ReadBlank \/ ReadMeasurement \/ ReadMalformed \/ ReadHeader \/ ReadItem \/ EndOfFile
  \/ WriteCase

Spec == Init /\ [][Next]_vars

-----------------------------------------------------------------------------
(* What the files say, without reading them line by line                    *)

\* The value is at the failure limit or on the far side of it from the target.
Reaches(target, failure, value) ==
  LET t == Double(target) f == Double(failure) v == Double(value)
  IN  ~(t.nan \/ f.nan \/ v.nan) /\ ((v.v <= f.v /\ f.v < t.v) \/ (t.v < f.v /\ f.v <= v.v))

Unreadable(r) ==
  \/ ~r.content.there
  \/ ~r.series /\ \E line \in ToSet(r.content.lines) : ~line[1].blank /\ Malformed(line)
  \/ r.series /\ r.content.lines # <<>> /\ Len(r.content.lines[1]) < 2

\* The fields with the values of a series: at most one of a line.
ValueOf(line) ==
  CASE Len(line) = 1 /\ Converts(line[1]) -> <<line[1]>>
    [] Len(line) > 1 /\ line[1].k = "time" /\ Converts(line[2]) -> <<line[2]>>
    [] OTHER -> <<>>
Values(list) == FlattenSeq([i \in DOMAIN list |-> ValueOf(list[i])])

OutOfLimits(r) ==
  \/ /\ ~r.series
     /\ \E line \in ToSet(r.content.lines) :
          ~line[1].blank /\ HasTarget(line) /\ Reaches(line[4], line[5], line[2])
  \/ /\ r.series /\ r.content.lines # <<>>
     /\ LET header == Head(r.content.lines)
        IN  /\ Len(header) > 3 /\ Converts(header[3]) /\ Converts(header[4])
            /\ \E i \in 2..Len(r.content.lines) :
                 \E x \in ToSet(ValueOf(r.content.lines[i])) : Reaches(header[3], header[4], x)

-----------------------------------------------------------------------------
(* Properties                                                               *)

\* Measurements fail a case exactly if a file that was read cannot be
\* processed or has a value at or beyond its failure limit: whatever the order
\* of the files and lines, the direction of the limit and the power samples.
LimitsDecide ==
  pc = "done" =>
    (c.case_res = "FAIL" <=>
       \/ before = "FAIL"
       \/ /\ before = "PASS" /\ ~no_measurement_verdicts
          /\ \E r \in ToSet(measured) : Unreadable(r) \/ OutOfLimits(r))

\* The value that line j of a file of measurements adds: none if it is blank or
\* if it or a line before it cannot be processed.
SingleValue(list, j) ==
  IF list[j][1].blank \/ \E i \in 1..j : ~list[i][1].blank /\ Malformed(list[i])
  THEN <<>> ELSE <<list[j][2]>>
SinglesOf(r) ==
  IF r.series \/ ~r.content.there THEN <<>>
  ELSE FlattenSeq([j \in DOMAIN r.content.lines |-> SingleValue(r.content.lines, j)])

\* The series of a file: none without a header.
SeriesOf(r) ==
  IF ~r.series \/ Unreadable(r) \/ r.content.lines = <<>> THEN <<>>
  ELSE <<Values(Tail(r.content.lines))>>

\* Of a sample of the power measurement strtod() takes the first field.
SampleOf(line) == IF Converts(line[1]) THEN <<line[1]>> ELSE <<>>
Samples == FlattenSeq([i \in DOMAIN power |-> SampleOf(power[i])])

SingleValues == FlattenSeq([i \in DOMAIN measured |-> SinglesOf(measured[i])])
SeriesInOrder ==
  (IF Samples = <<>> THEN <<>> ELSE <<Samples>>)
    \o FlattenSeq([i \in DOMAIN measured |-> SeriesOf(measured[i])])

TheCase   == <<Element("case", "case")>>
TheSeries == Append(TheCase, Element("series", NULL))
Paths(parents, fields) ==
  [i \in DOMAIN fields |-> Append(parents, Element("measurement", Double(fields[i])))]
SeriesPaths(fields) == <<TheSeries>> \o Paths(TheSeries, fields)

\* All that was read is in the report under its case and series, in order, up
\* to the first line that cannot be processed, and also of a case that has
\* failed already.
EveryValueIsReported ==
  pc = "done" =>
    LET all == SeriesInOrder
    IN  w.out = <<TheCase>> \o Paths(TheCase, SingleValues)
                  \o FlattenSeq([i \in DOMAIN all |-> SeriesPaths(all[i])])

\* Measurements are evaluated only if they could be got.  Violated by a copy
\* that fails while the output folder holds a file of that name, of an earlier
\* case or run: process_get() tells nobody.
OnlyFetchedIsEvaluated ==
  pc = "done" /\ c.case_res = "PASS" /\ ~no_measurement_verdicts => ~stale
=============================================================================
