---------------------------- MODULE TestFilters ----------------------------
(***************************************************************************)
(* testfilters.c: the filters of the command line.  A filter that has been *)
(* parsed is a key, a set of values and whether it excludes what has them; *)
(* parse_filter_string() puts it in the list of the things it looks at.    *)
(***************************************************************************)
EXTENDS Sequences, SequencesExt

CaseFilters == {"testcase", "type", "requirement"}
SetFilters  == {"testset", "feature"}

\* filter_add(): the other keys are accepted and have no effect, "manual" by a
\* filter that lets everything pass.
case_filter_list(filters) == SelectSeq(filters, LAMBDA f : f.key \in CaseFilters)
set_filter_list(filters)  == SelectSeq(filters, LAMBDA f : f.key \in SetFilters)

\* What a filter compares with its values.  A feature and a requirement are
\* lists of values, the others one value or none.
Attribute(f, x) ==
  CASE f.key \in {"testcase", "testset"} -> {x.gen.name}
    [] f.key = "type"                    -> {x.gen.type}
    [] OTHER                             -> x.gen[f.key]

\* test_case_filter(), test_set_filter(), type_filter(), feature_filter() and
\* requirement_filter()
Found(f, x) == Attribute(f, x) \cap f.values # {}
Filters(f, x) == IF f.exclude THEN Found(f, x) ELSE ~Found(f, x)

\* filter_set() and filter_case(): the walk ends at the first filter that
\* filters, and what the last filter asked said stays in x.
WalkFilters(filters, x) ==
  FoldLeft(LAMBDA filtered, f : filtered \/ Filters(f, x), FALSE, filters)

filter_set(filters, s)  == WalkFilters(set_filter_list(filters), s)
filter_case(filters, c) == WalkFilters(case_filter_list(filters), c)
==============================================================================
