---------------------------- MODULE ResultLogger ----------------------------
(***************************************************************************)
(* testresultlogger.c: what is written of a test definition and of its     *)
(* results.  A writer holds the elements that are open and the elements    *)
(* written so far, each as the path from the root to it; attributes and    *)
(* the text of the leaves are left out, a list whose content decides       *)
(* whether an element can be closed is not.  The report in plain text has  *)
(* no nesting: its entries are paths of one element.                       *)
(***************************************************************************)
EXTENDS Naturals, Sequences, SequencesExt

NULL == "NULL"

Element(name, id) == [n |-> name, id |-> id]

\* ok: the walk over a list at hand has not been stopped by a callback.
NewWriter == [open |-> <<>>, out |-> <<>>, ok |-> TRUE]

-----------------------------------------------------------------------------
(* The xmlTextWriter and xmlListWalk()                                      *)

Start(w, e) ==
  LET path == Append(w.open, e)
  IN  [w EXCEPT !.open = path, !.out = Append(@, path)]

\* xml_end_element(): closes the innermost open element, whichever it is.
End(w) == IF w.open = <<>> THEN w ELSE [w EXCEPT !.open = Front(@)]

Leaf(w, e) == End(Start(w, e))
LeafIf(cond, w, e) == IF cond THEN Leaf(w, e) ELSE w

\* A callback that returns 0 stops the walk; the caller does not notice.
Stopped(w) == [w EXCEPT !.ok = FALSE]
Walk(Write(_, _), w, list) ==
  [FoldLeft(LAMBDA v, x : IF v.ok THEN Write(v, x) ELSE v, w, list) EXCEPT !.ok = TRUE]

-----------------------------------------------------------------------------
(* Steps and events                                                         *)

\* A pre, post or post reboot step without a command has no value for the
\* command attribute: the walk ends and the element stays open.
xml_write_pre_post_step(w, step) ==
  LET opened == Start(w, Element("step", step.cmd))
  IN  IF step.cmd = <<>> THEN Stopped(opened) ELSE End(opened)

\* Only the first list of steps of a tag is written.
ListLeftOpen(w, tag, lists) ==
  IF lists = <<>> THEN w
  ELSE Walk(xml_write_pre_post_step, Start(w, Element(tag, NULL)), Head(lists))
StepLists(w, tag, lists) ==
  IF lists = <<>> THEN w
  ELSE End(Walk(xml_write_pre_post_step, Start(w, Element(tag, NULL)), Head(lists)))

\* A param without a value stays open, and closing the event then closes it.
xml_write_event_param(w, value) ==
  LET opened == Start(w, Element("param", value))
  IN  IF value = <<>> THEN Stopped(opened) ELSE End(opened)

xml_write_event(w, step) ==
  End(Walk(xml_write_event_param, Start(w, Element("event", NULL)), step.params))

\* The post reboot steps are written inside each step that reboots.
xml_write_step(w, step, c) ==
  IF step.event THEN xml_write_event(w, step)
  ELSE LET opened == Start(w, Element("step", step.cmd))
       IN  End(IF step.reboot THEN StepLists(opened, "post_reboot_steps", c.reboot)
               ELSE opened)

-----------------------------------------------------------------------------
(* Cases, sets, suites and the definition                                   *)

xml_write_measurement(w, meas) == Leaf(w, Element("measurement", meas.value))
xml_write_measurement_item(w, item) == Leaf(w, Element("measurement", item.value))
xml_write_series(w, series) ==
  End(Walk(xml_write_measurement_item, Start(w, Element("series", NULL)), series.items))

xml_write_case(w, c) ==
  IF c.filtered THEN w
  ELSE LET opened   == Start(w, Element("case", c.gen.name))
           told     == LeafIf(c.described, opened, Element("description", NULL))
           steps    == Walk(LAMBDA v, step : xml_write_step(v, step, c), told, c.steps)
           measured == Walk(xml_write_measurement, steps, c.measurements)
       IN  End(Walk(xml_write_series, measured, c.series))

xml_write_file_data(w, file) == Leaf(w, Element("file", file.name))

xml_write_pre_set(w, set) == Start(w, Element("set", set.gen.name))

xml_write_post_set(w, set) ==
  LET told  == LeafIf(set.described, w, Element("description", NULL))
      pre   == StepLists(told, "pre_steps", set.pre_steps)
      cases == Walk(xml_write_case, pre, set.cases)
      post  == StepLists(cases, "post_steps", set.post_steps)
  IN  IF set.gets = <<>> THEN post
      ELSE End(Walk(xml_write_file_data, Start(post, Element("get", NULL)), set.gets))

xml_write_pre_suite(w, suite) == Start(w, Element("suite", suite.gen.name))

xml_write_post_suite(w, suite) ==
  End(LeafIf(suite.described, w, Element("description", NULL)))

\* Everything still open is closed with the definition.
xml_write_td_end(w, td) ==
  LET detector == LeafIf(td.hw_detector # <<>>, w, Element("hwiddetect", td.hw_detector))
      told     == LeafIf(td.described, detector, Element("description", NULL))
  IN  [told EXCEPT !.open = <<>>]

-----------------------------------------------------------------------------
(* The report in plain text                                                 *)

txt_write(w, e) == [w EXCEPT !.out = Append(@, <<e>>)]

txt_write_step(w, step) == txt_write(w, Element("step", step.cmd))

txt_write_case(w, c) ==
  IF c.filtered THEN w
  ELSE Walk(txt_write_step, txt_write(w, Element("case", c.gen.name)), c.steps)

txt_write_pre_suite(w, suite) == txt_write(w, Element("suite", suite.gen.name))
txt_write_pre_set(w, set) == txt_write(w, Element("set", set.gen.name))
txt_write_post_set(w, set) == Walk(txt_write_case, w, set.cases)

-----------------------------------------------------------------------------
(* The callbacks chosen by init_result_logger()                             *)

\* The URLs of the options are written before the root element is opened.
init_result_logger(opts) ==
  IF opts.text THEN NewWriter
  ELSE Start(LeafIf(opts.vcsurl, NewWriter, Element("vcsurl", NULL)),
             Element("testresults", NULL))

write_td_end(opts, w, td) == IF opts.text THEN w ELSE xml_write_td_end(w, td)
write_pre_suite(opts, w, suite) ==
  IF opts.text THEN txt_write_pre_suite(w, suite) ELSE xml_write_pre_suite(w, suite)
write_post_suite(opts, w, suite) ==
  IF opts.text THEN w ELSE xml_write_post_suite(w, suite)
write_pre_set(opts, w, set) ==
  IF opts.text THEN txt_write_pre_set(w, set) ELSE xml_write_pre_set(w, set)
write_post_set(opts, w, set) ==
  IF opts.text THEN txt_write_post_set(w, set) ELSE xml_write_post_set(w, set)
==============================================================================
