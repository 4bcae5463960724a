----------------------------- MODULE CrashUpload -----------------------------
(***************************************************************************)
(* Crash reports of a test case (fetch_rich_core_dumps() and its helpers   *)
(* in testdefinitionprocessor.c): after the case, the runner scans the     *)
(* core dump directory for the markers of reports with the case's UUID,    *)
(* waits for crash-reporter to upload them - it reads the upload log, and  *)
(* sleeps on deletions in the directory - and copies what was not uploaded *)
(* in time to the results, deleting it from the directory.                 *)
(*                                                                         *)
(* The dumper and the uploader are programs of the device that work in the *)
(* same directory meanwhile.  The uploader appends a line to the log and   *)
(* then deletes the report: the order the runner relies on.                *)
(***************************************************************************)
EXTENDS Integers, FiniteSets

CONSTANTS
  Reports,   (* reports of crashes during the case                          *)
  Timeouts,  (* values of --core-upload-timeout; negative: wait forever     *)
  Noise      (* bound: deletions of other files in the directory            *)

ASSUME CrashAssumption ==
  /\ IsFiniteSet(Reports)
  /\ Timeouts \subseteq Int
  /\ Noise \in Nat

VARIABLES
  (* The runner: the option, markers that readdir() may not return before   *)
  (* the next rewinddir(), URLs by report name (the hash table), the        *)
  (* inotify watch with its queued events, entries xmlHashScan() has still  *)
  (* to visit, and the one it is at.                                        *)
  pc, timeout, unsure, crashes, watching, events, todo, at, bail_out,
  (* The directory and the log; stuck are markers unlink() cannot remove.   *)
  markers, files, log, stuck, noise,
  (* The results.                                                           *)
  fetched,
  (* Observation only: reports marked before the scan, deleted while the    *)
  (* runner was watching for it and since it could not open the log, and    *)
  (* reports whose copy failed.                                             *)
  early, noticed, failed

table == <<timeout, crashes, todo, at, bail_out>>
watch == <<watching, events>>
disk  == <<files, log, noise>>
marks == <<markers, stuck, unsure>>
seen  == <<early, noticed, failed>>
vars  == <<pc, table, watch, disk, marks, fetched, seen>>

Found   == DOMAIN crashes
Pending == {r \in Found : crashes[r] = ""}

Goto(from, to) == pc = from /\ pc' = to

-----------------------------------------------------------------------------
(* collect_crash_reports()                                                  *)

OpenDir ==
  /\ Goto("open", "scan")
  /\ unsure' = {} /\ early' = markers
  /\ UNCHANGED <<table, watch, disk, markers, stuck, fetched, noticed, failed>>

\* Without the directory there are no reports to fetch.
OpenDirFails ==
  /\ Goto("open", "done")
  /\ UNCHANGED <<table, watch, disk, marks, fetched, seen>>

RewindSkips == markers'
RewindForgotten == unsure
Rewind == {}

\* An entry that is a marker: remember the report, unlink the marker, start
\* the directory again.
ScanMarker(r) ==
  /\ pc = "scan" /\ r \in markers
  /\ crashes' = [f \in Found \cup {r} |-> IF f \in Found THEN crashes[f] ELSE ""]
  /\ markers' = markers \ ({r} \ stuck)
  /\ unsure' = Rewind
  /\ UNCHANGED <<pc, timeout, todo, at, bail_out, watch, disk, stuck, fetched,
                 seen>>

\* readdir() has returned all entries it must return.
ScanEnds ==
  /\ pc = "scan" /\ markers \subseteq unsure
  /\ pc' = IF Found = {} THEN "done" ELSE "log"
  /\ UNCHANGED <<table, watch, disk, marks, fetched, seen>>

-----------------------------------------------------------------------------
(* collect_urls_from_uploadlog_timeout()                                    *)

\* What the loop does with the result of collect_urls_from_uploadlog().
AfterLog ==
  IF Pending' = {} \/ timeout = 0 THEN "leftovers" ELSE IF watching THEN "wait" ELSE "watch"

\* collect_urls_from_uploadlog()
ReadLog ==
  /\ pc = "log"
  /\ crashes' = [r \in Found |-> IF r \in log THEN "url" ELSE crashes[r]]
  /\ pc' = AfterLog
  /\ UNCHANGED <<timeout, todo, at, bail_out, watch, disk, marks, fetched, seen>>

\* fopen() fails although there is a log: it is as if nothing were in it.
OpenLogFails ==
  /\ pc = "log"
  /\ UNCHANGED table
  /\ pc' = AfterLog
  /\ noticed' = {}
  /\ UNCHANGED <<watch, disk, marks, fetched, early, failed>>

AddWatch ==
  /\ Goto("watch", "wait")
  /\ watching' = TRUE
  /\ UNCHANGED <<table, events, disk, marks, fetched, seen>>

\* inotify_init() or inotify_add_watch() fails.
WatchFails ==
  /\ Goto("watch", "leftovers")
  /\ UNCHANGED <<table, watch, disk, marks, fetched, seen>>

AfterEventsWait == "wait"
AfterEvents == "log"

\* read() takes as many events as its buffer holds.
TakeEvents ==
  /\ pc = "wait" /\ events > 0
  /\ events' \in 0..(events - 1)
  /\ pc' = AfterEvents
  /\ UNCHANGED <<table, watching, disk, marks, fetched, seen>>

GivesUpNever == FALSE
GivesUp == timeout > 0

\* select() returns 0.
WaitTimesOut ==
  /\ GivesUp /\ events = 0
  /\ Goto("wait", "leftovers")
  /\ UNCHANGED <<table, watch, disk, marks, fetched, seen>>

\* handle_sigint() or handle_sigterm(): select() is not restarted after it,
\* read() is.
Interrupt ==
  /\ pc # "done" /\ ~bail_out
  /\ bail_out' = TRUE
  /\ \/ UNCHANGED pc
     \/ timeout > 0 /\ events = 0 /\ Goto("wait", "leftovers")
  /\ UNCHANGED <<timeout, crashes, todo, at, watch, disk, marks, fetched, seen>>

-----------------------------------------------------------------------------
(* fetch_leftover_report() with process_get()                               *)

ScanTable ==
  /\ Goto("leftovers", "fetch")
  /\ todo' = Found
  /\ watching' = FALSE /\ events' = 0
  /\ UNCHANGED <<timeout, crashes, at, bail_out, disk, marks, fetched, seen>>

UploadedAssumed(r) == TRUE
Uploaded(r) == crashes[r] # ""

\* Nothing to do for an uploaded report, or while bailing out.
PassOver(r) ==
  /\ pc = "fetch" /\ r \in todo
  /\ Uploaded(r) \/ bail_out
  /\ todo' = todo \ {r}
  /\ UNCHANGED <<pc, timeout, crashes, at, bail_out, watch, disk, marks,
                 fetched, seen>>

BeginCopy(r) ==
  /\ r \in todo /\ ~Uploaded(r) /\ ~bail_out
  /\ Goto("fetch", "copy")
  /\ todo' = todo \ {r} /\ at' = r
  /\ UNCHANGED <<timeout, crashes, bail_out, watch, disk, marks, fetched, seen>>

\* The copy may fail: the report is gone, the disk is full, or an interrupt
\* killed the command.  Its result is logged and otherwise ignored.
Copied(ok) ==
  /\ Goto("copy", "delete")
  /\ ok => at \in files
  /\ fetched' = IF ok THEN fetched \cup {at} ELSE fetched
  /\ failed' = IF ok THEN failed ELSE failed \cup {at}
  /\ UNCHANGED <<table, watch, disk, marks, early, noticed>>

\* delete_after.  The command may fail too: it runs in the chroot and with the
\* remote executor again, so that it may also find the link lost.
Delete(ok) ==
  /\ Goto("delete", "fetch")
  /\ files' = IF ok THEN files \ {at} ELSE files
  /\ \/ UNCHANGED bail_out
     \/ ~ok /\ bail_out' = TRUE
  /\ UNCHANGED <<timeout, crashes, todo, at, watch, log, noise, marks, fetched,
                 seen>>

FetchEnds ==
  /\ todo = {}
  /\ Goto("fetch", "done")
  /\ UNCHANGED <<table, watch, disk, marks, fetched, seen>>

-----------------------------------------------------------------------------
(* The device.                                                              *)

Undumped == Reports \ (markers \cup files \cup log \cup Found)

\* rich-core-dumper writes a report and its marker.
Dump(r) ==
  /\ r \in Undumped
  /\ files' = files \cup {r} /\ markers' = markers \cup {r}
  /\ unsure' = unsure \cup {r}
  /\ UNCHANGED <<pc, table, watch, log, noise, stuck, fetched, seen>>

\* crash-reporter has uploaded a report.
Upload(r) ==
  /\ r \in files \ log
  /\ log' = log \cup {r}
  /\ UNCHANGED <<pc, table, watch, files, noise, marks, fetched, seen>>

\* Deletions in the directory wake the runner, if it watches already.
RemoveUploaded(r) ==
  /\ r \in files \cap log
  /\ files' = files \ {r}
  /\ events' = IF watching THEN events + 1 ELSE events
  /\ noticed' = IF watching /\ pc \in {"wait", "log"}
                THEN noticed \cup {r} ELSE noticed
  /\ UNCHANGED <<pc, table, watching, log, noise, marks, fetched, early, failed>>

RemoveOther ==
  /\ noise < Noise
  /\ noise' = noise + 1
  /\ events' = IF watching THEN events + 1 ELSE events
  /\ UNCHANGED <<pc, table, watching, files, log, marks, fetched, seen>>

-----------------------------------------------------------------------------
Init ==
  /\ pc = "open" /\ timeout \in Timeouts /\ bail_out \in BOOLEAN
  /\ unsure = {} /\ crashes = <<>> /\ watching = FALSE /\ events = 0
  /\ todo = {} /\ at \in Reports
  /\ markers \in SUBSET Reports
  /\ files \in SUBSET markers /\ log \in SUBSET markers
  /\ markers \ files \subseteq log
  /\ stuck \in SUBSET Reports
  /\ noise = 0 /\ fetched = {}
  /\ early = {} /\ noticed = {} /\ failed = {}

Runner ==
  \/ OpenDir
  \/ OpenDirFails
  \/ \E r \in Reports : ScanMarker(r)
  \/ ScanEnds
  \/ ReadLog
  \/ OpenLogFails
  \/ AddWatch
  \/ WatchFails
  \/ TakeEvents
  \/ WaitTimesOut
  \/ ScanTable
  \/ \E r \in Reports : PassOver(r)
  \/ \E r \in Reports : BeginCopy(r)
  \/ \E ok \in BOOLEAN : Copied(ok)
  \/ \E ok \in BOOLEAN : Delete(ok)
  \/ FetchEnds

Device ==
  \/ \E r \in Reports : Dump(r)
  \/ \E r \in Reports : Upload(r)
  \/ \E r \in Reports : RemoveUploaded(r)
  \/ RemoveOther

Next == Runner \/ Device \/ Interrupt

\* The runner goes on; of the device nothing is assumed.
Spec == Init /\ [][Next]_vars /\ WF_vars(Runner)

-----------------------------------------------------------------------------
(* Properties.                                                              *)

PC == {"open", "scan", "log", "watch", "wait", "leftovers", "fetch", "copy",
       "delete", "done"}

FlagTypes == watching \in BOOLEAN /\ bail_out \in BOOLEAN

CountTypes == events \in Nat /\ noise \in 0..Noise

DataTypes ==
  /\ pc \in PC /\ timeout \in Timeouts
  /\ Found \subseteq Reports
  /\ \A r \in Found : crashes[r] \in {"", "url"}
  /\ at \in Reports
  /\ todo \subseteq Found
  /\ unsure \subseteq markers
  /\ markers \subseteq Reports /\ stuck \subseteq Reports
  /\ files \subseteq Reports /\ log \subseteq Reports
  /\ fetched \subseteq Reports /\ early \subseteq Reports
  /\ noticed \subseteq Reports /\ failed \subseteq Reports

\* Types of the variables.
TypeOK == FlagTypes /\ CountTypes /\ DataTypes

\* A report whose marker was there when the scan began is found by it, though
\* the scan deletes from the directory it reads.
ScanFindsAll == pc # "scan" => early \subseteq Found

\* An upload that is finished while the runner watches for it is in the
\* results with its URL, however the wait ends - unless the user ends it or
\* the log cannot be opened any more.
UploadIsNoticed ==
  pc \in {"leftovers", "fetch", "copy", "delete", "done"} /\ ~bail_out =>
    \A r \in noticed \cap Found : crashes[r] = "url"

\* With timeout -1 only a failing watch or a finished upload ends the wait.
PatientWait ==
  pc = "leftovers" /\ timeout < 0 /\ watching => Pending = {}

\* When all is done a report that was found is on the server or in the results,
\* or, if the user interrupted the run, still on the device; whatever the
\* uploader did meanwhile, but unless the copy of it failed.
FoundIsAccountedFor ==
  pc = "done" => Found \subseteq log \cup fetched \cup failed
                                 \cup (IF bail_out THEN files ELSE {})

\* With a timeout the runner gets through, unless it cannot unlink a marker.
RunnerGetsThrough == timeout >= 0 /\ stuck = {} ~> pc = "done"

\* As FoundIsAccountedFor, whether the copy of it failed or not: a report is
\* not deleted from the device before there is another copy of it.
ReportIsKept == pc = "done" => Found \subseteq log \cup fetched \cup files

-----------------------------------------------------------------------------
(* The inductive invariant behind the safety properties.                    *)

Fetching == {"fetch", "copy", "delete", "done"}

\* What the scan has still to return, and where the reports it found are.
ScanFacts ==
  /\ early \subseteq Found \cup (markers \ unsure)
  /\ pc # "scan" => early \subseteq Found
  /\ pc = "open" => Found = {}
  /\ markers \subseteq files \cup log \cup fetched \cup failed
  /\ Found \subseteq files \cup log \cup fetched \cup failed
  /\ \A r \in Found : crashes[r] = "url" => r \in log

\* A deletion noticed in the wait is queued until the log is read again.
WatchFacts ==
  /\ noticed \subseteq log
  /\ pc \in {"open", "scan", "watch"} \cup Fetching => ~watching
  /\ pc = "wait" => watching
  /\ ~watching => events = 0
  /\ pc \in {"open", "scan", "log", "watch"} /\ ~watching => noticed = {}
  /\ pc = "wait" /\ events = 0 => \A r \in noticed \cap Found : crashes[r] = "url"

\* Every entry of the table is still to be visited or dealt with.
FetchFacts ==
  /\ pc \in Fetching /\ ~bail_out =>
       \A r \in Found : \/ r \in todo \cup log \cup fetched \cup failed
                        \/ pc = "copy" /\ r = at
  /\ pc = "delete" => at \in fetched \cup failed
  /\ pc = "done" => todo = {}

Facts ==
  /\ CountTypes
  /\ DataTypes
  /\ ScanFacts
  /\ WatchFacts
  /\ FetchFacts
  /\ UploadIsNoticed
  /\ PatientWait

IndInv == FlagTypes /\ Facts

=============================================================================
