-------------------------- MODULE CrashUploadProofs --------------------------
(***************************************************************************)
(* Proofs about CrashUpload: IndInv is inductive, for any set of reports,  *)
(* any timeouts and any number of other deletions, and implies the safety  *)
(* properties that TLC checks on two reports.                              *)
(***************************************************************************)
EXTENDS CrashUpload, TLAPS

\* The two flags stay Boolean, whatever happens.
LEMMA FlagsStay == TypeOK /\ [Next]_vars => FlagTypes'
<1> SUFFICES ASSUME FlagTypes, [Next]_vars PROVE FlagTypes'
    BY DEF TypeOK
<1>1. CASE UNCHANGED <<watching, bail_out>>
    BY <1>1 DEF FlagTypes
<1>2. CASE watching' \in BOOLEAN /\ UNCHANGED bail_out
    BY <1>2 DEF FlagTypes
<1>3. CASE bail_out' = TRUE /\ UNCHANGED watching
    BY <1>3 DEF FlagTypes
<1>4. \/ UNCHANGED <<watching, bail_out>>
      \/ watching' \in BOOLEAN /\ UNCHANGED bail_out
      \/ bail_out' = TRUE /\ UNCHANGED watching
    BY Zenon DEF Next, Runner, Device, OpenDir, OpenDirFails, ScanMarker, ScanEnds, ReadLog, OpenLogFails,
                 AddWatch, WatchFails, TakeEvents, WaitTimesOut, Interrupt,
                 ScanTable, PassOver, BeginCopy, Copied, Delete, FetchEnds,
                 Dump, Upload, RemoveUploaded, RemoveOther, vars, table,
                 watch
<1> QED BY <1>1, <1>2, <1>3, <1>4

\* Everything that is left alone leaves the invariant alone.
LEMMA FactsStutter == Facts /\ UNCHANGED vars => Facts'
<1> SUFFICES ASSUME Facts, UNCHANGED vars PROVE Facts'
    OBVIOUS
<1>1. /\ UNCHANGED <<pc, timeout, unsure, crashes, watching, events, todo, at,
                     bail_out>>
      /\ UNCHANGED <<markers, files, log, stuck, noise, fetched, early, noticed,
                     failed>>
      /\ UNCHANGED <<Found, Pending>>
    BY DEF vars, table, watch, disk, marks, seen, Found, Pending
<1>2. CountTypes' /\ DataTypes'
    BY <1>1 DEF Facts, CountTypes, DataTypes
<1>3. ScanFacts' /\ WatchFacts'
    BY <1>1 DEF Facts, ScanFacts, WatchFacts
<1>4. FetchFacts' /\ UploadIsNoticed' /\ PatientWait'
    BY <1>1 DEF Facts, FetchFacts, UploadIsNoticed, PatientWait
<1> QED BY <1>2, <1>3, <1>4 DEF Facts

\* The invariant holds before the scan.
LEMMA FactsInit == Init => Facts
<1> SUFFICES ASSUME Init PROVE Facts
    OBVIOUS
<1>1. Found = {}
    BY DEF Init, Found
<1>2. CountTypes /\ DataTypes
    BY <1>1, CrashAssumption DEF Init, CountTypes, DataTypes, PC
<1>3. ScanFacts
    BY <1>1 DEF Init, ScanFacts
<1>4. WatchFacts /\ FetchFacts /\ UploadIsNoticed /\ PatientWait
    BY DEF Init, WatchFacts, FetchFacts, UploadIsNoticed, PatientWait,
           Fetching
<1> QED BY <1>2, <1>3, <1>4 DEF Facts

\* collect_crash_reports() preserves it.
LEMMA ScanKeeps ==
  ASSUME Facts, NEW r \in Reports, OpenDir \/ OpenDirFails \/ ScanMarker(r) \/ ScanEnds
  PROVE  Facts'
<1>1. CASE ScanMarker(r)
  <2>1. /\ Found' = Found \cup {r}
        /\ \A f \in Found' :
             crashes'[f] = IF f \in Found THEN crashes[f] ELSE ""
      BY <1>1 DEF ScanMarker, Found
  <2>2. CountTypes' /\ DataTypes'
      BY <1>1, <2>1 DEF Facts, CountTypes, DataTypes, ScanMarker, Rewind,
                        watch, disk, seen
  <2>3. ScanFacts'
      BY <1>1, <2>1 DEF Facts, CountTypes, DataTypes, ScanFacts, ScanMarker,
                        Rewind, watch, disk, seen
  <2>4. WatchFacts' /\ FetchFacts' /\ UploadIsNoticed' /\ PatientWait'
      BY <1>1 DEF Facts, WatchFacts, FetchFacts, UploadIsNoticed, PatientWait,
                  Fetching, ScanMarker, watch, disk, seen
  <2> QED BY <2>2, <2>3, <2>4 DEF Facts
<1>2. CASE ScanEnds
  <2>1. CountTypes' /\ DataTypes' /\ ScanFacts'
      BY <1>2 DEF Facts, CountTypes, DataTypes, PC, ScanFacts, ScanEnds,
                  Found, table, watch, disk, marks, seen
  <2>2. WatchFacts' /\ FetchFacts' /\ UploadIsNoticed' /\ PatientWait'
      BY <1>2 DEF Facts, CountTypes, DataTypes, WatchFacts, FetchFacts,
                  UploadIsNoticed, PatientWait, Fetching, ScanEnds, Found,
                  table, watch, disk, marks, seen
  <2> QED BY <2>1, <2>2 DEF Facts
<1>3. CASE OpenDir \/ OpenDirFails
  <2>1. Found = {} /\ todo = {} /\ ~watching /\ noticed = {} /\ noticed' = {}
      BY <1>3 DEF Facts, DataTypes, ScanFacts, WatchFacts, OpenDir,
                  OpenDirFails, Goto, seen
  <2>2. UNCHANGED <<Found, crashes, todo, watching, events, bail_out>>
      BY <1>3 DEF OpenDir, OpenDirFails, Found, table, watch
  <2>3. CountTypes' /\ DataTypes'
      BY <1>3, <2>2 DEF Facts, CountTypes, DataTypes, PC, OpenDir,
                        OpenDirFails, Goto, table, disk, marks, seen
  <2>4. ScanFacts'
      BY <1>3, <2>1, <2>2 DEF Facts, ScanFacts, OpenDir, OpenDirFails, Goto,
                              disk, marks, seen
  <2>5. WatchFacts' /\ FetchFacts' /\ UploadIsNoticed' /\ PatientWait'
      BY <1>3, <2>1, <2>2 DEF Facts, WatchFacts, FetchFacts, Fetching,
                              UploadIsNoticed, PatientWait, OpenDir,
                              OpenDirFails, Goto
  <2> QED BY <2>3, <2>4, <2>5 DEF Facts
<1> QED BY <1>1, <1>2, <1>3

\* Reading the log preserves it: what is noticed is in the log.
LEMMA LogKeeps ==
  ASSUME Facts, ReadLog
  PROVE  Facts'
<1>1. /\ Found' = Found
      /\ \A r \in Found : crashes'[r] = IF r \in log THEN "url" ELSE crashes[r]
    BY DEF ReadLog, Found
<1>2. pc = "log" /\ pc' \in {"leftovers", "wait", "watch"}
    BY DEF ReadLog, AfterLog
<1>3. CountTypes' /\ DataTypes'
    BY <1>1, <1>2 DEF Facts, CountTypes, DataTypes, PC, ReadLog, watch, disk,
                      marks, seen
<1>4. ScanFacts'
    BY <1>1, <1>2 DEF Facts, ScanFacts, ReadLog, disk, marks, seen
<1>5. WatchFacts'
    BY <1>1, <1>2 DEF Facts, WatchFacts, Fetching, ReadLog, AfterLog, watch, disk, seen
<1>6. FetchFacts' /\ PatientWait'
    BY <1>2 DEF Facts, FetchFacts, PatientWait, Fetching, ReadLog, AfterLog
<1>7. UploadIsNoticed'
    BY <1>1 DEF Facts, WatchFacts, UploadIsNoticed, ReadLog, disk, seen
<1> QED BY <1>3, <1>4, <1>5, <1>6, <1>7 DEF Facts

\* Not reading it preserves it too: what was noticed before is given up.
LEMMA NoLogKeeps ==
  ASSUME Facts, OpenLogFails
  PROVE  Facts'
<1>1. Found' = Found /\ Pending' = Pending /\ crashes' = crashes /\ noticed' = {}
    BY DEF OpenLogFails, table, Found, Pending
<1>2. pc = "log" /\ pc' \in {"leftovers", "wait", "watch"}
    BY DEF OpenLogFails, AfterLog
<1>3. CountTypes' /\ DataTypes'
    BY <1>1, <1>2 DEF Facts, CountTypes, DataTypes, PC, OpenLogFails, table, watch, disk, marks
<1>4. ScanFacts'
    BY <1>1, <1>2 DEF Facts, ScanFacts, OpenLogFails, table, disk, marks
<1>5. WatchFacts' /\ UploadIsNoticed'
    BY <1>1, <1>2 DEF Facts, WatchFacts, UploadIsNoticed, Fetching, OpenLogFails, AfterLog,
                      table, watch, disk
<1>6. FetchFacts' /\ PatientWait'
    BY <1>1, <1>2 DEF Facts, FetchFacts, PatientWait, Fetching, OpenLogFails, AfterLog,
                      table, watch
<1> QED BY <1>3, <1>4, <1>5, <1>6 DEF Facts

\* So does every way into and out of the wait.
LEMMA WaitKeeps ==
  ASSUME Facts, AddWatch \/ WatchFails \/ TakeEvents \/ WaitTimesOut
  PROVE  Facts'
<1>1. Found' = Found /\ Pending' = Pending /\ crashes' = crashes
    BY DEF AddWatch, WatchFails, TakeEvents, WaitTimesOut, Found, Pending,
           table
<1>2. DataTypes'
    BY <1>1 DEF Facts, DataTypes, PC, AddWatch, WatchFails, TakeEvents,
                WaitTimesOut, AfterEvents, Goto, table, disk, marks, seen
<1>8. CountTypes'
    BY DEF Facts, CountTypes, AddWatch, WatchFails, TakeEvents, WaitTimesOut,
           watch, disk
<1>3. ScanFacts'
    BY <1>1 DEF Facts, ScanFacts, AddWatch, WatchFails, TakeEvents,
                WaitTimesOut, AfterEvents, Goto, table, disk, marks, seen
<1>4. WatchFacts'
    BY <1>1 DEF Facts, CountTypes, DataTypes, WatchFacts, Fetching, AddWatch,
                WatchFails, TakeEvents, WaitTimesOut, AfterEvents, Goto,
                table, watch, disk, marks, seen
<1>5. FetchFacts'
    BY <1>1 DEF Facts, FetchFacts, Fetching, AddWatch, WatchFails, TakeEvents,
                WaitTimesOut, AfterEvents, Goto
<1>6. UploadIsNoticed'
    BY <1>1 DEF Facts, WatchFacts, UploadIsNoticed, AddWatch, WatchFails,
                TakeEvents, WaitTimesOut, AfterEvents, Goto, table, watch,
                seen
<1>7. PatientWait'
  <2>1. CASE WatchFails
      BY <2>1 DEF Facts, WatchFacts, PatientWait, WatchFails, Goto, watch
  <2>2. CASE WaitTimesOut
    <3>1. timeout' = timeout /\ timeout > 0
        BY <2>2 DEF WaitTimesOut, GivesUp, table
    <3>2. timeout \in Int
        BY CrashAssumption DEF Facts, DataTypes
    <3> QED BY <3>1, <3>2 DEF PatientWait
  <2>3. CASE AddWatch \/ TakeEvents
      BY <2>3 DEF PatientWait, AddWatch, TakeEvents, AfterEvents, Goto
  <2> QED BY <2>1, <2>2, <2>3
<1> QED BY <1>2, <1>3, <1>4, <1>5, <1>6, <1>7, <1>8 DEF Facts

\* An interrupt ends the wait only where a timeout would.
LEMMA InterruptKeeps ==
  ASSUME Facts, Interrupt
  PROVE  Facts'
<1>1. /\ Found' = Found /\ crashes' = crashes /\ Pending' = Pending
      /\ bail_out'
    BY DEF Interrupt, Found, Pending
<1>2. pc' = pc \/ (pc = "wait" /\ pc' = "leftovers" /\ timeout > 0)
    BY DEF Interrupt, Goto
<1>3. CountTypes' /\ DataTypes' /\ ScanFacts'
    BY <1>1, <1>2 DEF Facts, CountTypes, DataTypes, PC, ScanFacts, Interrupt,
                      watch, disk,
                      marks, seen
<1>4. WatchFacts' /\ FetchFacts'
    BY <1>1, <1>2 DEF Facts, WatchFacts, FetchFacts, Fetching, Interrupt,
                      watch,
                      disk, marks, seen
<1>5. UploadIsNoticed'
    BY <1>1 DEF UploadIsNoticed
<1>6. CASE pc' = pc
  <2>1. PatientWait'
      BY <1>1, <1>6 DEF Facts, PatientWait, Interrupt, watch
  <2> QED BY <2>1, <1>3, <1>4, <1>5 DEF Facts
<1>7. CASE timeout > 0
  <2>1. timeout' = timeout /\ timeout \in Int
      BY CrashAssumption DEF Facts, DataTypes, Interrupt
  <2> QED BY <2>1, <1>7, <1>3, <1>4, <1>5 DEF Facts, PatientWait
<1> QED BY <1>2, <1>6, <1>7

\* Fetching the leftovers preserves it.
LEMMA FetchKeeps ==
  ASSUME Facts,
         \/ ScanTable
         \/ \E r \in Reports : PassOver(r)
         \/ \E r \in Reports : BeginCopy(r)
         \/ \E ok \in BOOLEAN : Copied(ok)
         \/ \E ok \in BOOLEAN : Delete(ok)
         \/ FetchEnds
  PROVE  Facts'
<1>1. /\ Found' = Found /\ crashes' = crashes /\ (bail_out => bail_out')
      /\ UNCHANGED <<timeout, log, noise, marks, early, noticed>>
      /\ ~watching' /\ events' = 0
    BY DEF Facts, WatchFacts, Fetching, ScanTable, PassOver, BeginCopy,
           Copied, Delete, FetchEnds, Goto, Found, table, watch, disk, seen
<1>2. pc \in {"leftovers"} \cup Fetching /\ pc' \in Fetching
    BY DEF ScanTable, PassOver, BeginCopy, Copied, Delete, FetchEnds, Goto,
           Fetching
<1>3. CountTypes' /\ DataTypes'
    BY <1>1, <1>2 DEF Facts, CountTypes, DataTypes, PC, Fetching, ScanTable,
                      PassOver, BeginCopy, Copied, Delete, FetchEnds, Goto,
                      table, disk,
                      marks, seen
<1>4. ScanFacts'
    BY <1>1, <1>2 DEF Facts, ScanFacts, FetchFacts, Fetching, ScanTable,
                      PassOver, BeginCopy, Copied, Delete, FetchEnds, Goto,
                      disk,
                      marks, seen
<1>5. WatchFacts'
    BY <1>1, <1>2 DEF Facts, WatchFacts, Fetching
<1>6. FetchFacts'
    BY <1>1 DEF Facts, CountTypes, DataTypes, ScanFacts, FetchFacts,
                Fetching, Uploaded, ScanTable, PassOver, BeginCopy, Copied,
                Delete, FetchEnds, Goto,
                table, disk, seen
<1>7. UploadIsNoticed' /\ PatientWait'
    BY <1>1, <1>2 DEF Facts, UploadIsNoticed, PatientWait, Fetching
<1> QED BY <1>3, <1>4, <1>5, <1>6, <1>7 DEF Facts

\* The dumper and the uploader preserve it.
LEMMA DeviceKeeps ==
  ASSUME Facts, Device
  PROVE  Facts'
<1>1. /\ Found' = Found /\ crashes' = crashes /\ Pending' = Pending
      /\ UNCHANGED <<pc, table, watching, fetched, early, failed>>
    BY DEF Device, Dump, Upload, RemoveUploaded, RemoveOther, Found, Pending,
           table, watch, seen
<1>2. CASE \E r \in Reports : Dump(r)
  <2>1. CountTypes' /\ DataTypes'
      BY <1>1, <1>2 DEF Facts, CountTypes, DataTypes, Dump, table, watch, seen
  <2>3. ScanFacts'
      BY <1>1, <1>2 DEF Facts, ScanFacts, Dump, Undumped, table, seen
  <2>2. WatchFacts' /\ FetchFacts' /\ UploadIsNoticed' /\ PatientWait'
      BY <1>1, <1>2 DEF Facts, WatchFacts, FetchFacts, UploadIsNoticed,
                        PatientWait, Dump, table, watch, seen
  <2> QED BY <2>1, <2>2, <2>3 DEF Facts
<1>3. CASE \E r \in Reports : Upload(r)
  <2>1. CountTypes' /\ DataTypes'
      BY <1>1, <1>3 DEF Facts, CountTypes, DataTypes, Upload, table, watch,
                        marks, seen
  <2>3. ScanFacts'
      BY <1>1, <1>3 DEF Facts, ScanFacts, Upload, table, marks, seen
  <2>2. WatchFacts' /\ FetchFacts' /\ UploadIsNoticed' /\ PatientWait'
      BY <1>1, <1>3 DEF Facts, WatchFacts, FetchFacts, UploadIsNoticed,
                        PatientWait, Upload, table, watch, seen
  <2> QED BY <2>1, <2>2, <2>3 DEF Facts
<1>4. CASE \E r \in Reports : RemoveUploaded(r)
  <2>1. DataTypes'
      BY <1>1, <1>4 DEF Facts, DataTypes, RemoveUploaded, table, marks
  <2>5. CountTypes' /\ (events' = 0 => events = 0 /\ ~watching)
      BY <1>4 DEF Facts, CountTypes, RemoveUploaded
  <2>2. ScanFacts'
      BY <1>1, <1>4 DEF Facts, ScanFacts, RemoveUploaded, table, marks
  <2>3. WatchFacts'
      BY <1>1, <1>4, <2>5 DEF Facts, WatchFacts, Fetching, RemoveUploaded
  <2>4. FetchFacts' /\ UploadIsNoticed' /\ PatientWait'
      BY <1>1, <1>4 DEF Facts, WatchFacts, FetchFacts, UploadIsNoticed,
                        PatientWait, RemoveUploaded, table
  <2> QED BY <2>1, <2>2, <2>3, <2>4, <2>5 DEF Facts
<1>5. CASE RemoveOther
  <2>1. DataTypes'
      BY <1>1, <1>5 DEF Facts, DataTypes, RemoveOther, table, marks, seen
  <2>4. /\ CountTypes' /\ (events' = 0 => events = 0 /\ ~watching)
        /\ ~watching => events' = events
      BY <1>5, CrashAssumption DEF Facts, CountTypes, RemoveOther
  <2>3. ScanFacts'
      BY <1>1, <1>5 DEF Facts, ScanFacts, RemoveOther, table, marks, seen
  <2>2. WatchFacts' /\ FetchFacts' /\ UploadIsNoticed' /\ PatientWait'
      BY <1>1, <1>5, <2>4 DEF Facts, WatchFacts, FetchFacts, UploadIsNoticed,
                              PatientWait, RemoveOther, table, seen
  <2> QED BY <2>1, <2>2, <2>3, <2>4 DEF Facts
<1> QED BY <1>2, <1>3, <1>4, <1>5 DEF Device

\* The strengthening is invariant.
THEOREM CrashIndInv == Spec => []IndInv
<1>1. Init => IndInv
    BY FactsInit DEF Init, IndInv, FlagTypes
<1>2. IndInv /\ [Next]_vars => IndInv'
  <2> SUFFICES ASSUME Facts, FlagTypes, [Next]_vars PROVE IndInv'
      BY DEF IndInv, Facts
  <2>1. (\E r \in Reports : ScanMarker(r)) => Facts'
      BY ScanKeeps
  <2>2. OpenDir \/ OpenDirFails \/ ScanEnds => Facts'
    <3>1. at \in Reports
        BY DEF Facts, CountTypes, DataTypes
    <3> QED BY <3>1, ScanKeeps
  <2>3. FlagTypes'
      BY FlagsStay DEF Facts, TypeOK
  <2>4. Facts'
    <3>1. Next \/ UNCHANGED vars
        OBVIOUS
    <3> QED BY <2>1, <2>2, <3>1, LogKeeps, NoLogKeeps, WaitKeeps, FetchKeeps, DeviceKeeps,
               InterruptKeeps, FactsStutter DEF Next, Runner
  <2> QED BY <2>3, <2>4 DEF IndInv
<1> QED BY <1>1, <1>2, PTL DEF Spec

\* Every variable keeps its type.
THEOREM CrashTypes == Spec => []TypeOK
<1>1. IndInv => TypeOK
    BY DEF IndInv, Facts, TypeOK
<1> QED BY <1>1, CrashIndInv, PTL

\* The scan of the directory it deletes from misses no marker that was there.
THEOREM CrashScanFindsAll == Spec => []ScanFindsAll
<1>1. IndInv => ScanFindsAll
    BY DEF IndInv, Facts, ScanFacts, ScanFindsAll
<1> QED BY <1>1, CrashIndInv, PTL

\* An upload finished while the runner watches is in the results.
THEOREM CrashUploadIsNoticed == Spec => []UploadIsNoticed
<1>1. IndInv => UploadIsNoticed
    BY DEF IndInv, Facts
<1> QED BY <1>1, CrashIndInv, PTL

\* With timeout -1 the runner does not give up waiting.
THEOREM CrashPatientWait == Spec => []PatientWait
<1>1. IndInv => PatientWait
    BY DEF IndInv, Facts
<1> QED BY <1>1, CrashIndInv, PTL

\* No report that was found is unaccounted for, if its copy did not fail.
THEOREM CrashFoundIsAccountedFor == Spec => []FoundIsAccountedFor
<1>1. IndInv => FoundIsAccountedFor
    BY DEF IndInv, Facts, DataTypes, ScanFacts, FetchFacts, Fetching,
           FoundIsAccountedFor
<1> QED BY <1>1, CrashIndInv, PTL

=============================================================================
