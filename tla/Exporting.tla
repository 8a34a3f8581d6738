------------------------------ MODULE Exporting ------------------------------
(***************************************************************************)
(* The exports of the pages: files that a toolbar makes in the browser,    *)
(* delivers, and offers to the shared gallery when asked to; and the list  *)
(* of that gallery, which other visitors change.  A page has one toolbar,  *)
(* which runs one export at a time; an export goes on when the page is     *)
(* left, while that of the next page may run.                              *)
(***************************************************************************)
EXTENDS Naturals, SequencesExt, FiniteSetsExt

CONSTANTS
  Toolbar,
  None,
  Duration, Interval,   \* of a recording, and between its frames
  MinDelay,             \* MIN_GIF_DELAY_MS
  MaxRender,            \* bound: time to render a frame
  MaxExports,           \* bound: exports
  Fetcher,              \* refreshes of the list that may overlap
  MaxVersions,          \* bound: changes of the gallery
  MaxRefreshes          \* bound: refreshes

VARIABLES
  export,     \* export[t]: the export of a toolbar
  told,       \* told[t]: what the toolbar says of its last export
  notice,     \* pendingNotice, of which there is one for all
  recording,  \* the toolbars whose MediaRecorder records
  exports,
  gallery,    \* number of changes of the shared gallery
  list,       \* the list the picker shows, as the number it was read at
  problem,    \* what the picker says went wrong
  fetching,   \* the refreshes and removals that are pending
  refreshes,
  config,     \* whether the configuration lets visitors delete, None before it is read
  last,       \* history: the last refresh that ended
  crossed     \* history: two of them overlapped

vars == <<export, told, notice, recording, exports, gallery, list, problem, fetching,
          refreshes, config, last, crossed>>
toolbarVars == <<export, told, notice, recording, exports>>
pickerVars == <<gallery, list, problem, fetching, refreshes, config, last, crossed>>

Kind == {"data", "text", "log", "png", "gif", "webm"}

TypeOK ==
  /\ \A t \in Toolbar :
       /\ export[t].at \in {"idle", "fetch", "render", "record", "encode", "stop", "upload"}
       /\ export[t].kind \in Kind /\ export[t].elapsed \in 0 .. Duration + MaxRender + Interval
       /\ told[t].error \in BOOLEAN /\ told[t].notice \in BOOLEAN
  /\ notice \in BOOLEAN /\ recording \subseteq Toolbar /\ exports \in 0 .. MaxExports
  /\ gallery \in 0 .. MaxVersions /\ list \in 0 .. MaxVersions \cup {None}
  /\ config \in BOOLEAN \cup {None}
  /\ problem \in {"none", "list", "delete"} /\ refreshes \in 0 .. MaxRefreshes

-----------------------------------------------------------------------------
(* The toolbar.                                                            *)

\* History: whether the file was delivered, and whether the upload failed.
NoExport ==
  [at |-> "idle", kind |-> "text", gallery |-> FALSE, elapsed |-> 0, next |-> 0,
   times |-> <<>>, encoded |-> 0, delivered |-> FALSE, failed |-> FALSE]

Told(e, error, note) ==
  [error |-> error, notice |-> note, delivered |-> e.delivered, failed |-> e.failed,
   times |-> e.times, encoded |-> e.encoded, kind |-> e.kind, elapsed |-> e.elapsed]

Starts(kind) ==
  CASE kind = "log" -> "fetch" [] kind = "png" -> "render"
    [] kind \in {"gif", "webm"} -> "record" [] OTHER -> "idle"

\* takeExportNotice: read and cleared.
Taken == FALSE

\* The export is over, with the error it threw or with the note it left.
End(t, e, error) ==
  /\ export' = [export EXCEPT ![t] = NoExport]
  /\ told' = [told EXCEPT ![t] = Told(e, error, ~error /\ (notice \/ e.failed))]
  /\ notice' = IF error THEN notice \/ e.failed ELSE Taken

\* saveToBackendAndDownload: delivered from memory, then offered to the gallery.
Deliver(t, e) ==
  LET given == [e EXCEPT !.delivered = TRUE]
  IN IF e.gallery THEN export' = [export EXCEPT ![t] = [given EXCEPT !.at = "upload"]]
                       /\ UNCHANGED <<told, notice>>
     ELSE End(t, given, FALSE)

\* wrap, of a button that is not disabled.  The logs never go to the gallery.
Press(t, kind, shared) ==
  /\ export[t].at = "idle" /\ exports < MaxExports
  /\ shared => kind \notin {"text", "log"}
  /\ exports' = exports + 1
  /\ recording' = IF kind = "webm" THEN recording \cup {t} ELSE recording
  /\ LET e == [NoExport EXCEPT !.at = Starts(kind), !.kind = kind, !.gallery = shared]
     IN IF e.at = "idle" THEN Deliver(t, e)
        ELSE export' = [export EXCEPT ![t] = e]
             /\ told' = [told EXCEPT ![t] = Told(NoExport, FALSE, FALSE)] /\ UNCHANGED notice
  /\ UNCHANGED pickerVars

\* The browser cannot record, or there is nothing to record.
PressInVain(t, kind) ==
  /\ export[t].at = "idle" /\ exports < MaxExports
  /\ exports' = exports + 1
  /\ End(t, [NoExport EXCEPT !.kind = kind], TRUE)
  /\ UNCHANGED <<recording, pickerVars>>

\* downloadServiceLog, downloadPNG.
Rendered(t) ==
  /\ export[t].at \in {"fetch", "render"}
  /\ Deliver(t, export[t])
  /\ UNCHANGED <<recording, exports, pickerVars>>

\* A frame of downloadGif, on an absolute schedule, or of downloadWebM, which
\* sleeps after each.
Frame(t, render) ==
  /\ export[t].at = "record" /\ export[t].elapsed < Duration
  /\ LET e == export[t]
         next == IF e.kind = "gif" THEN e.next + Interval ELSE e.elapsed + render + Interval
     IN export' = [export EXCEPT ![t] = [e EXCEPT
          !.times = Append(@, e.elapsed), !.next = next,
          !.elapsed = Max({e.elapsed + render, next})]]
  /\ UNCHANGED <<told, notice, recording, exports, pickerVars>>

EndRecording(t) ==
  /\ export[t].at = "record" /\ export[t].elapsed >= Duration
  /\ export' = [export EXCEPT ![t].at = IF export[t].kind = "gif" THEN "encode" ELSE "stop"]
  /\ recording' = recording \ {t}
  /\ UNCHANGED <<told, notice, exports, pickerVars>>

\* encodeGifFrames awaits every frame.
EncodeFrame(t) ==
  /\ export[t].at = "encode" /\ export[t].encoded < Len(export[t].times)
  /\ export' = [export EXCEPT ![t].encoded = @ + 1]
  /\ UNCHANGED <<told, notice, recording, exports, pickerVars>>

\* Mutant: the flush waits for no frame.
FlushAtOnce(e) == TRUE

AllEncoded(e) == e.encoded = Len(e.times)

\* The flush of the encoder; the recorder has stopped.
Flush(t) ==
  /\ \/ export[t].at = "encode" /\ AllEncoded(export[t])
     \/ export[t].at = "stop"
  /\ Deliver(t, export[t])
  /\ UNCHANGED <<recording, exports, pickerVars>>

\* A rendering, the encoder or an answer fails, or a recording has no data.  A
\* recorder goes on.
Throws(t) ==
  /\ export[t].at \in {"fetch", "render", "record", "encode", "stop"}
  /\ End(t, export[t], TRUE)
  /\ UNCHANGED <<recording, exports, pickerVars>>

\* The answer of POST /api/exports/save, or none.
Uploaded(t, ok) ==
  /\ export[t].at = "upload"
  /\ End(t, [export[t] EXCEPT !.failed = ~ok], FALSE)
  /\ UNCHANGED <<recording, exports, pickerVars>>

-----------------------------------------------------------------------------
(* The picker of the shared gallery.                                       *)

NoFetch == [at |-> "idle", since |-> 0, seen |-> 0, failed |-> FALSE]
Quiet == \A r \in Fetcher : fetching[r].at = "idle"

\* useRuntimeConfig: read once; restrictive when it cannot be read.
ReadConfig(allowed, ok) ==
  /\ config = None
  /\ config' = (ok /\ allowed)
  /\ UNCHANGED <<toolbarVars, gallery, list, problem, fetching, refreshes, last, crossed>>

\* refresh, when the list is opened or the button is pressed.
Fetch(r) ==
  /\ fetching[r].at = "idle" /\ refreshes < MaxRefreshes
  /\ refreshes' = refreshes + 1
  /\ problem' = "none"
  /\ fetching' = [fetching EXCEPT ![r] = [NoFetch EXCEPT !.at = "ask", !.since = gallery]]
  /\ crossed' = (crossed \/ ~Quiet)
  /\ UNCHANGED <<toolbarVars, gallery, list, config, last>>

\* remove, where the backend allows it.
RemoveExport(r) ==
  /\ config = TRUE
  /\ fetching[r].at = "idle" /\ refreshes < MaxRefreshes /\ list # None
  /\ refreshes' = refreshes + 1
  /\ fetching' = [fetching EXCEPT ![r] = [NoFetch EXCEPT !.at = "delete"]]
  /\ crossed' = (crossed \/ ~Quiet)
  /\ UNCHANGED <<toolbarVars, gallery, list, problem, config, last>>

\* export_delete answered, 404 for a file that is not there any more; the list is
\* read again either way.
Removed(r, ok) ==
  /\ fetching[r].at = "delete"
  /\ ok => gallery < MaxVersions
  /\ gallery' = IF ok THEN gallery + 1 ELSE gallery
  /\ problem' = "none"
  /\ fetching' = [fetching EXCEPT ![r] =
       [NoFetch EXCEPT !.at = "ask", !.since = gallery', !.failed = ~ok]]
  /\ UNCHANGED <<toolbarVars, list, refreshes, config, last, crossed>>

\* export_list.
Listed(r) ==
  /\ fetching[r].at = "ask"
  /\ fetching' = [fetching EXCEPT ![r].at = "answer", ![r].seen = gallery]
  /\ UNCHANGED <<toolbarVars, gallery, list, problem, refreshes, config, last, crossed>>

\* A refused removal is said after the refresh that follows it.
Problem(failed, ok) ==
  IF failed THEN "delete" ELSE IF ok THEN "none" ELSE "list"

Fetched(r, ok) ==
  /\ \/ fetching[r].at = "answer"
     \/ fetching[r].at = "ask" /\ ~ok
  /\ list' = IF ok THEN fetching[r].seen ELSE None
  /\ problem' = Problem(fetching[r].failed, ok)
  /\ fetching' = [fetching EXCEPT ![r] = NoFetch]
  /\ last' = [fetching[r] EXCEPT !.at = IF ok THEN "read" ELSE "lost"]
  /\ UNCHANGED <<toolbarVars, gallery, refreshes, config, crossed>>

\* Another visitor saves or deletes.
Change ==
  /\ gallery < MaxVersions
  /\ gallery' = gallery + 1
  /\ UNCHANGED <<toolbarVars, list, problem, fetching, refreshes, config, last, crossed>>

-----------------------------------------------------------------------------
Init ==
  /\ export = [t \in Toolbar |-> NoExport]
  /\ told = [t \in Toolbar |-> Told(NoExport, FALSE, FALSE)]
  /\ notice = FALSE /\ recording = {} /\ exports = 0
  /\ gallery = 0 /\ list = None /\ problem = "none" /\ refreshes = 0
  /\ fetching = [r \in Fetcher |-> NoFetch]
  /\ config = None /\ last = NoFetch /\ crossed = FALSE

Use(t) ==
  \/ \E kind \in Kind, shared \in BOOLEAN : Press(t, kind, shared)
  \/ \E kind \in {"png", "gif", "webm"} : PressInVain(t, kind)
  \/ Rendered(t)
  \/ \E render \in 0 .. MaxRender : Frame(t, render)
  \/ EndRecording(t) \/ EncodeFrame(t) \/ Flush(t) \/ Throws(t)
  \/ \E ok \in BOOLEAN : Uploaded(t, ok)

Browse(r) ==
  \/ Fetch(r) \/ RemoveExport(r) \/ Listed(r)
  \/ \E ok \in BOOLEAN : Removed(r, ok) \/ Fetched(r, ok)

Toolbars == \E t \in Toolbar : Use(t)

Picker ==
  \/ \E r \in Fetcher : Browse(r)
  \/ \E allowed, ok \in BOOLEAN : ReadConfig(allowed, ok)
  \/ Change

Next == Toolbars \/ Picker

Spec == Init /\ [][Next]_vars

-----------------------------------------------------------------------------
(* Properties.                                                             *)

\* Nothing is uploaded that was not delivered; an export that ends without an
\* error has delivered its file, and one that ends with an error has not, so a
\* failed upload costs nobody a file (saveToBackendAndDownload, wrap).
DeliveredFirst ==
  \A t \in Toolbar :
    /\ export[t].at = "upload" => export[t].delivered
    /\ told[t].delivered => ~told[t].error
    /\ told[t].failed => told[t].delivered

\* The note about the gallery is that of the export it is shown for, although
\* all toolbars share one, and none is left over (takeExportNotice).
NoteIsOwn == ~notice /\ \A t \in Toolbar : told[t].notice = told[t].failed

\* gifFrameDelays: the frames' delays, for a recording that took so long.
Delay(times, elapsed, i) ==
  Max({MinDelay, (IF i < Len(times) THEN times[i + 1] ELSE elapsed) - times[i]})
Playback(times, elapsed) ==
  MapThenSumSet(LAMBDA i : Delay(times, elapsed, i), DOMAIN times)

\* A GIF that was delivered holds every frame that was captured, none ahead of
\* its schedule, and plays as long as its recording took, however long frames
\* took to render; the shortest delay a decoder respects can only lengthen it
\* (encodeGifFrames, gifFrameDelays).
GifIsTheRecording ==
  \A t \in Toolbar : told[t].delivered /\ told[t].kind = "gif" =>
    LET times == told[t].times
        gaps == {(IF i < Len(times) THEN times[i + 1] ELSE told[t].elapsed) - times[i]
                   : i \in DOMAIN times}
        playback == Playback(times, told[t].elapsed)
    IN /\ told[t].encoded = Len(times) /\ times # <<>>
       /\ \A i \in DOMAIN times : times[i] >= (i - 1) * Interval
       /\ playback >= told[t].elapsed
       /\ (\A g \in gaps : g >= MinDelay) => playback = told[t].elapsed

\* When nothing is pending and nothing overlapped, the list is not older than
\* the refresh that read it, and what is said is about the last request: that
\* the file could not be deleted, that the list could not be read, or nothing
\* (refresh, remove).
PickerTells ==
  Quiet /\ ~crossed /\ last.at # "idle" =>
    /\ problem = (IF last.failed THEN "delete" ELSE IF last.at = "read" THEN "none" ELSE "list")
    /\ IF last.at = "read" THEN list \in last.since .. gallery ELSE list = None

FilesAreDelivered == DeliveredFirst /\ NoteIsOwn /\ GifIsTheRecording /\ PickerTells
=============================================================================
