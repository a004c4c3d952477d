------------------------ MODULE DocumentAnalysisTask ------------------------
(***************************************************************************)
(* worker/tasks/document_analysis.py: the Celery task that scans a file in *)
(* chunks of lines for keywords, streams one snippet per hit and reports   *)
(* progress in bytes.  A hit is its position in the file.  Another worker  *)
(* may be downloading the same document into the same file.                *)
(***************************************************************************)
EXTENDS TaskReporter, FiniteSetsExt

CONSTANTS
    DOCUMENT_BYTES,          \* size of the whole document (it may be empty)
    MAX_SNIPPETS_PER_CHUNK,
    MaxHits                  \* bound: hits in one chunk of lines

ASSUME DocumentAssumption == DOCUMENT_BYTES \in Nat
ASSUME SnippetsAssumption == MAX_SNIPPETS_PER_CHUNK \in Nat \ {0}
ASSUME MaxHitsAssumption == MaxHits \in Nat

VARIABLES
    tell,       \* handle.tell(): where the next chunk of lines starts
    hits,       \* matches of the current chunk not yet emitted
    snippets,   \* snippets_emitted in the current chunk
    bytesRead,  \* the progress the next RUNNING status reports
    totalBytes, \* total_bytes: the size of the file when the task looked
    fileEnd,    \* where the file, or what the handle has buffered of it, ends now
    truncated   \* history: the file was truncated under the scan

scan == <<tell, hits, snippets, bytesRead, totalBytes, fileEnd, truncated>>

ScanInit ==
    /\ tell = 0 /\ hits = {} /\ snippets = 0 /\ bytesRead = 0
    /\ totalBytes = 0 /\ fileEnd \in 0..DOCUMENT_BYTES /\ truncated = FALSE

DocumentInit == pc = "start" /\ ScanInit

(* _ensure_document in another worker, which found no file when it looked: *)
(* its download fills the file while this task, which finds it there, uses *)
(* it, or opens it again for writing and so truncates it.  It matters only *)
(* where this task looks at the file.                                      *)
Download ==
    /\ pc \in {"start", "scan"}
    /\ \/ fileEnd' \in (fileEnd + 1)..DOCUMENT_BYTES /\ UNCHANGED truncated
       \/ fileEnd > 0 /\ fileEnd' \in 0..(fileEnd - 1) /\ truncated' = (pc = "scan")
    /\ UNCHANGED <<reporter, pc, tell, hits, snippets, bytesRead, totalBytes>>

\* Mutant: no return after the report.
ReportFailedGoesOn(ok) ==
    /\ pc = "start"
    /\ Report(Status("FAILED", 0), ok)
    /\ Continue(ok, "scan", "raised")
    /\ UNCHANGED scan

(* The four early exits (no path, no keywords, failed download, no file)   *)
(* report FAILED and return.                                               *)
ReportFailed(ok) ==
    /\ pc = "start"
    /\ Report(Status("FAILED", 0), ok)
    /\ Continue(ok, "returned", "raised")
    /\ UNCHANGED scan

ReportStarted(ok) ==
    /\ pc = "start"
    /\ Report(Status("RUNNING", 0), ok)
    /\ totalBytes' = fileEnd
    /\ Continue(ok, "scan", "raised")
    /\ UNCHANGED <<tell, hits, snippets, bytesRead, fileEnd, truncated>>

(* Some lines, and the keyword hits in them.  A position counts characters *)
(* from the start of the chunk, so it never passes the end in bytes.       *)
ReadLines ==
    /\ pc = "scan" /\ tell < fileEnd
    /\ tell' \in (tell + 1)..fileEnd
    /\ hits' \in {H \in SUBSET (tell..(tell' - 1)) : Cardinality(H) <= MaxHits}
    /\ snippets' = 0
    /\ IF hits' = {} THEN pc' = "status" /\ bytesRead' = tell'
       ELSE pc' = "snippet" /\ UNCHANGED bytesRead
    /\ UNCHANGED <<reporter, totalBytes, fileEnd, truncated>>

EndOfFile ==
    /\ pc = "scan" /\ tell >= fileEnd
    /\ pc' = "exit"
    /\ UNCHANGED <<reporter, scan>>

\* Mutant: hits from the last to the first.
LastHit == Max(hits)

NextHit == Min(hits)

EmitSnippet(ok) ==
    /\ pc = "snippet"
    /\ Emit(NextHit, ok)
    /\ bytesRead' = IF NextHit < totalBytes THEN NextHit ELSE totalBytes
    /\ hits' = hits \ {NextHit}
    /\ snippets' = snippets + 1
    /\ Continue(ok, "status", "unwind")
    /\ UNCHANGED <<tell, totalBytes, fileEnd, truncated>>

ReportProgress(ok) ==
    /\ pc = "status"
    /\ Report(Status("RUNNING", bytesRead), ok)
    /\ Continue(ok, IF hits # {} /\ snippets < MAX_SNIPPETS_PER_CHUNK
                    THEN "snippet" ELSE "scan", "unwind")
    /\ UNCHANGED scan

\* Mutant: __exit__ swallows the exception.
CloseSnippetsSwallows(ok) ==
    /\ pc \in {"exit", "unwind"}
    /\ Exit(ok)
    /\ Continue(ok, "completed", "raised")
    /\ UNCHANGED scan

CloseSnippets(ok) ==
    /\ pc \in {"exit", "unwind"}
    /\ Exit(ok)
    /\ Continue(ok /\ pc = "exit", "completed", "raised")
    /\ UNCHANGED scan

ReportCompleted(ok) ==
    /\ pc = "completed"
    /\ Report(Status("COMPLETED", totalBytes), ok)
    /\ Continue(ok, "result", "raised")
    /\ UNCHANGED scan

ReportCount(ok) ==
    /\ pc = "result"
    /\ Report(Result(Len(emitted)), ok)
    /\ Continue(ok, "returned", "raised")
    /\ UNCHANGED scan

(* Reading or decoding the file raises inside the with-block.              *)
ReadFails ==
    /\ pc = "scan" /\ faults < MaxFaults
    /\ faults' = faults + 1
    /\ pc' = "unwind"
    /\ UNCHANGED <<stream, chunkIndex, batch, emitted, scan>>

AnalyzeDocument ==
    \/ \E ok \in BOOLEAN :
          \/ ReportFailed(ok) \/ ReportStarted(ok) \/ EmitSnippet(ok)
          \/ ReportProgress(ok) \/ CloseSnippets(ok) \/ ReportCompleted(ok)
          \/ ReportCount(ok)
    \/ ReadLines \/ EndOfFile \/ ReadFails
    \/ Crash /\ UNCHANGED scan
=============================================================================
