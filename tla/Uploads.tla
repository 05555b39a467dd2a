------------------------------- MODULE Uploads -------------------------------
(***************************************************************************)
(* File uploads: the table _fileUploads of the packet engine and the       *)
(* cURLFileUploader in each of its entries, which runs on a detached       *)
(* thread of its own.                                                      *)
(*                                                                         *)
(* The engine starts an upload when the server has prepared it, polls the  *)
(* uploaders from runCallbacks, reports those that are over and deletes    *)
(* them.  The table is under _mutex, the status of an uploader under its   *)
(* _lock; _threadRunning is what tells that the thread is gone.            *)
(***************************************************************************)
EXTENDS Naturals

CONSTANTS
  Ids,       \* upload ids the server hands out
  MaxStarts, \* bound: uploads started with an id
  Outcomes   \* how curl_easy_perform ends: subset of {"ok", "refused", "timeout", "error"}

ASSUME UploadsAssumption ==
  /\ MaxStarts \in Nat
  /\ Outcomes \subseteq {"ok", "refused", "timeout", "error"}

VARIABLES
  table,     \* the ids in _fileUploads
  thread,    \* by id: where the upload thread is
  status,    \* by id: _status
  curl,      \* by id: _curl is not NULL
  cancel,    \* by id: _shouldCancelUpload
  total,     \* by id: _uploadTotalBytes and _uploadTransferredBytes have been set
  result,    \* by id: what _httpStatus and _errorReasonCode say
  frozen,    \* ~_isInitialized or _blockingQueue: runCallbacks returns at once
  listening, \* _fileUploadCallback is not NULL
  starts,    \* by id: uploads started so far
  asked,     \* history, by id: cancelUpload has found the upload
  completed, \* history, by id: calls of fileUploadCompleted
  failed     \* history, by id: calls of fileUploadFailed

uploader == <<thread, status, curl, cancel, total, result>>
engine   == <<table, frozen, listening, starts>>
history  == <<asked, completed, failed>>
uploadVars == <<uploader, engine, history>>

Running  == {"begin", "setup", "perform", "cleanup", "end"}
Results  == {"none", "ok", "refused", "timeout", "error", "cancelled"}

UploadsTypeOK ==
  /\ table \subseteq Ids
  /\ thread \in [Ids -> Running \cup {"none", "done"}]
  /\ status \in [Ids -> {"none", "pending", "uploading", "failed", "success"}]
  /\ curl \in [Ids -> BOOLEAN] /\ cancel \in [Ids -> BOOLEAN] /\ total \in [Ids -> BOOLEAN]
  /\ result \in [Ids -> Results]
  /\ frozen \in BOOLEAN /\ listening \in BOOLEAN
  /\ starts \in [Ids -> 0 .. MaxStarts]
  /\ asked \in [Ids -> BOOLEAN]
  /\ completed \in [Ids -> 0 .. MaxStarts] /\ failed \in [Ids -> 0 .. MaxStarts]

UploadsInit ==
  /\ table = {}
  /\ thread = [u \in Ids |-> "none"] /\ status = [u \in Ids |-> "none"]
  /\ curl = [u \in Ids |-> FALSE] /\ cancel = [u \in Ids |-> FALSE]
  /\ total = [u \in Ids |-> FALSE] /\ result = [u \in Ids |-> "none"]
  /\ frozen = FALSE /\ listening = TRUE /\ starts = [u \in Ids |-> 0]
  /\ asked = [u \in Ids |-> FALSE]
  /\ completed = [u \in Ids |-> 0] /\ failed = [u \in Ids |-> 0]

-----------------------------------------------------------------------------
(* The engine *)

\* A second response for an upload that is still in the table is ignored.
Accepted(u) == u \notin table

\* What the constructor of the uploader sets _shouldCancelUpload to.
NewCancel(u) == FALSE

\* startFileUpload with a new uploader, whose fields the constructor has set (but
\* not the two byte counts), and uploadFile, which starts its thread.  Nothing
\* changes if the response is ignored or no thread can be had.
StartFileUpload(u) ==
  /\ Accepted(u)
  /\ starts[u] < MaxStarts
  /\ starts' = [starts EXCEPT ![u] = @ + 1]
  /\ table' = table \cup {u}
  /\ thread' = [thread EXCEPT ![u] = "begin"]
  /\ status' = [status EXCEPT ![u] = "pending"]
  /\ curl' = [curl EXCEPT ![u] = FALSE]
  /\ cancel' = [cancel EXCEPT ![u] = NewCancel(u)]
  /\ total' = [total EXCEPT ![u] = FALSE]
  /\ result' = [result EXCEPT ![u] = "none"]
  /\ asked' = [asked EXCEPT ![u] = FALSE]
  /\ UNCHANGED <<frozen, listening, completed, failed>>

CancelUpload(u) ==
  /\ u \in table
  /\ cancel' = [cancel EXCEPT ![u] = @ \/ curl[u]]
  /\ asked' = [asked EXCEPT ![u] = TRUE]
  /\ UNCHANGED <<thread, status, curl, total, result, engine, completed, failed>>

\* What getUploadProgress may return.  The byte counts are read as they are, which
\* before the first report of curl is whatever was in that memory.
UploadProgress(u) ==
  IF u \notin table THEN {"missing"}
  ELSE IF curl[u] /\ ~total[u] THEN {"fraction", "garbage"}
  ELSE {"fraction"}

Over(u) == status[u] \in {"failed", "success"}

\* Mutant: the status alone decides.
OverByStatus(u) == Over(u)

Reportable(u) == Over(u) /\ thread[u] = "done"

Succeeded(u) == status[u] = "success"

\* The calls of a callback by id, with one more for each of these uploads.
Reported(count, uploads) ==
  [u \in Ids |-> IF listening /\ u \in uploads THEN count[u] + 1 ELSE count[u]]

Remaining(done) == table \ done

\* runCallbacksFileUpload: reports, deletes and forgets every upload that is over.
RunCallbacksFileUpload ==
  LET done == {u \in table : Reportable(u)}
  IN  /\ ~frozen
      /\ done # {}
      /\ table' = Remaining(done)
      /\ completed' = Reported(completed, {u \in done : Succeeded(u)})
      /\ failed' = Reported(failed, {u \in done : ~Succeeded(u)})
      /\ UNCHANGED <<uploader, frozen, listening, starts, asked>>

\* The engine is blocked after a network error, shut down, or used again.
Freeze == frozen' = ~frozen /\ UNCHANGED <<uploader, table, listening, starts, history>>

\* registerFileUploadCallback, deregisterFileUploadCallback
RegisterFileUploadCallback ==
  listening' = ~listening /\ UNCHANGED <<uploader, table, frozen, starts, history>>

-----------------------------------------------------------------------------
(* The upload thread *)

At(u, label)   == thread[u] = label
Goto(u, label) == thread' = [thread EXCEPT ![u] = label]

BeginUpload(u) ==
  /\ At(u, "begin")
  /\ \/ /\ Goto(u, "setup")
        /\ status' = [status EXCEPT ![u] = "uploading"]
     \/ /\ Goto(u, "end")              \* curl_easy_init has failed
        /\ status' = [status EXCEPT ![u] = "failed"]
  /\ UNCHANGED <<curl, cancel, total, result, engine, history>>

SetCurl(u) ==
  /\ At(u, "setup")
  /\ Goto(u, "perform")
  /\ curl' = [curl EXCEPT ![u] = TRUE]
  /\ UNCHANGED <<status, cancel, total, result, engine, history>>

\* curlXferInfoCallback: the byte counts, then the request to cancel.
XferInfo(u) ==
  /\ At(u, "perform")
  /\ total' = [total EXCEPT ![u] = TRUE]
  /\ IF cancel[u] THEN Goto(u, "cleanup") /\ result' = [result EXCEPT ![u] = "cancelled"]
                  ELSE UNCHANGED <<thread, result>>
  /\ UNCHANGED <<status, curl, cancel, engine, history>>

PerformReturns(u) ==
  /\ At(u, "perform")
  /\ Goto(u, "cleanup")
  /\ \E r \in Outcomes : result' = [result EXCEPT ![u] = r]
  /\ UNCHANGED <<status, curl, cancel, total, engine, history>>

FinalStatus(u) == IF result[u] = "ok" THEN "success" ELSE "failed"

SetFinalStatus(u) ==
  /\ At(u, "cleanup")
  /\ Goto(u, "end")
  /\ status' = [status EXCEPT ![u] = FinalStatus(u)]
  /\ UNCHANGED <<curl, cancel, total, result, engine, history>>

\* Mutant: the early return leaves _threadRunning set.
EndsAfterTransfer(u) ==
  /\ At(u, "end")
  /\ result[u] # "none"
  /\ Goto(u, "done")
  /\ UNCHANGED <<status, curl, cancel, total, result, engine, history>>

\* The last statement of the thread clears _threadRunning.
UploadThreadEnds(u) ==
  /\ At(u, "end")
  /\ Goto(u, "done")
  /\ UNCHANGED <<status, curl, cancel, total, result, engine, history>>

ThreadRuns(u) ==
  \/ BeginUpload(u) \/ SetCurl(u) \/ XferInfo(u) \/ PerformReturns(u)
  \/ SetFinalStatus(u) \/ UploadThreadEnds(u)

-----------------------------------------------------------------------------

UploadsNext ==
  \/ \E u \in Ids : StartFileUpload(u) \/ CancelUpload(u)
  \/ RunCallbacksFileUpload \/ Freeze \/ RegisterFileUploadCallback
  \/ \E u \in Ids : ThreadRuns(u)

UploadsSpec == UploadsInit /\ [][UploadsNext]_uploadVars

\* Threads run, a transfer ends or is cut off by the low-speed limit, and the app
\* calls runCallbacks in every frame while the engine works.
UploadsFairness ==
  /\ \A u \in Ids : WF_uploadVars(BeginUpload(u) \/ SetCurl(u) \/ PerformReturns(u)
                            \/ SetFinalStatus(u) \/ UploadThreadEnds(u))
  /\ SF_uploadVars(RunCallbacksFileUpload)

FairUploadsSpec == UploadsSpec /\ UploadsFairness

-----------------------------------------------------------------------------
(* Properties *)

\* An uploader is deleted only after its thread has gone: the thread works on the
\* uploader's fields until its last statement.
UploaderOutlivesItsThread == \A u \in Ids : thread[u] \in Running => u \in table

\* Every upload that was started is in the table or has been taken out of it with
\* at most one report.
ReportedAtMostOnce ==
  \A u \in Ids : completed[u] + failed[u] + (IF u \in table THEN 1 ELSE 0) <= starts[u]

\* An upload counts as a success exactly if the server took the file, and as
\* cancelled only if the app has asked for that.
StatusTellsTheResult ==
  \A u \in Ids : Over(u) => (status[u] = "success" <=> result[u] = "ok")
CancelledOnRequest ==
  \A u \in Ids : result[u] = "cancelled" => asked[u]

\* The invariant the proofs use: the status follows the thread, and so does the result
\* as long as there is none; the flag is set only by a request.
StatusFollowsThread ==
  \A u \in Ids :
    /\ thread[u] \in {"none", "begin"} => result[u] = "none" /\ ~Over(u)
    /\ thread[u] \in {"setup", "perform", "cleanup"} => status[u] = "uploading"
    /\ cancel[u] => asked[u]

UploadsInStep ==
  /\ UploadsTypeOK /\ UploaderOutlivesItsThread /\ ReportedAtMostOnce
  /\ StatusTellsTheResult /\ CancelledOnRequest /\ StatusFollowsThread

\* Every upload leaves the table, whichever way its thread ends, if the engine works
\* from some time on.
EveryUploadEnds ==
  <>[]~frozen => \A u \in Ids : (u \in table) ~> (u \notin table)

\* BrainCloudFile.h: fileUploadFailed is called once an upload has been cancelled.
\* A request made before the transfer begins should be heard; one made during the
\* last moments of a transfer may come too late.
EarlyCancelIsHeard ==
  [][\A u \in Ids : CancelUpload(u) /\ thread[u] \in {"begin", "setup"} => cancel'[u]]_uploadVars

\* BrainCloudFile.h: the progress of an upload is from 0.0 to 1.0, or -1.
ProgressIsAFraction == \A u \in Ids : "garbage" \notin UploadProgress(u)

=============================================================================
