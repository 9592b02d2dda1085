----------------------------- MODULE Recordings -----------------------------
(***************************************************************************)
(* The recording of an exam: the page cuts the camera and the shared       *)
(* screen into chunks, uploads each and retries what failed                *)
(* (static/js/proctor.js); the server writes a file, then a row            *)
(* (app/proctoring.py); retention and the operators delete what is old     *)
(* (app/retention.py, app/system_ops.py); admins play what the rows name.  *)
(*                                                                         *)
(* One attempt is followed over crashes and reloads of its page.  Its      *)
(* files lie in a directory of their own.  Footage is numbered in the      *)
(* order it was shot; a chunk is footage with the name the page gave it.   *)
(* Rows are a set: when a chunk was stored twice its rows are counted      *)
(* once, and deleting one of them may leave the other.                     *)
(***************************************************************************)
EXTENDS Naturals, Sequences

CONSTANTS
    Kinds,      \* "webcam", "screen": each recorded, named, queued on its own
    Root,       \* the recordings' directory itself
    QueueCap,   \* MAX_QUEUED_RECORDING_CHUNKS
    MaxChunks,  \* bound: chunks shot in all
    MaxLoads    \* bound: loads of the page

ASSUME ConstantsAssumption ==
    /\ Root \notin Kinds
    /\ QueueCap \in Nat \ {0}
    /\ MaxChunks \in Nat /\ MaxLoads \in Nat

VARIABLES
    up,         \* requests and answers get through
    page,       \* the exam page
    next,       \* recordingChunkIndex, screenRecordingChunkIndex
    queue,      \* chunks that wait to be uploaded again, oldest failure first
    uploads,    \* requests under way
    files,      \* what is on the disk: footage by path
    rows,       \* Recording
    shot,       \* footage shot so far
    stored,     \* history: footage that got a row
    dropped,    \* history: footage dropped from a full queue
    loads       \* history: loads of the page

vars == <<up, page, next, queue, uploads, files, rows, shot, stored, dropped,
          loads>>

Footage == 1 .. MaxChunks
Index == 0 .. MaxChunks
Chunk == [kind : Kinds, index : Index, footage : Footage]

(* since: footage shot before this page was loaded.  recording: tracks     *)
(* whose recorder has not delivered its last chunk.                        *)
Page == [at : {"closed", "active", "ended"}, online : BOOLEAN,
         recording : SUBSET Kinds, since : 0 .. MaxChunks]

(* awaited: by the page.  An upload that has been answered is done.        *)
Upload == [chunk : Chunk, stage : {"sent", "saved", "answered"}, awaited : BOOLEAN]

Path == [dir : Kinds \cup {Root}, index : Index]

TypeOK ==
    /\ up \in BOOLEAN
    /\ page \in Page
    /\ next \in [Kinds -> Index]
    /\ queue \in [Kinds -> Seq(Chunk)]
    /\ uploads \subseteq Upload
    /\ DOMAIN files \subseteq Path
    /\ files \in [DOMAIN files -> Footage]
    /\ rows \subseteq Chunk
    /\ shot \in 0 .. MaxChunks
    /\ stored \subseteq Footage /\ dropped \subseteq Footage
    /\ loads \in Nat

NoPage == [at |-> "closed", online |-> TRUE, recording |-> {}, since |-> 0]

Init ==
    /\ up = TRUE
    /\ page = NoPage
    /\ next = [k \in Kinds |-> 0]
    /\ queue = [k \in Kinds |-> <<>>]
    /\ uploads = {}
    /\ files = [p \in {} |-> 0] /\ rows = {}
    /\ shot = 0 /\ stored = {} /\ dropped = {}
    /\ loads = 0

Sent(c) == [chunk |-> c, stage |-> "sent", awaited |-> TRUE]
Waiting == UNION {{queue[k][i] : i \in DOMAIN queue[k]} : k \in Kinds}

----------------------------------------------------------------------------
(* Where a recording lies, to those who write, play and delete it.         *)

(* Mutant: the layout without a directory for each kind.                   *)
StorePathFlat(c) == [dir |-> Root, index |-> c.index]

(* upload_recording_chunk                                                  *)
StorePath(c) == [dir |-> c.kind, index |-> c.index]

(* serve_recording.  The older, flat layout it falls back to is not        *)
(* written any more.                                                       *)
ServedPath(r) == [dir |-> r.kind, index |-> r.index]

(* retention._delete_recordings_for_org, system_ops: the file name alone,  *)
(* in the recordings' directory.                                           *)
CleanersPath(r) == [dir |-> Root, index |-> r.index]

----------------------------------------------------------------------------
(* The page.                                                               *)

(* Mutant: the number waits for the upload to be confirmed.                *)
NextIndexUnchanged(k) == next

NextIndex(k) == [next EXCEPT ![k] = @ + 1]

(* A page that comes up numbers its chunks from 0.                         *)
StartExam ==
    /\ page.at = "closed" /\ loads < MaxLoads
    /\ page' = [at |-> "active", online |-> TRUE, recording |-> Kinds,
                since |-> shot]
    /\ next' = [k \in Kinds |-> 0]
    /\ loads' = loads + 1
    /\ UNCHANGED <<up, queue, uploads, files, rows, shot, stored, dropped>>

(* ondataavailable: every 30 s, and once more when the recorder stops.     *)
Shoot(k) ==
    /\ k \in page.recording /\ shot < MaxChunks
    /\ shot' = shot + 1
    /\ next' = NextIndex(k)
    /\ uploads' = uploads \cup
                     {Sent([kind |-> k, index |-> next[k], footage |-> shot'])}
    /\ page' = IF page.at = "ended" THEN [page EXCEPT !.recording = @ \ {k}]
                                    ELSE page
    /\ UNCHANGED <<up, queue, files, rows, stored, dropped, loads>>

(* stopAllMonitoring: also the interval that retries is cleared.           *)
EndExam ==
    /\ page.at = "active"
    /\ page' = [page EXCEPT !.at = "ended"]
    /\ UNCHANGED <<up, next, queue, uploads, files, rows, shot, stored,
                   dropped, loads>>

(* A redirect, a reload, a crash: the queue lived in the page's memory.    *)
Unload ==
    /\ page.at # "closed"
    /\ page' = NoPage
    /\ queue' = [k \in Kinds |-> <<>>]
    /\ uploads' = {[u EXCEPT !.awaited = FALSE] :
                      u \in {w \in uploads : w.stage # "answered"}}
    /\ UNCHANGED <<up, next, files, rows, shot, stored, dropped, loads>>

----------------------------------------------------------------------------
(* Failure and retry.                                                      *)

(* Mutant: a full queue takes no more, and the new chunk is let go.        *)
QueueChunkOrNot(c) ==
    IF Len(queue[c.kind]) = QueueCap
    THEN UNCHANGED <<queue, dropped>>
    ELSE /\ queue' = [queue EXCEPT ![c.kind] = Append(@, c)]
         /\ UNCHANGED dropped

(* queueRecordingChunk                                                     *)
QueueChunk(c) ==
    IF Len(queue[c.kind]) = QueueCap
    THEN /\ queue' = [queue EXCEPT ![c.kind] = Append(Tail(@), c)]
         /\ dropped' = dropped \cup {queue[c.kind][1].footage}
    ELSE /\ queue' = [queue EXCEPT ![c.kind] = Append(@, c)]
         /\ UNCHANGED dropped

(* The request or its answer is lost; or only the page is told so, and the *)
(* server goes on.                                                         *)
UploadFails(u) ==
    /\ u.awaited /\ ~up
    /\ QueueChunk(u.chunk)
    /\ \/ uploads' = uploads \ {u}
       \/ /\ u.stage # "answered"
          /\ uploads' = (uploads \ {u}) \cup {[u EXCEPT !.awaited = FALSE]}
    /\ UNCHANGED <<up, page, next, files, rows, shot, stored, loads>>

UploadAnswered(u) ==
    /\ u.stage = "answered" /\ up
    /\ uploads' = uploads \ {u}
    /\ UNCHANGED <<up, page, next, queue, files, rows, shot, stored, dropped,
                   loads>>

(* flushPendingRecordingChunks: the queues are emptied, all is sent again. *)
Flush ==
    /\ uploads' = uploads \cup {Sent(c) : c \in Waiting}
    /\ queue' = [k \in Kinds |-> <<>>]

(* Mutant: nothing is retried until the connection is lost and restored.   *)
MayRetryNever == FALSE

MayRetry == page.online

RetryInterval ==
    /\ page.at = "active" /\ MayRetry
    /\ \E k \in Kinds : queue[k] # <<>>
    /\ Flush
    /\ UNCHANGED <<up, page, next, files, rows, shot, stored, dropped, loads>>

(* handleOnline, handleOffline                                             *)
Heartbeat ==
    /\ page.at # "closed" /\ page.online # up
    /\ page' = [page EXCEPT !.online = up]
    /\ IF up THEN Flush ELSE UNCHANGED <<queue, uploads>>
    /\ UNCHANGED <<up, next, files, rows, shot, stored, dropped, loads>>

ConnectionChanges ==
    /\ up' = ~up
    /\ UNCHANGED <<page, next, queue, uploads, files, rows, shot, stored,
                   dropped, loads>>

----------------------------------------------------------------------------
(* The server.                                                             *)

(* The file of an earlier chunk with the same name is overwritten.         *)
SaveFile(u) ==
    /\ u.stage = "sent"
    /\ files' = [p \in DOMAIN files \cup {StorePath(u.chunk)} |->
                    IF p = StorePath(u.chunk) THEN u.chunk.footage ELSE files[p]]
    /\ uploads' = (uploads \ {u}) \cup {[u EXCEPT !.stage = "saved"]}
    /\ UNCHANGED <<up, page, next, queue, rows, shot, stored, dropped, loads>>

CommitRow(u) ==
    /\ u.stage = "saved"
    /\ rows' = rows \cup {u.chunk}
    /\ stored' = stored \cup {u.chunk.footage}
    /\ uploads' = (uploads \ {u}) \cup
                     {w \in {[u EXCEPT !.stage = "answered"]} : w.awaited}
    /\ UNCHANGED <<up, page, next, queue, files, shot, dropped, loads>>

(* The worker dies, or an exception ends the request: the page gets an     *)
(* error, if it still listens.                                             *)
Killed(u) ==
    /\ u.stage # "answered"
    /\ uploads' = uploads \ {u}
    /\ IF u.awaited THEN QueueChunk(u.chunk) ELSE UNCHANGED <<queue, dropped>>
    /\ UNCHANGED <<up, page, next, files, rows, shot, stored, loads>>

(* A request of a page that is gone never gets to the server.              *)
Lost(u) ==
    /\ u.stage = "sent" /\ ~u.awaited
    /\ uploads' = uploads \ {u}
    /\ UNCHANGED <<up, page, next, queue, files, rows, shot, stored, dropped,
                   loads>>

(* The retention sweep, bulk_delete_recordings and delete_recording.       *)
Delete(old) ==
    /\ old # {}
    /\ \E gone \in SUBSET old : rows' = rows \ gone
    /\ files' = [p \in DOMAIN files \ {CleanersPath(r) : r \in old} |-> files[p]]
    /\ UNCHANGED <<up, page, next, queue, uploads, shot, stored, dropped,
                   loads>>

Next ==
    \/ StartExam \/ EndExam \/ Unload
    \/ \E k \in Kinds : Shoot(k)
    \/ RetryInterval \/ Heartbeat \/ ConnectionChanges
    \/ \E u \in uploads :
          \/ UploadFails(u) \/ UploadAnswered(u)
          \/ SaveFile(u) \/ CommitRow(u) \/ Killed(u) \/ Lost(u)
    \/ \E old \in SUBSET rows : Delete(old)

Spec == Init /\ [][Next]_vars

(* The page's intervals fire, and a request is handled and answered, or    *)
(* fails.                                                                  *)
FairSpec ==
    /\ Spec
    /\ WF_vars(RetryInterval) /\ WF_vars(Heartbeat)
    /\ \A n \in Footage :
          WF_vars(\E u \in uploads :
                     /\ u.chunk.footage = n
                     /\ \/ SaveFile(u) \/ CommitRow(u)
                        \/ UploadAnswered(u) \/ UploadFails(u))

----------------------------------------------------------------------------

(* Whatever an admin finds listed can be played: serve_recording finds a   *)
(* file for every row, through crashes, retries and clean-ups.             *)
ListedIsPlayable == \A r \in rows : ServedPath(r) \in DOMAIN files

(* As long as the page has not been reloaded, a recording that is played   *)
(* shows what was shot under its name, however often it was sent.          *)
PlaysItsOwnFootage ==
    loads = 1 => \A r \in rows : files[ServedPath(r)] = r.footage

(* No chunk is forgotten while its page lives: it is stored, under way,    *)
(* queued, or was the oldest of a full queue.                              *)
NothingForgotten ==
    page.at # "closed" =>
        \A n \in (page.since + 1) .. shot :
            \/ n \in stored \cup dropped
            \/ \E u \in uploads : u.awaited /\ u.chunk.footage = n
            \/ \E c \in Waiting : c.footage = n

(* While an exam runs over a connection that holds, and no worker dies any *)
(* more, every chunk of the page is stored at last, whatever failed before,*)
(* unless a full queue dropped it.                                         *)
ChunksGetStored ==
    (/\ <>[](up /\ page.at = "active")
     /\ <>[][\A u \in uploads : ~Killed(u)]_vars)
    => <>[]((page.since + 1) .. shot \subseteq stored \cup dropped)

==============================================================================
