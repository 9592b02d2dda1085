-------------------------- MODULE Evidence_proofs --------------------------
(***************************************************************************)
(* Theorems about what an exam leaves as evidence: its recordings          *)
(* (Recordings), and after them its events and messages (Monitor).         *)
(*                                                                         *)
(* Recordings, for any number of tracks, chunks, loads and crashes and any *)
(* size of the retry queue.                                                *)
(***************************************************************************)
EXTENDS Recordings, Monitor, FiniteSetTheorems, SequenceTheorems, TLAPS

(* The chunks somebody still works with, and those that have a row.        *)
Known == rows \cup {u.chunk : u \in uploads} \cup Waiting

(* A number never runs ahead of the footage it counts.                     *)
Counted ==
    /\ \A k \in Kinds : next[k] <= shot
    /\ page.since <= shot

(* Files are written under the directories of the tracks only, and before  *)
(* the rows that name them.                                                *)
FileFirst ==
    /\ \A p \in DOMAIN files : p.dir \in Kinds
    /\ \A u \in uploads : u.stage = "saved" => ServedPath(u.chunk) \in DOMAIN files

(* Before the first load there is nothing.                                 *)
Blank ==
    loads = 0 => /\ page = NoPage /\ uploads = {} /\ rows = {} /\ Waiting = {}
                 /\ DOMAIN files = {}

(* In the first load, a name stands for one piece of footage.              *)
OneName ==
    loads = 1 =>
        /\ \A c \in Known : c.index < next[c.kind]
        /\ \A c, d \in Known :
              (c.kind = d.kind /\ c.index = d.index) => c.footage = d.footage
        /\ \A p \in DOMAIN files :
              /\ p.index < next[p.dir]
              /\ \A c \in Known : ServedPath(c) = p => files[p] = c.footage

(* An answer is only given for a chunk that has its row.                   *)
AnsweredIsStored ==
    \A u \in uploads : u.stage = "answered" => u.chunk.footage \in stored

IInv ==
    /\ TypeOK /\ Counted /\ FileFirst /\ ListedIsPlayable
    /\ Blank /\ OneName /\ AnsweredIsStored /\ NothingForgotten

-----------------------------------------------------------------------------
(* What the queues hold, and what they hold after a failure.               *)

LEMMA InAQueue ==
    ASSUME NEW c
    PROVE  c \in Waiting <=> \E k \in Kinds : \E i \in DOMAIN queue[k] : c = queue[k][i]
BY DEF Waiting

LEMMA InAQueueNext ==
    ASSUME NEW c
    PROVE  c \in Waiting' <=> \E k \in Kinds : \E i \in DOMAIN queue'[k] : c = queue'[k][i]
BY DEF Waiting

LEMMA WaitingAreChunks ==
    ASSUME TypeOK
    PROVE  Waiting \subseteq Chunk
BY InAQueue DEF TypeOK

(* Dropping the oldest of a full sequence and appending to it.             *)
LEMMA Shifted ==
    ASSUME NEW S, NEW q \in Seq(S), NEW c \in S, Len(q) > 0
    PROVE  LET r == Append(Tail(q), c)
           IN  /\ r \in Seq(S) /\ Len(r) = Len(q)
               /\ r[Len(q)] = c
               /\ \A i \in 1 .. Len(q) - 1 : r[i] = q[i + 1]
<1>1. Tail(q) \in Seq(S) /\ Len(Tail(q)) = Len(q) - 1
    BY EmptySeq, HeadTailProperties
<1>2. \A i \in 1 .. Len(q) - 1 : Tail(q)[i] = q[i + 1]
    BY EmptySeq, HeadTailProperties
<1> QED
    BY <1>1, <1>2, AppendProperties

(* A queued chunk is there; what was there before is there or dropped, and *)
(* nothing else has come.                                                  *)
LEMMA QueueAfter ==
    ASSUME TypeOK, NEW c \in Chunk, QueueChunk(c)
    PROVE  /\ queue' \in [Kinds -> Seq(Chunk)]
           /\ dropped \subseteq dropped' /\ dropped' \subseteq Footage
           /\ c \in Waiting' /\ Waiting' \subseteq Waiting \cup {c}
           /\ \A d \in Waiting : d \in Waiting' \/ d.footage \in dropped'
<1> DEFINE q == queue[c.kind]
<1>t. /\ c.kind \in Kinds /\ q \in Seq(Chunk) /\ queue \in [Kinds -> Seq(Chunk)]
      /\ dropped \subseteq Footage /\ Len(q) \in Nat /\ DOMAIN q = 1 .. Len(q)
    <2>1. c.kind \in Kinds
        BY DEF Chunk
    <2> QED
        BY <2>1 DEF TypeOK
<1>1. CASE Len(q) = QueueCap
    <2> DEFINE r == Append(Tail(q), c)
    <2>1. Len(q) > 0
        BY <1>1, ConstantsAssumption
    <2>2. /\ r \in Seq(Chunk) /\ Len(r) = Len(q) /\ r[Len(q)] = c
          /\ \A i \in 1 .. Len(q) - 1 : r[i] = q[i + 1]
        BY <1>t, <2>1, Shifted
    <2>3. /\ queue' = [queue EXCEPT ![c.kind] = r]
          /\ dropped' = dropped \cup {q[1].footage}
        BY <1>1 DEF QueueChunk
    <2> HIDE DEF r
    <2>4. queue'[c.kind] = r /\ \A k \in Kinds \ {c.kind} : queue'[k] = queue[k]
        BY <1>t, <2>3
    <2>5. DOMAIN r = 1 .. Len(q)
        BY <2>2
    <2>6. q[1].footage \in Footage
        <3>1. q[1] \in Chunk
            BY <1>t, <2>1
        <3> QED
            BY <3>1 DEF Chunk
    <2>7. c \in Waiting'
        <3>1. Len(q) \in DOMAIN queue'[c.kind] /\ queue'[c.kind][Len(q)] = c
            BY <1>t, <2>1, <2>2, <2>4, <2>5
        <3> QED
            BY <1>t, <3>1, InAQueueNext
    <2>8. Waiting' \subseteq Waiting \cup {c}
        <3> SUFFICES ASSUME NEW k \in Kinds, NEW i \in DOMAIN queue'[k]
                     PROVE  queue'[k][i] \in Waiting \cup {c}
            BY InAQueueNext
        <3>1. CASE k # c.kind
            BY <3>1, <2>4, InAQueue
        <3>2. CASE k = c.kind /\ i = Len(q)
            BY <3>2, <2>2, <2>4
        <3>3. CASE k = c.kind /\ i # Len(q)
            <4>1. i \in 1 .. Len(q) - 1 /\ i + 1 \in 1 .. Len(q)
                BY <3>3, <2>4, <2>5, <1>t
            <4>2. queue'[k][i] = q[i + 1]
                BY <3>3, <4>1, <2>2, <2>4
            <4> QED
                BY <4>1, <4>2, <1>t, InAQueue
        <3> QED
            BY <3>1, <3>2, <3>3
    <2>9. \A d \in Waiting : d \in Waiting' \/ d.footage \in dropped'
        <3> SUFFICES ASSUME NEW k \in Kinds, NEW i \in DOMAIN queue[k]
                     PROVE  queue[k][i] \in Waiting' \/ queue[k][i].footage \in dropped'
            BY InAQueue
        <3>1. CASE k # c.kind
            BY <3>1, <2>4, InAQueueNext
        <3>2. CASE k = c.kind /\ i = 1
            BY <3>2, <2>3
        <3>3. CASE k = c.kind /\ i # 1
            <4>1. i - 1 \in 1 .. Len(q) - 1 /\ i - 1 \in DOMAIN r /\ (i - 1) + 1 = i
                BY <3>3, <2>5, <1>t
            <4>2. queue'[k][i - 1] = queue[k][i]
                BY <3>3, <4>1, <2>2, <2>4
            <4> QED
                BY <3>3, <4>1, <4>2, <2>4, InAQueueNext
        <3> QED
            BY <3>1, <3>2, <3>3
    <2> QED
        BY <1>t, <2>2, <2>3, <2>6, <2>7, <2>8, <2>9
<1>2. CASE Len(q) # QueueCap
    <2> DEFINE r == Append(q, c)
    <2>1. /\ r \in Seq(Chunk) /\ Len(r) = Len(q) + 1 /\ r[Len(q) + 1] = c
          /\ \A i \in 1 .. Len(q) : r[i] = q[i]
        BY <1>t, AppendProperties
    <2>2. queue' = [queue EXCEPT ![c.kind] = r] /\ dropped' = dropped
        BY <1>2 DEF QueueChunk
    <2> HIDE DEF r
    <2>3. queue'[c.kind] = r /\ \A k \in Kinds \ {c.kind} : queue'[k] = queue[k]
        BY <1>t, <2>2
    <2>4. DOMAIN r = 1 .. Len(q) + 1
        BY <2>1
    <2>5. c \in Waiting'
        BY <1>t, <2>1, <2>3, <2>4, InAQueueNext
    <2>6. Waiting' \subseteq Waiting \cup {c}
        <3> SUFFICES ASSUME NEW k \in Kinds, NEW i \in DOMAIN queue'[k]
                     PROVE  queue'[k][i] \in Waiting \cup {c}
            BY InAQueueNext
        <3>1. CASE k # c.kind
            BY <3>1, <2>3, InAQueue
        <3>2. CASE k = c.kind /\ i = Len(q) + 1
            BY <3>2, <2>1, <2>3
        <3>3. CASE k = c.kind /\ i # Len(q) + 1
            <4>1. i \in 1 .. Len(q)
                BY <3>3, <2>3, <2>4, <1>t
            <4> QED
                BY <3>3, <4>1, <1>t, <2>1, <2>3, InAQueue
        <3> QED
            BY <3>1, <3>2, <3>3
    <2>7. \A d \in Waiting : d \in Waiting'
        <3> SUFFICES ASSUME NEW k \in Kinds, NEW i \in DOMAIN queue[k]
                     PROVE  queue[k][i] \in Waiting'
            BY InAQueue
        <3>1. CASE k # c.kind
            BY <3>1, <2>3, InAQueueNext
        <3>2. CASE k = c.kind
            <4>1. i \in 1 .. Len(q) /\ i \in DOMAIN r
                BY <3>2, <2>4, <1>t
            <4> QED
                BY <3>2, <4>1, <2>1, <2>3, InAQueueNext
        <3> QED
            BY <3>1, <3>2
    <2> QED
        BY <1>t, <2>1, <2>2, <2>5, <2>6, <2>7
<1> QED
    BY <1>1, <1>2

(* A flush makes requests of all that waited.                              *)
LEMMA FlushAfter ==
    ASSUME TypeOK, Flush
    PROVE  /\ queue' \in [Kinds -> Seq(Chunk)] /\ Waiting' = {}
           /\ uploads' = uploads \cup {Sent(c) : c \in Waiting}
           /\ uploads' \subseteq Upload
<1>1. queue' = [k \in Kinds |-> <<>>]
    BY DEF Flush
<1>2. Waiting' = {}
    <2> SUFFICES ASSUME NEW c \in Waiting'
                 PROVE  FALSE
        OBVIOUS
    <2>1. PICK k \in Kinds : \E i \in DOMAIN queue'[k] : c = queue'[k][i]
        BY InAQueueNext
    <2>2. queue'[k] = <<>>
        BY <1>1
    <2> QED
        BY <2>1, <2>2
<1>3. \A c \in Waiting : Sent(c) \in Upload
    BY WaitingAreChunks DEF Sent, Upload
<1>4. queue' \in [Kinds -> Seq(Chunk)]
    BY <1>1
<1> QED
    BY <1>2, <1>3, <1>4 DEF Flush, TypeOK

-----------------------------------------------------------------------------
(* Types.                                                                  *)

LEMMA TypeInit == Init => TypeOK
<1> SUFFICES ASSUME Init
             PROVE  TypeOK
    OBVIOUS
<1>1. queue \in [Kinds -> Seq(Chunk)]
    BY DEF Init
<1> QED
    BY <1>1, ConstantsAssumption DEF Init, TypeOK, Page, NoPage, Index, Footage, Path

LEMMA TypeStep ==
    ASSUME TypeOK, Counted, [Next]_vars
    PROVE  TypeOK'
<1> USE ConstantsAssumption
<1>t. /\ \A u \in uploads : u \in Upload /\ u.chunk \in Chunk
      /\ \A c \in Chunk : c.kind \in Kinds /\ c.index \in Index /\ c.footage \in Footage
      /\ \A r \in rows : r \in Chunk
    BY DEF TypeOK, Upload, Chunk
<1>1. CASE StartExam
    BY <1>1 DEF StartExam, TypeOK, Page, Index
<1>2. ASSUME NEW k \in Kinds, Shoot(k)
      PROVE  TypeOK'
    <2>1. /\ shot' \in Footage /\ shot' \in 0 .. MaxChunks
          /\ next[k] \in Index /\ next[k] + 1 \in Index
        BY <1>2 DEF Shoot, TypeOK, Counted, Index, Footage
    <2>2. next' \in [Kinds -> Index]
        BY <1>2, <2>1 DEF Shoot, NextIndex, TypeOK
    <2>3. Sent([kind |-> k, index |-> next[k], footage |-> shot']) \in Upload
        BY <2>1 DEF Sent, Upload, Chunk
    <2>4. page' \in Page
        BY <1>2 DEF Shoot, TypeOK, Page
    <2> QED
        BY <1>2, <2>1, <2>2, <2>3, <2>4 DEF Shoot, TypeOK
<1>3. CASE EndExam
    BY <1>3 DEF EndExam, TypeOK, Page
<1>4. CASE Unload
    <2>1. queue' \in [Kinds -> Seq(Chunk)]
        BY <1>4 DEF Unload
    <2>2. uploads' \subseteq Upload
        BY <1>4, <1>t DEF Unload, Upload
    <2>3. page' \in Page
        BY <1>4 DEF Unload, NoPage, Page
    <2> QED
        BY <1>4, <2>1, <2>2, <2>3 DEF Unload, TypeOK
<1>5. ASSUME NEW u \in uploads, UploadFails(u)
      PROVE  TypeOK'
    <2>1. queue' \in [Kinds -> Seq(Chunk)] /\ dropped' \subseteq Footage
        BY <1>5, <1>t, QueueAfter DEF UploadFails
    <2>2. [u EXCEPT !.awaited = FALSE] \in Upload
        BY <1>t DEF Upload
    <2>3. uploads' \subseteq Upload
        BY <1>5, <1>t, <2>2 DEF UploadFails, TypeOK
    <2> QED
        BY <1>5, <2>1, <2>3 DEF UploadFails, TypeOK
<1>6. ASSUME NEW u \in uploads, UploadAnswered(u)
      PROVE  TypeOK'
    BY <1>6 DEF UploadAnswered, TypeOK
<1>7. CASE RetryInterval
    BY <1>7, FlushAfter DEF RetryInterval, TypeOK
<1>8. CASE Heartbeat
    <2>1. page' \in Page
        BY <1>8 DEF Heartbeat, TypeOK, Page
    <2> QED
        BY <1>8, <2>1, FlushAfter DEF Heartbeat, TypeOK
<1>9. CASE ConnectionChanges
    BY <1>9 DEF ConnectionChanges, TypeOK
<1>10. ASSUME NEW u \in uploads, SaveFile(u)
       PROVE  TypeOK'
    <2>1. StorePath(u.chunk) \in Path /\ u.chunk.footage \in Footage
        BY <1>t DEF StorePath, Path
    <2>2. DOMAIN files' \subseteq Path /\ files' \in [DOMAIN files' -> Footage]
        BY <1>10, <2>1 DEF SaveFile, TypeOK
    <2>3. uploads' \subseteq Upload
        BY <1>10, <1>t DEF SaveFile, TypeOK, Upload
    <2> QED
        BY <1>10, <2>2, <2>3 DEF SaveFile, TypeOK
<1>11. ASSUME NEW u \in uploads, CommitRow(u)
       PROVE  TypeOK'
    <2>1. uploads' \subseteq Upload
        BY <1>11, <1>t DEF CommitRow, TypeOK, Upload
    <2> QED
        BY <1>11, <1>t, <2>1 DEF CommitRow, TypeOK
<1>12. ASSUME NEW u \in uploads, Killed(u)
       PROVE  TypeOK'
    <2>1. queue' \in [Kinds -> Seq(Chunk)] /\ dropped' \subseteq Footage
        BY <1>12, <1>t, QueueAfter DEF Killed, TypeOK
    <2>2. uploads' \subseteq Upload
        BY <1>12 DEF Killed, TypeOK
    <2> QED
        BY <1>12, <2>1, <2>2 DEF Killed, TypeOK
<1>13. ASSUME NEW u \in uploads, Lost(u)
       PROVE  TypeOK'
    BY <1>13 DEF Lost, TypeOK
<1>14. ASSUME NEW old \in SUBSET rows, Delete(old)
       PROVE  TypeOK'
    BY <1>14 DEF Delete, TypeOK
<1>15. CASE UNCHANGED vars
    BY <1>15 DEF vars, TypeOK
<1> QED
    BY <1>1, <1>2, <1>3, <1>4, <1>5, <1>6, <1>7, <1>8, <1>9, <1>10, <1>11,
       <1>12, <1>13, <1>14, <1>15 DEF Next

-----------------------------------------------------------------------------
(* Numbers and footage.                                                    *)

LEMMA CountedStep ==
    ASSUME TypeOK, Counted, [Next]_vars
    PROVE  Counted'
<1> USE ConstantsAssumption DEF Counted, TypeOK
<1>1. CASE StartExam
    BY <1>1 DEF StartExam
<1>2. ASSUME NEW k \in Kinds, Shoot(k)
      PROVE  Counted'
    <2>1. shot' = shot + 1 /\ page'.since = page.since
        BY <1>2 DEF Shoot, Page
    <2>2. \A j \in Kinds : next'[j] = IF j = k THEN next[j] + 1 ELSE next[j]
        BY <1>2 DEF Shoot, NextIndex
    <2>3. shot \in Nat /\ page.since \in Nat /\ \A j \in Kinds : next[j] \in Nat
        BY DEF Page, Index
    <2>4. \A j \in Kinds : next[j] <= shot /\ next[j] + 1 <= shot + 1 /\ next[j] <= shot + 1
        BY <2>3
    <2>5. page'.since <= shot'
        BY <2>1, <2>3
    <2> HIDE DEF TypeOK
    <2> QED
        BY <2>1, <2>2, <2>4, <2>5
<1>3. CASE EndExam
    BY <1>3 DEF EndExam, Page
<1>4. CASE Unload
    BY <1>4 DEF Unload, NoPage
<1>5. CASE Heartbeat
    BY <1>5 DEF Heartbeat, Page
<1>6. CASE \/ RetryInterval \/ ConnectionChanges \/ UNCHANGED vars
           \/ \E u \in uploads :
                 \/ UploadFails(u) \/ UploadAnswered(u)
                 \/ SaveFile(u) \/ CommitRow(u) \/ Killed(u) \/ Lost(u)
           \/ \E old \in SUBSET rows : Delete(old)
    <2>1. UNCHANGED <<next, shot>> /\ page' = page
        BY <1>6 DEF RetryInterval, ConnectionChanges, vars, UploadFails,
                    UploadAnswered, SaveFile, CommitRow, Killed, Lost, Delete
    <2> QED
        BY <2>1
<1> QED
    BY <1>1, <1>2, <1>3, <1>4, <1>5, <1>6 DEF Next

-----------------------------------------------------------------------------
(* Files and rows.                                                         *)

(* The clean-ups look where no recording lies.                             *)
LEMMA CleanersMiss ==
    ASSUME TypeOK, FileFirst, NEW old \in SUBSET rows, Delete(old)
    PROVE  files' = files
<1>1. \A r \in old : CleanersPath(r) \notin DOMAIN files
    BY ConstantsAssumption DEF FileFirst, CleanersPath
<1>2. DOMAIN files \ {CleanersPath(r) : r \in old} = DOMAIN files
    BY <1>1
<1> QED
    BY <1>2 DEF Delete, TypeOK

LEMMA FilesStep ==
    ASSUME TypeOK, FileFirst, ListedIsPlayable, [Next]_vars
    PROVE  FileFirst' /\ ListedIsPlayable'
<1> USE DEF FileFirst, ListedIsPlayable
<1>t. \A u \in uploads : u \in Upload /\ u.chunk \in Chunk /\ u.chunk.kind \in Kinds
    BY DEF TypeOK, Upload, Chunk
<1>1. CASE StartExam \/ EndExam \/ ConnectionChanges \/ UNCHANGED vars
    BY <1>1 DEF StartExam, EndExam, ConnectionChanges, vars
<1>2. ASSUME NEW k \in Kinds, Shoot(k)
      PROVE  FileFirst' /\ ListedIsPlayable'
    BY <1>2 DEF Shoot, Sent
<1>3. CASE Unload
    <2>1. \A w \in uploads' :
             \E u \in uploads : w.stage = u.stage /\ w.chunk = u.chunk
        BY <1>3, <1>t DEF Unload, Upload
    <2> QED
        BY <1>3, <2>1 DEF Unload
<1>4. ASSUME NEW u \in uploads, UploadFails(u)
      PROVE  FileFirst' /\ ListedIsPlayable'
    <2>1. \A w \in uploads' : w \in uploads \/ (w.stage = u.stage /\ w.chunk = u.chunk)
        BY <1>4, <1>t DEF UploadFails, Upload
    <2> QED
        BY <1>4, <2>1 DEF UploadFails
<1>5. ASSUME NEW u \in uploads, UploadAnswered(u) \/ Killed(u) \/ Lost(u)
      PROVE  FileFirst' /\ ListedIsPlayable'
    BY <1>5 DEF UploadAnswered, Killed, Lost
<1>6. CASE RetryInterval \/ Heartbeat
    <2>1. \A w \in uploads' : w \in uploads \/ w.stage = "sent"
        BY <1>6 DEF RetryInterval, Heartbeat, Flush, Sent
    <2>2. files' = files /\ rows' = rows
        BY <1>6 DEF RetryInterval, Heartbeat
    <2> QED
        BY <2>1, <2>2
<1>7. ASSUME NEW u \in uploads, SaveFile(u)
      PROVE  FileFirst' /\ ListedIsPlayable'
    <2>1. /\ DOMAIN files' = DOMAIN files \cup {StorePath(u.chunk)}
          /\ rows' = rows
        BY <1>7 DEF SaveFile
    <2>2. StorePath(u.chunk) = ServedPath(u.chunk) /\ StorePath(u.chunk).dir \in Kinds
        BY <1>t DEF StorePath, ServedPath
    <2>3. \A w \in uploads' : w \in uploads \/ w.chunk = u.chunk
        BY <1>7, <1>t DEF SaveFile, Upload
    <2> QED
        BY <2>1, <2>2, <2>3
<1>8. ASSUME NEW u \in uploads, CommitRow(u)
      PROVE  FileFirst' /\ ListedIsPlayable'
    <2>1. \A w \in uploads' : w \in uploads \/ w.stage = "answered"
        BY <1>8, <1>t DEF CommitRow, Upload
    <2>2. ServedPath(u.chunk) \in DOMAIN files
        BY <1>8 DEF CommitRow
    <2> QED
        BY <1>8, <2>1, <2>2 DEF CommitRow
<1>9. ASSUME NEW old \in SUBSET rows, Delete(old)
      PROVE  FileFirst' /\ ListedIsPlayable'
    <2>1. files' = files
        BY <1>9, CleanersMiss
    <2> QED
        BY <1>9, <2>1 DEF Delete
<1> QED
    BY <1>1, <1>2, <1>3, <1>4, <1>5, <1>6, <1>7, <1>8, <1>9 DEF Next

-----------------------------------------------------------------------------
(* What is known under a name.                                             *)

LEMMA BlankStep ==
    ASSUME TypeOK, Blank, [Next]_vars
    PROVE  Blank'
<1>1. CASE StartExam
    BY <1>1 DEF StartExam, TypeOK, Blank
<1>2. CASE loads # 0 /\ ~StartExam
    <2>1. loads' = loads
        BY <1>2 DEF Next, vars, Shoot, EndExam, Unload, RetryInterval, Heartbeat,
                    ConnectionChanges, UploadFails, UploadAnswered, SaveFile,
                    CommitRow, Killed, Lost, Delete
    <2> QED
        BY <1>2, <2>1 DEF Blank
<1>3. CASE loads = 0 /\ ~StartExam
    <2>1. page = NoPage /\ uploads = {} /\ rows = {} /\ Waiting = {} /\ DOMAIN files = {}
        BY <1>3 DEF Blank
    <2>2. ConnectionChanges \/ UNCHANGED vars
        BY <1>3, <2>1 DEF Next, NoPage, Shoot, EndExam, Unload, RetryInterval,
                          Heartbeat, Delete
    <2> QED
        BY <2>1, <2>2 DEF ConnectionChanges, vars, Blank, Waiting
<1> QED
    BY <1>1, <1>2, <1>3

(* Steps after which nothing is known that was not known before.           *)
LEMMA KnownShrinks ==
    ASSUME TypeOK, [Next]_vars, ~(\E k \in Kinds : Shoot(k)), ~StartExam
    PROVE  Known' \subseteq Known /\ next' = next /\ loads' = loads
<1>t. \A u \in uploads : u \in Upload /\ u.chunk \in Chunk /\ u.chunk \in Known
    BY DEF TypeOK, Upload, Known
<1>1. CASE EndExam \/ ConnectionChanges \/ UNCHANGED vars
    BY <1>1 DEF EndExam, ConnectionChanges, vars, Known, Waiting
<1>2. CASE Unload
    <2>1. \A w \in uploads' : \E u \in uploads : w.chunk = u.chunk
        BY <1>2, <1>t DEF Unload, Upload
    <2>2. Waiting' = {}
        <3> SUFFICES ASSUME NEW c \in Waiting'
                     PROVE  FALSE
            OBVIOUS
        <3>1. PICK k \in Kinds : \E i \in DOMAIN queue'[k] : c = queue'[k][i]
            BY InAQueueNext
        <3>2. queue'[k] = <<>>
            BY <1>2 DEF Unload
        <3> QED
            BY <3>1, <3>2
    <2> QED
        BY <1>2, <1>t, <2>1, <2>2 DEF Unload, Known
<1>3. ASSUME NEW u \in uploads, UploadFails(u) \/ Killed(u)
      PROVE  Known' \subseteq Known /\ next' = next /\ loads' = loads
    <2>1. \A w \in uploads' : \E v \in uploads : w.chunk = v.chunk
        BY <1>3, <1>t DEF UploadFails, Killed, Upload
    <2>2. Waiting' \subseteq Waiting \cup {u.chunk}
        <3>1. CASE QueueChunk(u.chunk)
            BY <3>1, <1>t, QueueAfter
        <3>2. CASE UNCHANGED queue
            BY <3>2 DEF Waiting
        <3> QED
            BY <1>3, <3>1, <3>2 DEF UploadFails, Killed
    <2> QED
        BY <1>3, <1>t, <2>1, <2>2 DEF UploadFails, Killed, Known
<1>4. ASSUME NEW u \in uploads,
             UploadAnswered(u) \/ Lost(u) \/ SaveFile(u) \/ CommitRow(u)
      PROVE  Known' \subseteq Known /\ next' = next /\ loads' = loads
    <2>1. \A w \in uploads' : \E v \in uploads : w.chunk = v.chunk
        BY <1>4, <1>t DEF UploadAnswered, Lost, SaveFile, CommitRow, Upload
    <2>2. rows' \subseteq rows \cup {u.chunk} /\ Waiting' = Waiting
        BY <1>4 DEF UploadAnswered, Lost, SaveFile, CommitRow, Waiting
    <2> QED
        BY <1>4, <1>t, <2>1, <2>2
        DEF UploadAnswered, Lost, SaveFile, CommitRow, Known
<1>5. CASE Flush /\ UNCHANGED <<next, rows, loads>>
    <2>1. \A w \in uploads' : w \in uploads \/ w.chunk \in Waiting
        BY <1>5, FlushAfter DEF Sent
    <2> QED
        BY <1>5, <2>1, FlushAfter DEF Known
<1>6. CASE RetryInterval \/ Heartbeat
    BY <1>5, <1>6 DEF RetryInterval, Heartbeat, Known, Waiting
<1>7. ASSUME NEW old \in SUBSET rows, Delete(old)
      PROVE  Known' \subseteq Known /\ next' = next /\ loads' = loads
    BY <1>7 DEF Delete, Known, Waiting
<1> QED
    BY <1>1, <1>2, <1>3, <1>4, <1>6, <1>7 DEF Next

(* A first load: names are given out in order and stand for one thing.     *)
LEMMA OneNameStep ==
    ASSUME TypeOK, FileFirst, Blank, OneName, [Next]_vars
    PROVE  OneName'
<1>t. /\ \A c \in Known : c \in Chunk /\ c.kind \in Kinds /\ c.index \in Nat
      /\ \A k \in Kinds : next[k] \in Nat
      /\ \A p \in DOMAIN files : p.index \in Nat /\ p.dir \in Kinds
    <2>1. Known \subseteq Chunk
        BY WaitingAreChunks DEF Known, TypeOK, Upload
    <2> QED
        BY <2>1 DEF TypeOK, FileFirst, Chunk, Index, Path
<1>1. CASE StartExam
    <2>1. CASE loads = 0
        <3>1. Waiting' = Waiting
            BY <1>1 DEF StartExam, Waiting
        <3>2. uploads' = {} /\ rows' = {} /\ Waiting' = {} /\ DOMAIN files' = {}
            BY <1>1, <2>1, <3>1 DEF StartExam, Blank
        <3>3. Known' = {}
            BY <3>2 DEF Known
        <3> QED
            BY <3>2, <3>3 DEF OneName
    <2>2. CASE loads # 0
        <3>1. loads' # 1
            BY <1>1, <2>2 DEF StartExam, TypeOK
        <3> QED
            BY <3>1 DEF OneName
    <2> QED
        BY <2>1, <2>2
<1>2. ASSUME NEW k \in Kinds, Shoot(k)
      PROVE  OneName'
    <2> DEFINE new == [kind |-> k, index |-> next[k], footage |-> shot']
    <2>1. Known' = Known \cup {new}
        <3>1. uploads' = uploads \cup {Sent(new)} /\ Sent(new).chunk = new
            BY <1>2 DEF Shoot, Sent
        <3>2. {u.chunk : u \in uploads'} = {u.chunk : u \in uploads} \cup {new}
            BY <3>1
        <3>3. rows' = rows /\ Waiting' = Waiting
            BY <1>2 DEF Shoot, Waiting
        <3> QED
            BY <3>2, <3>3 DEF Known
    <2>2. \A j \in Kinds : next'[j] = IF j = k THEN next[j] + 1 ELSE next[j]
        BY <1>2 DEF Shoot, NextIndex, TypeOK
    <2>3. loads' = loads /\ files' = files
        BY <1>2 DEF Shoot
    <2>4. new.kind = k /\ new.index = next[k]
        OBVIOUS
    <2> HIDE DEF new
    <2> SUFFICES ASSUME loads = 1
                 PROVE  OneName'
        BY <2>3 DEF OneName
    <2>5. \A c \in Known' : c.index < next'[c.kind]
        BY <1>t, <2>1, <2>2, <2>4 DEF OneName
    <2>6. \A c \in Known : ~(c.kind = new.kind /\ c.index = new.index)
        BY <1>t, <2>4 DEF OneName
    <2>7. \A c, d \in Known' :
              (c.kind = d.kind /\ c.index = d.index) => c.footage = d.footage
        BY <2>1, <2>6 DEF OneName
    <2>8. \A p \in DOMAIN files : p.index < next'[p.dir]
        BY <1>t, <2>2 DEF OneName
    <2>9. ServedPath(new) \notin DOMAIN files
        BY <1>t, <2>4 DEF OneName, ServedPath
    <2> QED
        BY <2>1, <2>3, <2>5, <2>7, <2>8, <2>9 DEF OneName
<1>3. ASSUME NEW u \in uploads, SaveFile(u)
      PROVE  OneName'
    <2>1. Known' \subseteq Known /\ next' = next /\ loads' = loads
        <3>1. loads' = loads /\ shot' = shot /\ loads \in Nat /\ shot \in Nat
            BY <1>3, ConstantsAssumption DEF SaveFile, TypeOK
        <3>2. ~StartExam
            BY <3>1 DEF StartExam
        <3>3. ASSUME NEW k \in Kinds, Shoot(k)
              PROVE  FALSE
            <4>1. shot' = shot + 1
                BY <3>3 DEF Shoot
            <4> QED
                BY <3>1, <4>1
        <3> QED
            BY <3>2, <3>3, KnownShrinks
    <2> SUFFICES ASSUME loads = 1
                 PROVE  OneName'
        BY <2>1 DEF OneName
    <2>2. u.chunk \in Known /\ StorePath(u.chunk) = ServedPath(u.chunk)
        BY DEF Known, StorePath, ServedPath
    <2>3. DOMAIN files' = DOMAIN files \cup {ServedPath(u.chunk)}
        BY <1>3, <2>2 DEF SaveFile
    <2>4. \A p \in DOMAIN files' :
              files'[p] = IF p = ServedPath(u.chunk) THEN u.chunk.footage ELSE files[p]
        BY <1>3, <2>2 DEF SaveFile
    <2>5. \A c \in Known : ServedPath(c) = ServedPath(u.chunk) => c.footage = u.chunk.footage
        BY <2>2 DEF OneName, ServedPath
    <2>6. \A p \in DOMAIN files' : p.index < next'[p.dir]
        BY <2>1, <2>2, <2>3 DEF OneName, ServedPath
    <2>7. \A p \in DOMAIN files' : \A c \in Known' :
              ServedPath(c) = p => files'[p] = c.footage
        BY <2>1, <2>3, <2>4, <2>5 DEF OneName
    <2> QED
        BY <2>1, <2>6, <2>7 DEF OneName
<1>4. CASE /\ ~StartExam /\ ~(\E k \in Kinds : Shoot(k))
           /\ ~(\E u \in uploads : SaveFile(u))
    <2>1. Known' \subseteq Known /\ next' = next /\ loads' = loads
        BY <1>4, KnownShrinks
    <2>2. files' = files
        BY <1>4, CleanersMiss
        DEF Next, vars, EndExam, Unload, RetryInterval, Heartbeat,
            ConnectionChanges, UploadFails, UploadAnswered, CommitRow, Killed, Lost
    <2> QED
        BY <2>1, <2>2 DEF OneName
<1> QED
    BY <1>1, <1>2, <1>3, <1>4

-----------------------------------------------------------------------------
(* What became of each chunk.                                              *)

LEMMA AnsweredStep ==
    ASSUME TypeOK, AnsweredIsStored, [Next]_vars
    PROVE  AnsweredIsStored'
<1> USE DEF AnsweredIsStored
<1>t. \A u \in uploads : u \in Upload
    BY DEF TypeOK
<1>1. CASE StartExam \/ EndExam \/ ConnectionChanges \/ UNCHANGED vars
    BY <1>1 DEF StartExam, EndExam, ConnectionChanges, vars
<1>2. ASSUME NEW k \in Kinds, Shoot(k)
      PROVE  AnsweredIsStored'
    BY <1>2 DEF Shoot, Sent
<1>3. CASE Unload
    <2>1. \A w \in uploads' :
             \E u \in uploads : w.stage = u.stage /\ w.chunk = u.chunk
        BY <1>3, <1>t DEF Unload, Upload
    <2> QED
        BY <1>3, <2>1 DEF Unload
<1>4. ASSUME NEW u \in uploads, UploadFails(u)
      PROVE  AnsweredIsStored'
    <2>1. \A w \in uploads' : w \in uploads \/ (w.stage = u.stage /\ w.chunk = u.chunk)
        BY <1>4, <1>t DEF UploadFails, Upload
    <2> QED
        BY <1>4, <2>1 DEF UploadFails
<1>5. ASSUME NEW u \in uploads, UploadAnswered(u) \/ Killed(u) \/ Lost(u)
      PROVE  AnsweredIsStored'
    BY <1>5 DEF UploadAnswered, Killed, Lost
<1>6. CASE RetryInterval \/ Heartbeat
    <2>1. \A w \in uploads' : w \in uploads \/ w.stage = "sent"
        BY <1>6 DEF RetryInterval, Heartbeat, Flush, Sent
    <2> QED
        BY <1>6, <2>1 DEF RetryInterval, Heartbeat
<1>7. ASSUME NEW u \in uploads, SaveFile(u)
      PROVE  AnsweredIsStored'
    <2>1. \A w \in uploads' : w \in uploads \/ w.stage = "saved"
        BY <1>7, <1>t DEF SaveFile, Upload
    <2> QED
        BY <1>7, <2>1 DEF SaveFile
<1>8. ASSUME NEW u \in uploads, CommitRow(u)
      PROVE  AnsweredIsStored'
    <2>1. \A w \in uploads' : w \in uploads \/ w.chunk = u.chunk
        BY <1>8, <1>t DEF CommitRow, Upload
    <2> QED
        BY <1>8, <2>1 DEF CommitRow
<1>9. ASSUME NEW old \in SUBSET rows, Delete(old)
      PROVE  AnsweredIsStored'
    BY <1>9 DEF Delete
<1> QED
    BY <1>1, <1>2, <1>3, <1>4, <1>5, <1>6, <1>7, <1>8, <1>9 DEF Next

(* The three places a chunk can be in while its page lives.                *)
Settled(n) == n \in stored \cup dropped
Awaited(n) == \E u \in uploads : u.awaited /\ u.chunk.footage = n
Held(n) == \E c \in Waiting : c.footage = n

LEMMA NoneIsLost ==
    ASSUME TypeOK, AnsweredIsStored, [Next]_vars,
           ~StartExam, ~Unload, ~(\E k \in Kinds : Shoot(k)),
           NEW n, Settled(n) \/ Awaited(n) \/ Held(n)
    PROVE  (Settled(n) \/ Awaited(n) \/ Held(n))'
<1>t. \A u \in uploads : u \in Upload /\ u.chunk \in Chunk
    BY DEF TypeOK, Upload
<1>1. CASE EndExam \/ ConnectionChanges \/ UNCHANGED vars
    BY <1>1 DEF EndExam, ConnectionChanges, vars, Settled, Awaited, Held, Waiting
<1>2. ASSUME NEW u \in uploads, QueueChunk(u.chunk), stored' = stored,
             \A w \in uploads : w # u => w \in uploads'
      PROVE  (Settled(n) \/ Awaited(n) \/ Held(n))'
    <2>1. /\ dropped \subseteq dropped' /\ u.chunk \in Waiting'
          /\ \A d \in Waiting : d \in Waiting' \/ d.footage \in dropped'
        BY <1>2, <1>t, QueueAfter
    <2>2. Settled(n) => Settled(n)'
        BY <1>2, <2>1 DEF Settled
    <2>3. Held(n) => (Held(n) \/ Settled(n))'
        BY <2>1 DEF Held, Settled
    <2>4. Awaited(n) => (Awaited(n) \/ Held(n))'
        BY <1>2, <2>1 DEF Awaited, Held
    <2> QED
        BY <2>2, <2>3, <2>4
<1>3. ASSUME NEW u \in uploads, UploadFails(u)
      PROVE  (Settled(n) \/ Awaited(n) \/ Held(n))'
    BY <1>2, <1>3 DEF UploadFails
<1>4. ASSUME NEW u \in uploads, Killed(u)
      PROVE  (Settled(n) \/ Awaited(n) \/ Held(n))'
    <2>1. CASE u.awaited
        BY <1>2, <1>4, <2>1 DEF Killed
    <2>2. CASE ~u.awaited
        BY <1>4, <2>2 DEF Killed, Settled, Awaited, Held, Waiting
    <2> QED
        BY <2>1, <2>2
<1>5. ASSUME NEW u \in uploads, UploadAnswered(u)
      PROVE  (Settled(n) \/ Awaited(n) \/ Held(n))'
    BY <1>5 DEF UploadAnswered, AnsweredIsStored, Settled, Awaited, Held, Waiting
<1>6. ASSUME NEW u \in uploads, Lost(u)
      PROVE  (Settled(n) \/ Awaited(n) \/ Held(n))'
    BY <1>6 DEF Lost, Settled, Awaited, Held, Waiting
<1>7. ASSUME NEW u \in uploads, SaveFile(u)
      PROVE  (Settled(n) \/ Awaited(n) \/ Held(n))'
    <2> DEFINE v == [u EXCEPT !.stage = "saved"]
    <2>1. v \in uploads' /\ \A w \in uploads : w = u \/ w \in uploads'
        BY <1>7 DEF SaveFile
    <2>2. v.chunk = u.chunk /\ v.awaited = u.awaited
        BY <1>t DEF Upload
    <2> HIDE DEF v
    <2>3. \A w \in uploads : \E x \in uploads' : x.chunk = w.chunk /\ x.awaited = w.awaited
        BY <2>1, <2>2
    <2> QED
        BY <1>7, <2>3 DEF SaveFile, Settled, Awaited, Held, Waiting
<1>8. ASSUME NEW u \in uploads, CommitRow(u)
      PROVE  (Settled(n) \/ Awaited(n) \/ Held(n))'
    <2>1. u.chunk.footage \in stored' /\ \A w \in uploads : w = u \/ w \in uploads'
        BY <1>8 DEF CommitRow
    <2> QED
        BY <1>8, <2>1 DEF CommitRow, Settled, Awaited, Held, Waiting
<1>9. ASSUME Flush, UNCHANGED <<stored, dropped>>
      PROVE  (Settled(n) \/ Awaited(n) \/ Held(n))'
    <2>1. \A c \in Waiting : Sent(c) \in uploads' /\ Sent(c).awaited /\ Sent(c).chunk = c
        BY <1>9, FlushAfter DEF Sent
    <2>2. uploads \subseteq uploads'
        BY <1>9, FlushAfter
    <2> QED
        BY <1>9, <2>1, <2>2 DEF Settled, Awaited, Held
<1>10. CASE RetryInterval
    BY <1>9, <1>10 DEF RetryInterval
<1>11. CASE Heartbeat
    <2>1. CASE up
        BY <1>9, <1>11, <2>1 DEF Heartbeat
    <2>2. CASE ~up
        BY <1>11, <2>2 DEF Heartbeat, Settled, Awaited, Held, Waiting
    <2> QED
        BY <2>1, <2>2
<1>12. ASSUME NEW old \in SUBSET rows, Delete(old)
       PROVE  (Settled(n) \/ Awaited(n) \/ Held(n))'
    BY <1>12 DEF Delete, Settled, Awaited, Held, Waiting
<1> QED
    BY <1>1, <1>3, <1>4, <1>5, <1>6, <1>7, <1>8, <1>10, <1>11, <1>12 DEF Next

LEMMA ForgottenStep ==
    ASSUME TypeOK, Counted, AnsweredIsStored, NothingForgotten, [Next]_vars
    PROVE  NothingForgotten'
<1>n. ASSUME NEW n \in (page.since + 1) .. shot, page.at # "closed"
      PROVE  Settled(n) \/ Awaited(n) \/ Held(n)
    BY <1>n DEF NothingForgotten, Settled, Awaited, Held
<1>p. SUFFICES ASSUME page'.at # "closed", NEW n \in (page'.since + 1) .. shot'
               PROVE  (Settled(n) \/ Awaited(n) \/ Held(n))'
    BY DEF NothingForgotten, Settled, Awaited, Held
<1>t. shot \in Nat /\ page.since \in Nat /\ page \in Page
    BY ConstantsAssumption DEF TypeOK, Page
<1>1. CASE StartExam
    <2>1. page'.since = shot /\ shot' = shot
        BY <1>1 DEF StartExam
    <2> QED
        BY <1>p, <1>t, <2>1
<1>2. CASE Unload
    BY <1>p, <1>2 DEF Unload, NoPage
<1>3. ASSUME NEW k \in Kinds, Shoot(k)
      PROVE  (Settled(n) \/ Awaited(n) \/ Held(n))'
    <2> DEFINE new == Sent([kind |-> k, index |-> next[k], footage |-> shot'])
    <2>1. /\ new \in uploads' /\ new.awaited /\ new.chunk.footage = shot'
          /\ uploads \subseteq uploads' /\ shot' = shot + 1
          /\ UNCHANGED <<stored, dropped, queue>>
        BY <1>3 DEF Shoot, Sent
    <2>2. page'.since = page.since /\ page'.at = page.at
        BY <1>3, <1>t DEF Shoot, Page
    <2> HIDE DEF new
    <2>3. CASE n = shot'
        BY <2>1, <2>3 DEF Awaited
    <2>4. CASE n # shot'
        <3>1. n \in (page.since + 1) .. shot
            BY <1>t, <2>1, <2>2, <2>4
        <3>2. Settled(n) \/ Awaited(n) \/ Held(n)
            BY <1>n, <1>p, <2>2, <3>1
        <3> QED
            BY <2>1, <3>2 DEF Settled, Awaited, Held, Waiting
    <2> QED
        BY <2>3, <2>4
<1>4. CASE ~StartExam /\ ~Unload /\ ~(\E k \in Kinds : Shoot(k))
    <2>1. shot' = shot /\ page'.since = page.since /\ page.at # "closed"
        <3>1. CASE EndExam \/ Heartbeat
            BY <3>1, <1>t DEF EndExam, Heartbeat, Page
        <3>2. CASE ~EndExam /\ ~Heartbeat
            <4>1. shot' = shot /\ page' = page
                BY <1>4, <3>2
                DEF Next, vars, RetryInterval, ConnectionChanges, UploadFails,
                    UploadAnswered, SaveFile, CommitRow, Killed, Lost, Delete
            <4> QED
                BY <1>p, <4>1
        <3> QED
            BY <3>1, <3>2
    <2>2. Settled(n) \/ Awaited(n) \/ Held(n)
        BY <1>n, <2>1
    <2> QED
        BY <1>4, <2>2, NoneIsLost
<1> QED
    BY <1>1, <1>2, <1>3, <1>4

-----------------------------------------------------------------------------

(* The strengthened invariant holds throughout.                            *)
THEOREM Invariance == Spec => []IInv
<1>1. Init => IInv
    <2> SUFFICES ASSUME Init
                 PROVE  IInv
        OBVIOUS
    <2>1. TypeOK
        BY TypeInit
    <2>2. Waiting = {}
        <3> SUFFICES ASSUME NEW c \in Waiting
                     PROVE  FALSE
            OBVIOUS
        <3>1. PICK k \in Kinds : \E i \in DOMAIN queue[k] : c = queue[k][i]
            BY InAQueue
        <3>2. queue[k] = <<>>
            BY DEF Init
        <3> QED
            BY <3>1, <3>2
    <2>3. Counted /\ FileFirst /\ ListedIsPlayable /\ AnsweredIsStored
        BY DEF Init, NoPage, Counted, FileFirst, ListedIsPlayable, AnsweredIsStored
    <2>4. Blank /\ OneName /\ NothingForgotten
        BY <2>2 DEF Init, NoPage, Blank, OneName, NothingForgotten
    <2> QED
        BY <2>1, <2>3, <2>4 DEF IInv
<1>2. IInv /\ [Next]_vars => IInv'
    BY TypeStep, CountedStep, FilesStep, BlankStep, OneNameStep, AnsweredStep,
       ForgottenStep DEF IInv
<1> QED
    BY <1>1, <1>2, PTL DEF Spec

(* The page's memory, the requests, the disk and the table keep their      *)
(* types.                                                                  *)
THEOREM TypeCorrect == Spec => []TypeOK
<1>1. IInv => TypeOK
    BY DEF IInv
<1> QED
    BY <1>1, Invariance, PTL

(* Every row can be played, whatever crashed, was retried or cleaned up.   *)
THEOREM Playable == Spec => []ListedIsPlayable
<1>1. IInv => ListedIsPlayable
    BY DEF IInv
<1> QED
    BY <1>1, Invariance, PTL

(* Until the page is reloaded, what is played is what was shot under that  *)
(* name.                                                                   *)
THEOREM OwnFootage == Spec => []PlaysItsOwnFootage
<1>1. IInv => PlaysItsOwnFootage
    BY DEF IInv, OneName, ListedIsPlayable, PlaysItsOwnFootage, Known
<1> QED
    BY <1>1, Invariance, PTL

(* No chunk is forgotten while its page lives.                             *)
THEOREM Remembered == Spec => []NothingForgotten
<1>1. IInv => NothingForgotten
    BY DEF IInv
<1> QED
    BY <1>1, Invariance, PTL

----------------------------------------------------------------------------
(***************************************************************************)
(* The live supervision of an attempt (Monitor), for any number of events, *)
(* messages, heartbeats, failures and rows.                                *)
(***************************************************************************)

(* A set of numbers below a bound has a greatest one: the one above which  *)
(* there are fewest.                                                       *)
LEMMA Greatest ==
    ASSUME NEW n \in Nat, NEW S, S \subseteq 0 .. n, S # {}
    PROVE  Max(S) \in S /\ \A y \in S : y <= Max(S)
<1> DEFINE Above(x) == {y \in S : x < y}
           T == {Above(x) : x \in S}
<1>1. IsFiniteSet(S)
    <2>1. IsFiniteSet(0 .. n) /\ S \in SUBSET (0 .. n)
        BY FS_Interval
    <2> QED
        BY <2>1, FS_Subset
<1>2. T \subseteq FiniteSubsetsOf(S) /\ T # {}
    <2>1. T \subseteq SUBSET S /\ T # {}
        OBVIOUS
    <2>2. FiniteSubsetsOf(S) = SUBSET S
        BY <1>1, FS_FiniteSubsetsOfFinite
    <2> QED
        BY <2>1, <2>2
<1>3. PICK t \in T : \A u \in T : ~(<<u, t>> \in StrictSubsetOrdering(S))
    <2> HIDE DEF T
    <2>1. IsWellFoundedOn(StrictSubsetOrdering(S), FiniteSubsetsOf(S))
        BY FS_StrictSubsetOrderingWellFounded
    <2> QED
        BY <1>2, <2>1, WFMin
<1>4. PICK x \in S : t = Above(x)
    OBVIOUS
<1>5. \A y \in S : y <= x
    <2> SUFFICES ASSUME NEW y \in S, x < y
                 PROVE  FALSE
        OBVIOUS
    <2>1. Above(y) \subseteq Above(x) /\ y \in Above(x) /\ y \notin Above(y)
        <3>1. \A z \in S : z \in Int
            OBVIOUS
        <3>2. \A z \in S : y < z => x < z
            BY <3>1
        <3>3. ~(y < y)
            BY <3>1
        <3> QED
            BY <3>2, <3>3
    <2>2. <<Above(y), Above(x)>> \in StrictSubsetOrdering(S)
        BY <2>1 DEF StrictSubsetOrdering
    <2> QED
        BY <1>3, <1>4, <2>2, Above(y) \in T
<1> QED
    BY <1>4, <1>5 DEF Max

(* The browser is behind no row it has been shown, whether it goes on from *)
(* where it is or from its Last-Event-ID; without one it starts behind all *)
(* rows that are kept.                                                     *)
Shown == {i \in DOMAIN log : ghost.shown[i] > 0}

StreamFollows ==
    /\ Len(ghost.shown) = Len(log)
    /\ Shown \subseteq Kept
    /\ stream.last \in Kept \cup {0}
    /\ stream.last # 0 => \A i \in Shown : i <= stream.last
    /\ stream.open => /\ stream.cursor \in Kept \cup {0}
                      /\ stream.last <= stream.cursor
                      /\ \A i \in Shown : i <= stream.cursor

(* A message that no two heartbeats have carried is in one place.          *)
CarriedBy(m) == {h \in Beat : beat[h].at = "answer" /\ m \in beat[h].carries}

MessagesMove ==
    /\ \A h \in Beat : beat[h].at = "idle" => beat[h].carries = {}
    /\ \A m \in Message \ ghost.twice :
          /\ message[m] # "delivered" => ghost.read[m] = 0 /\ CarriedBy(m) = {}
          /\ ghost.read[m] > 0 => ghost.read[m] = 1 /\ CarriedBy(m) = {}
          /\ \A h, k \in CarriedBy(m) : h = k

(* The rows of an event, those that did not fail, and how many there may be*)
(* of these while the event is where it is.                                *)
RowsOf(e) == {i \in DOMAIN log : log[i].of = e}
Standing(e) == {i \in RowsOf(e) : log[i].state # "gone"}

OneUnpaid(e) ==
    \/ event[e] \in {"done", "lost"}
    \/ event[e] = "filed" /\ log[RowOf(e)].state # "gone"

Paid(e) ==
    /\ event[e] = "filed" => RowsOf(e) # {}
    /\ Cardinality(Standing(e)) <= ghost.resent[e] + (IF OneUnpaid(e) THEN 1 ELSE 0)
    /\ event[e] = "done" /\ Running => \E i \in Kept : log[i].of = e

RowsArePaid == \A e \in Event : Paid(e)

MonitorIInv ==
    /\ MonitorTypeOK
    /\ StreamFollows
    /\ MessagesMove
    /\ RowsArePaid
    /\ AlertsResume
    /\ MessagesShowOnce

-----------------------------------------------------------------------------
(* The table.                                                              *)

LEMMA LogTyped ==
    ASSUME MonitorTypeOK
    PROVE  /\ Len(log) \in Nat /\ DOMAIN log = 1 .. Len(log)
           /\ \A i \in DOMAIN log : log[i] \in Row
           /\ Kept \subseteq 1 .. Len(log)
<1>1. log \in Seq(Row)
    BY DEF MonitorTypeOK
<1>2. Len(log) \in Nat /\ DOMAIN log = 1 .. Len(log)
    BY <1>1, LenProperties
<1>3. \A i \in 1 .. Len(log) : log[i] \in Row
    BY <1>1, ElementOfSeq
<1> QED
    BY <1>2, <1>3 DEF Kept

LEMMA StateWritten ==
    ASSUME MonitorTypeOK, NEW i \in DOMAIN log, NEW s \in {"kept", "gone"},
           log' = [log EXCEPT ![i].state = s]
    PROVE  /\ log' \in Seq(Row) /\ Len(log') = Len(log) /\ DOMAIN log' = DOMAIN log
           /\ \A j \in DOMAIN log : /\ log'[j].of = log[j].of
                                    /\ log'[j].state = IF j = i THEN s ELSE log[j].state
<1>1. log \in Seq(Row) /\ Len(log) \in Nat /\ DOMAIN log = 1 .. Len(log) /\ log[i] \in Row
    BY LogTyped DEF MonitorTypeOK
<1>2. [log[i] EXCEPT !.state = s] \in Row
      /\ [log[i] EXCEPT !.state = s].of = log[i].of
      /\ [log[i] EXCEPT !.state = s].state = s
    BY <1>1 DEF Row
<1>3. log' = [log EXCEPT ![i] = [log[i] EXCEPT !.state = s]]
    OBVIOUS
<1>4. log' \in Seq(Row) /\ Len(log') = Len(log)
      /\ \A j \in 1 .. Len(log) :
            log'[j] = IF j = i THEN [log[i] EXCEPT !.state = s] ELSE log[j]
    BY <1>1, <1>2, <1>3, ExceptSeq
<1>5. DOMAIN log' = DOMAIN log
    BY <1>3
<1> QED
    BY <1>1, <1>2, <1>4, <1>5

LEMMA RowAppended ==
    ASSUME MonitorTypeOK, NEW e \in Event,
           log' = Append(log, [of |-> e, state |-> "open"])
    PROVE  /\ log' \in Seq(Row) /\ Len(log') = Len(log) + 1
           /\ DOMAIN log' = 1 .. Len(log) + 1
           /\ \A j \in DOMAIN log : log'[j] = log[j]
           /\ log'[Len(log) + 1] = [of |-> e, state |-> "open"]
<1>1. log \in Seq(Row) /\ Len(log) \in Nat /\ DOMAIN log = 1 .. Len(log)
    BY LogTyped DEF MonitorTypeOK
<1>2. [of |-> e, state |-> "open"] \in Row
    BY DEF Row
<1>3. log' \in Seq(Row)
    BY <1>1, <1>2, AppendProperties
<1>4. Len(log') = Len(log) + 1
      /\ \A j \in 1 .. Len(log) : log'[j] = log[j]
      /\ log'[Len(log) + 1] = [of |-> e, state |-> "open"]
    BY <1>1, <1>2, AppendProperties
<1>5. DOMAIN log' = 1 .. Len(log')
    BY <1>3, LenProperties
<1> QED
    BY <1>1, <1>3, <1>4, <1>5

(* Where a connection starts, and what a poll finds.                       *)
LEMMA Started ==
    ASSUME MonitorTypeOK, stream.last \in Kept \cup {0}
    PROVE  /\ StartAt(stream.last) \in Kept \cup {0} /\ StartAt(stream.last) \in Nat
           /\ stream.last # 0 => StartAt(stream.last) = stream.last
           /\ stream.last = 0 => \A i \in Kept : i <= StartAt(stream.last)
<1>1. Len(log) \in Nat /\ Kept \subseteq 0 .. Len(log)
    BY LogTyped
<1>2. Kept # {} => Max(Kept) \in Kept /\ \A i \in Kept : i <= Max(Kept)
    BY <1>1, Greatest
<1>3. StartAt(stream.last) \in Kept \cup {0}
    BY <1>2 DEF StartAt
<1>4. \A n \in Kept \cup {0} : n \in Nat
    BY <1>1
<1> QED
    BY <1>2, <1>3, <1>4 DEF StartAt

LEMMA Found ==
    ASSUME MonitorTypeOK, NEW n \in Nat, Alerts(n) # {}
    PROVE  /\ Alerts(n) = {i \in Kept : i > n}
           /\ Running
           /\ Max(Alerts(n)) \in Alerts(n)
           /\ \A i \in Alerts(n) : i <= Max(Alerts(n))
<1>1. Running /\ Alerts(n) = {i \in Kept : i > n}
    BY DEF Alerts
<1>2. Len(log) \in Nat /\ Alerts(n) \subseteq 0 .. Len(log)
    BY <1>1, LogTyped
<1> QED
    BY <1>1, <1>2, Greatest

(* The columns of the ghost that a step leaves alone, or counts.           *)
LEMMA Costs ==
    ASSUME MonitorTypeOK
    PROVE  /\ ghost.lost \in 0 .. MaxLost /\ ghost.breaks \in 0 .. MaxBreaks
           /\ ghost.shown \in Seq(Nat)
           /\ ghost.read \in [Message -> Nat] /\ ghost.unread \in [Message -> Nat]
           /\ ghost.resent \in [Event -> Nat] /\ ghost.twice \subseteq Message
           /\ ghost.late \subseteq Nat /\ ghost.before \subseteq Nat
           /\ stream.open \in BOOLEAN /\ stream.cursor \in Nat /\ stream.last \in Nat
           /\ Position \in Nat
           /\ ghost = [lost |-> ghost.lost, breaks |-> ghost.breaks, shown |-> ghost.shown,
                       read |-> ghost.read, unread |-> ghost.unread,
                       resent |-> ghost.resent, twice |-> ghost.twice,
                       late |-> ghost.late, before |-> ghost.before]
           /\ stream = [open |-> stream.open, cursor |-> stream.cursor, last |-> stream.last]
BY DEF MonitorTypeOK, Position

Ghost == [lost : 0 .. MaxLost, breaks : 0 .. MaxBreaks, shown : Seq(Nat),
          read : [Message -> Nat], unread : [Message -> Nat],
          resent : [Event -> Nat], twice : SUBSET Message,
          late : SUBSET Nat, before : SUBSET Nat]

LEMMA GhostTyped ==
    ASSUME MonitorTypeOK
    PROVE  /\ ghost \in Ghost
           /\ Fails => Failed(ghost) \in Ghost
           /\ Breaks => Broken(ghost) \in Ghost
           /\ \A s \in Seq(Nat) : [ghost EXCEPT !.shown = s] \in Ghost
           /\ Breaks => \A s \in Seq(Nat) : [Broken(ghost) EXCEPT !.shown = s] \in Ghost
           /\ \A s \in SUBSET Nat : [ghost EXCEPT !.late = s] \in Ghost
           /\ \A s \in SUBSET Nat : [ghost EXCEPT !.before = s] \in Ghost
           /\ \A s \in SUBSET Message : [ghost EXCEPT !.twice = s] \in Ghost
           /\ \A f \in [Message -> Nat] : /\ [ghost EXCEPT !.read = f] \in Ghost
                                          /\ [ghost EXCEPT !.unread = f] \in Ghost
           /\ Fails => \A f \in [Message -> Nat] : [Failed(ghost) EXCEPT !.unread = f] \in Ghost
           /\ \A f \in [Event -> Nat] : [ghost EXCEPT !.resent = f] \in Ghost
           /\ Fails => \A f \in [Event -> Nat] : [Failed(ghost) EXCEPT !.resent = f] \in Ghost
<1>1. ghost \in Ghost
    BY DEF MonitorTypeOK, Ghost
<1>2. Fails => ghost.lost + 1 \in 0 .. MaxLost
    BY <1>1, BoundAssumption DEF Fails, Ghost
<1>3. Breaks => ghost.breaks + 1 \in 0 .. MaxBreaks
    BY <1>1, BoundAssumption DEF Breaks, Ghost
<1> QED
    BY <1>1, <1>2, <1>3 DEF Ghost, Failed, Broken

LEMMA PageTyped ==
    ASSUME MonitorTypeOK, NEW e \in Event, PageStep(e)
    PROVE  MonitorTypeOK'
<1>1. UNCHANGED <<attempt, online, message, beat, stream>>
    BY DEF PageStep, Report, File, FileNothing, Answered, Unanswered
<1>2. event' \in [Event -> EventState]
    <2>1. \E s \in EventState : event' = [event EXCEPT ![e] = s]
        BY DEF PageStep, Report, File, FileNothing, Answered, Unanswered, EventState
    <2> QED
        BY <2>1 DEF MonitorTypeOK
<1>3. log' \in Seq(Row)
    <2>1. CASE File(e)
        BY <2>1, RowAppended DEF File
    <2>2. CASE Report(e) \/ FileNothing(e) \/ Answered(e) \/ Unanswered(e)
        BY <2>2 DEF Report, FileNothing, Answered, Unanswered, MonitorTypeOK
    <2> QED
        BY <2>1, <2>2 DEF PageStep
<1>4. ghost' \in Ghost
    <2>1. CASE File(e)
        <3>1. Append(ghost.shown, 0) \in Seq(Nat)
            BY Costs, AppendProperties
        <3> QED
            BY <2>1, <3>1, GhostTyped DEF File
    <2>2. CASE Unanswered(e)
        <3>1. [ghost.resent EXCEPT ![e] = @ + 1] \in [Event -> Nat]
            BY Costs
        <3>2. Failed(ghost).resent = ghost.resent
            BY Costs DEF Failed
        <3>3. CASE ghost' = ghost
            BY <3>3, GhostTyped
        <3>4. CASE ghost' = [ghost EXCEPT !.resent[e] = @ + 1]
            BY <3>1, <3>4, GhostTyped
        <3>5. CASE Fails /\ ghost' = [Failed(ghost) EXCEPT !.resent[e] = @ + 1]
            <4>1. ghost' = [Failed(ghost) EXCEPT !.resent = [ghost.resent EXCEPT ![e] = @ + 1]]
                BY <3>2, <3>5
            <4> QED
                BY <3>1, <3>5, <4>1, GhostTyped
        <3> QED
            BY <2>2, <3>3, <3>4, <3>5 DEF Unanswered
    <2>3. CASE Report(e) \/ FileNothing(e) \/ Answered(e)
        BY <2>3, GhostTyped DEF Report, FileNothing, Answered
    <2> QED
        BY <2>1, <2>2, <2>3 DEF PageStep
<1> QED
    BY <1>1, <1>2, <1>3, <1>4 DEF MonitorTypeOK, Ghost

LEMMA RowTyped ==
    ASSUME MonitorTypeOK, NEW i \in DOMAIN log, RowStep(i)
    PROVE  MonitorTypeOK'
<1>1. UNCHANGED <<attempt, event, online, message, beat, stream>>
    BY DEF RowStep, Commit, Abort
<1>2. log' \in Seq(Row)
    BY StateWritten DEF RowStep, Commit, Abort
<1>3. ghost' \in Ghost
    <2>1. i \in Nat
        BY LogTyped
    <2>2. CASE Commit(i)
        <3>1. ghost.late \cup {i} \in SUBSET Nat
            BY <2>1, Costs
        <3> QED
            BY <2>2, <3>1, GhostTyped DEF Commit
    <2>3. CASE Abort(i)
        BY <2>3, GhostTyped DEF Abort
    <2> QED
        BY <2>2, <2>3 DEF RowStep
<1> QED
    BY <1>1, <1>2, <1>3 DEF MonitorTypeOK, Ghost

LEMMA Flushing ==
    ASSUME MonitorTypeOK, BackOnline
    PROVE  /\ event' \in [Event -> EventState] /\ online' = TRUE
           /\ \A e \in Event : event'[e] = event[e] \/ (event[e] = "queued" /\ event'[e] = "taken")
<1>1. event \in [Event -> EventState] /\ online' = TRUE
    BY DEF MonitorTypeOK, BackOnline
<1>2. CASE event' = event
    BY <1>1, <1>2
<1>3. CASE event' = [e \in Event |-> IF event[e] = "queued" THEN "taken" ELSE event[e]]
    BY <1>1, <1>3 DEF EventState
<1> QED
    BY <1>2, <1>3 DEF BackOnline, Flushed

LEMMA BeatTyped ==
    ASSUME MonitorTypeOK, NEW h \in Beat, BeatStep(h)
    PROVE  MonitorTypeOK'
<1>1. UNCHANGED <<attempt, log, stream>>
    BY DEF BeatStep, LoadBeat, CommitBeat, BeatAnswered, BeatUnanswered
<1>2. beat[h] \in BeatState /\ Unheard \subseteq Message
    BY DEF MonitorTypeOK, Unheard
<1>3. beat' \in [Beat -> BeatState]
    <2>1. beat \in [Beat -> BeatState] /\ Idle \in BeatState
        BY DEF MonitorTypeOK, BeatState, Idle
    <2>2. [at |-> "loaded", carries |-> Unheard, page |-> TRUE] \in BeatState
          /\ [beat[h] EXCEPT !.at = "answer"] \in BeatState
        BY <1>2 DEF BeatState
    <2>3. \E b \in BeatState : beat' = [beat EXCEPT ![h] = b]
        <3>1. CASE LoadBeat(h)
            BY <2>2, <3>1 DEF LoadBeat
        <3>2. CASE CommitBeat(h)
            BY <2>2, <3>2 DEF CommitBeat
        <3>3. CASE BeatAnswered(h) \/ BeatUnanswered(h)
            BY <2>1, <3>3 DEF BeatAnswered, BeatUnanswered
        <3> QED
            BY <3>1, <3>2, <3>3 DEF BeatStep
    <2> QED
        BY <2>1, <2>3
<1>4. message' \in [Message -> {"none", "pending", "delivered"}]
    BY DEF BeatStep, LoadBeat, CommitBeat, BeatAnswered, BeatUnanswered, MonitorTypeOK, Marked
<1>5. event' \in [Event -> EventState] /\ online' \in BOOLEAN
    <2>1. \/ event' = event /\ online' = online
          \/ event' = event /\ online' = FALSE
          \/ BackOnline
        BY DEF BeatStep, LoadBeat, CommitBeat, BeatAnswered, BeatUnanswered
    <2> QED
        BY <2>1, Flushing DEF MonitorTypeOK
<1>6. ghost' \in Ghost
    <2>1. CASE LoadBeat(h)
        BY <2>1, GhostTyped DEF LoadBeat
    <2>2. CASE CommitBeat(h)
        <3>1. ghost.twice \cup {m \in beat[h].carries : message[m] = "delivered"} \in SUBSET Message
            BY <1>2, Costs DEF BeatState
        <3> QED
            BY <2>2, <3>1, GhostTyped DEF CommitBeat
    <2>3. CASE BeatAnswered(h)
        <3>1. CountIn(ghost.read, beat[h].carries) \in [Message -> Nat]
            BY Costs DEF CountIn
        <3> QED
            BY <2>3, <3>1, GhostTyped DEF BeatAnswered
    <2>4. CASE BeatUnanswered(h)
        <3>1. CountIn(ghost.unread, beat[h].carries) \in [Message -> Nat]
            BY Costs DEF CountIn
        <3>2. Failed(ghost).unread = ghost.unread
            BY Costs DEF Failed
        <3> QED
            BY <2>4, <3>1, <3>2, GhostTyped DEF BeatUnanswered
    <2> QED
        BY <2>1, <2>2, <2>3, <2>4 DEF BeatStep
<1> QED
    BY <1>1, <1>3, <1>4, <1>5, <1>6 DEF MonitorTypeOK, Ghost

LEMMA OtherTyped ==
    ASSUME MonitorTypeOK, EmptyBeat \/ NoConnection \/ Reload \/ End \/ \E m \in Message : Write(m)
    PROVE  MonitorTypeOK'
<1>1. UNCHANGED <<log, stream>>
    BY DEF EmptyBeat, NoConnection, Reload, End, Write
<1>2. attempt' \in {"in_progress", "ended"} /\ online' \in BOOLEAN
    BY DEF EmptyBeat, NoConnection, Reload, End, Write, BackOnline, MonitorTypeOK
<1>3. event' \in [Event -> EventState]
    BY ZenonT(40), Flushing DEF EmptyBeat, NoConnection, Reload, End, Write, MonitorTypeOK, EventState
<1>4. message' \in [Message -> {"none", "pending", "delivered"}]
    BY DEF EmptyBeat, NoConnection, Reload, End, Write, MonitorTypeOK
<1>5. beat' \in [Beat -> BeatState]
    <2>1. beat \in [Beat -> BeatState]
        BY DEF MonitorTypeOK
    <2>2. \A h \in Beat : [beat[h] EXCEPT !.page = beat[h].at = "idle"] \in BeatState
        BY <2>1 DEF BeatState
    <2>3. CASE beat' = beat
        BY <2>1, <2>3
    <2>4. CASE beat' = [h \in Beat |-> [beat[h] EXCEPT !.page = beat[h].at = "idle"]]
        BY <2>2, <2>4
    <2> QED
        BY <2>3, <2>4 DEF EmptyBeat, NoConnection, Reload, End, Write
<1>6. ghost' \in Ghost
    BY GhostTyped DEF EmptyBeat, NoConnection, Reload, End, Write
<1> QED
    BY <1>1, <1>2, <1>3, <1>4, <1>5, <1>6 DEF MonitorTypeOK, Ghost

(* What has been pushed is counted row by row.                             *)
LEMMA CountedPushes ==
    ASSUME MonitorTypeOK, NEW ids
    PROVE  /\ Pushed(ids) \in Seq(Nat) /\ Len(Pushed(ids)) = Len(ghost.shown)
           /\ DOMAIN ghost.shown = 1 .. Len(ghost.shown)
           /\ \A i \in DOMAIN ghost.shown :
                 Pushed(ids)[i] = IF i \in ids THEN ghost.shown[i] + 1 ELSE ghost.shown[i]
<1>1. ghost.shown \in Seq(Nat)
    BY Costs
<1> QED
    BY <1>1 DEF Pushed

LEMMA StreamTyped ==
    ASSUME MonitorTypeOK, StreamFollows,
           Connect \/ Poll \/ Disconnect \/ \E i \in DOMAIN log : PollBreaks(i)
    PROVE  MonitorTypeOK'
<1>1. UNCHANGED <<attempt, event, log, online, message, beat>>
    BY DEF Connect, Poll, Disconnect, PollBreaks
<1>2. Kept \subseteq Nat /\ DOMAIN log \subseteq Nat
    BY LogTyped
<1>3. stream' \in [open : BOOLEAN, cursor : Nat, last : Nat] /\ ghost' \in Ghost
    <2>1. CASE Connect
        <3>1. StartAt(stream.last) \in Nat
            <4>1. stream.last \in Kept \cup {0}
                BY DEF StreamFollows
            <4> QED
                BY <4>1, Started
        <3>2. stream' \in [open : BOOLEAN, cursor : Nat, last : Nat]
            BY <2>1, <3>1, Costs DEF Connect
        <3>3. ghost.before \cup (1 .. stream'.cursor) \in SUBSET Nat
            BY Costs
        <3> QED
            BY <2>1, <3>2, <3>3, GhostTyped DEF Connect
    <2>2. CASE Poll
        <3>1. Max(Alerts(stream.cursor)) \in Nat
            BY <1>2, <2>2, Found, Costs DEF Poll
        <3> QED
            BY <2>2, <3>1, CountedPushes, GhostTyped DEF Poll
    <2>3. CASE Disconnect
        <3>1. [stream EXCEPT !.open = FALSE] \in [open : BOOLEAN, cursor : Nat, last : Nat]
              /\ [stream EXCEPT !.open = FALSE, !.last = 0] \in [open : BOOLEAN, cursor : Nat, last : Nat]
            BY Costs
        <3> QED
            BY <2>3, <3>1, GhostTyped DEF Disconnect
    <2>4. ASSUME NEW i \in DOMAIN log, PollBreaks(i)
          PROVE  stream' \in [open : BOOLEAN, cursor : Nat, last : Nat] /\ ghost' \in Ghost
        BY <1>2, <2>4, CountedPushes, GhostTyped, Costs DEF PollBreaks
    <2> QED
        BY <2>1, <2>2, <2>3, <2>4
<1> QED
    BY <1>1, <1>3 DEF MonitorTypeOK, Ghost

LEMMA MonitorTypes ==
    ASSUME MonitorTypeOK, StreamFollows, [MonitorNext]_monitorVars
    PROVE  MonitorTypeOK'
<1>1. CASE UNCHANGED monitorVars
    BY <1>1 DEF monitorVars, MonitorTypeOK
<1>2. CASE MonitorNext
    BY <1>2, PageTyped, RowTyped, BeatTyped, OtherTyped, StreamTyped DEF MonitorNext
<1> QED
    BY <1>1, <1>2

-----------------------------------------------------------------------------
(* The stream.                                                             *)

(* The numbers that the arguments below are about.                         *)
LEMMA StreamNumbers ==
    ASSUME MonitorTypeOK, StreamFollows
    PROVE  /\ Kept \subseteq Nat \ {0} /\ DOMAIN log = 1 .. Len(log) /\ Len(log) \in Nat
           /\ \A i \in DOMAIN log : i \in Nat /\ ghost.shown[i] \in Nat
           /\ Position \in Kept \cup {0} /\ Position \in Nat
           /\ Position # 0 => \A i \in Shown : i <= Position
           /\ \A i \in DOMAIN log : ghost.shown[i] = 0 \/ i \in Shown
<1>1. DOMAIN log = 1 .. Len(log) /\ Len(log) \in Nat /\ Kept \subseteq 1 .. Len(log)
    BY LogTyped
<1>2. \A i \in 1 .. Len(log) : ghost.shown[i] \in Nat
    <2>1. ghost.shown \in Seq(Nat) /\ Len(ghost.shown) = Len(log)
        BY Costs DEF StreamFollows
    <2> QED
        BY <2>1, ElementOfSeq
<1>3. Position \in Kept \cup {0} /\ Position \in Nat
    BY Costs DEF Position, StreamFollows
<1>4. Position # 0 => \A i \in Shown : i <= Position
    BY DEF Position, StreamFollows
<1> QED
    BY <1>1, <1>2, <1>3, <1>4 DEF Shown

(* A step that pushes nothing, and commits no row at the place of the      *)
(* stream, and behind it only a late one.                                  *)
LEMMA NothingPushed ==
    ASSUME MonitorTypeOK, StreamFollows, AlertsResume,
           stream' = stream, DOMAIN log \subseteq DOMAIN log',
           Len(ghost'.shown) = Len(log'),
           \A i \in DOMAIN log : ghost'.shown[i] = ghost.shown[i],
           \A i \in DOMAIN log' \ DOMAIN log : ghost'.shown[i] = 0 /\ i \notin Kept',
           Kept \subseteq Kept', Running' => Running,
           ghost.before \subseteq ghost'.before, ghost.late \subseteq ghost'.late,
           \A i \in Kept' \ Kept : i \in Nat /\ i # Position /\ (i < Position => i \in ghost'.late)
    PROVE  StreamFollows' /\ AlertsResume'
<1>1. Shown' = Shown /\ Position' = Position
    BY DEF Shown, Position
<1>2. StreamFollows'
    BY <1>1 DEF StreamFollows
<1>3. \A i \in DOMAIN log' : ghost'.shown[i] <= 1
    BY DEF AlertsResume
<1>4. ASSUME NEW i \in Kept', i <= Position', Running'
      PROVE  ghost'.shown[i] = 1 \/ i \in ghost'.before \/ i \in ghost'.late
    <2>1. CASE i \in Kept
        <3>1. i \in DOMAIN log
            BY <2>1 DEF Kept
        <3> QED
            BY <1>1, <1>4, <2>1, <3>1 DEF AlertsResume
    <2>2. CASE i \notin Kept
        BY <1>1, <1>4, <2>2, StreamNumbers
    <2> QED
        BY <2>1, <2>2
<1> QED
    BY <1>2, <1>3, <1>4 DEF AlertsResume

LEMMA RowsPushed ==
    ASSUME MonitorTypeOK, StreamFollows, AlertsResume, NEW i \in DOMAIN log, RowStep(i)
    PROVE  StreamFollows' /\ AlertsResume'
<1>1. /\ UNCHANGED <<attempt, event, online, message, beat, stream>>
      /\ log[i].state = "open"
      /\ ghost'.shown = ghost.shown /\ ghost'.before = ghost.before
      /\ ghost.late \subseteq ghost'.late
    BY Costs DEF RowStep, Commit, Abort, Failed
<1>2. Len(log') = Len(log) /\ DOMAIN log' = DOMAIN log
    BY StateWritten DEF RowStep, Commit, Abort
<1>3. \A j \in DOMAIN log : log'[j].state = IF j # i THEN log[j].state
                                             ELSE IF Commit(i) THEN "kept" ELSE "gone"
    <2>1. CASE Commit(i)
        BY <2>1, StateWritten DEF Commit
    <2>2. CASE Abort(i) /\ ~Commit(i)
        BY <2>2, StateWritten DEF Abort
    <2> QED
        BY <2>1, <2>2 DEF RowStep
<1>4. Kept \subseteq Kept' /\ Kept' \subseteq Kept \cup {i}
    BY <1>1, <1>2, <1>3 DEF Kept
<1>5. i \in Kept' => Commit(i)
    BY <1>3 DEF Kept
<1>6. i \in Nat /\ i # Position
    BY <1>1, StreamNumbers DEF Kept
<1>7. Commit(i) /\ i < Position => i \in ghost'.late
    BY Costs DEF Commit
<1> QED
    BY <1>1, <1>2, <1>4, <1>5, <1>6, <1>7, NothingPushed DEF StreamFollows, Running

LEMMA FilePushed ==
    ASSUME MonitorTypeOK, StreamFollows, AlertsResume, NEW e \in Event, File(e)
    PROVE  StreamFollows' /\ AlertsResume'
<1>1. /\ UNCHANGED <<attempt, online, message, beat, stream>>
      /\ ghost'.shown = Append(ghost.shown, 0)
      /\ ghost'.before = ghost.before /\ ghost'.late = ghost.late
    BY Costs DEF File
<1>2. /\ Len(log') = Len(log) + 1 /\ DOMAIN log' = 1 .. Len(log) + 1
      /\ \A j \in DOMAIN log : log'[j] = log[j]
      /\ log'[Len(log) + 1].state = "open"
    BY RowAppended DEF File
<1>3. /\ Len(ghost'.shown) = Len(log) + 1
      /\ \A j \in 1 .. Len(log) : ghost'.shown[j] = ghost.shown[j]
      /\ ghost'.shown[Len(log) + 1] = 0
    <2>1. ghost.shown \in Seq(Nat) /\ Len(ghost.shown) = Len(log)
        BY Costs DEF StreamFollows
    <2> QED
        BY <1>1, <2>1, AppendProperties
<1>4. DOMAIN log = 1 .. Len(log) /\ Len(log) \in Nat
    BY LogTyped
<1>5. DOMAIN log' \ DOMAIN log = {Len(log) + 1} /\ DOMAIN log \subseteq DOMAIN log'
    BY <1>2, <1>4
<1>6. Kept' = Kept
    BY <1>2, <1>5 DEF Kept
<1>7. \A i \in DOMAIN log' \ DOMAIN log : ghost'.shown[i] = 0 /\ i \notin Kept'
    BY <1>2, <1>3, <1>5 DEF Kept
<1> QED
    BY <1>1, <1>2, <1>3, <1>4, <1>5, <1>6, <1>7, NothingPushed DEF Running

(* The steps of the page and of its heartbeats leave the rows alone.       *)
LEMMA OthersPushed ==
    ASSUME MonitorTypeOK, StreamFollows, AlertsResume,
           stream' = stream, log' = log, ghost'.shown = ghost.shown, Running' => Running,
           ghost'.before = ghost.before, ghost'.late = ghost.late
    PROVE  StreamFollows' /\ AlertsResume'
<1>1. Kept' = Kept
    BY DEF Kept
<1>2. Len(ghost.shown) = Len(log)
    BY DEF StreamFollows
<1> QED
    BY <1>1, <1>2, NothingPushed

(* A poll that gets as far as n pushes what is between the cursor and n.   *)
LEMMA PushedTo ==
    ASSUME MonitorTypeOK, StreamFollows, AlertsResume,
           NEW n \in Kept, stream.open, stream.cursor < n, attempt' = attempt, log' = log,
           stream'.open => stream'.cursor = n, stream'.last = n,
           ghost'.shown = Pushed({i \in Kept : i > stream.cursor /\ i <= n}),
           ghost'.before = ghost.before, ghost'.late = ghost.late
    PROVE  StreamFollows' /\ AlertsResume'
<1> DEFINE ids == {i \in Kept : i > stream.cursor /\ i <= n}
<1>1. Kept' = Kept /\ Position' = n /\ Position = stream.cursor /\ (Running' => Running)
    BY DEF Kept, Position, Running
<1>2. /\ Len(ghost'.shown) = Len(log)
      /\ DOMAIN log = DOMAIN ghost.shown
      /\ \A i \in DOMAIN log :
            ghost'.shown[i] = IF i \in ids THEN ghost.shown[i] + 1 ELSE ghost.shown[i]
    BY CountedPushes, LogTyped DEF StreamFollows
<1>3. \A i \in Shown : i <= stream.cursor
    BY DEF StreamFollows
<1>4. /\ n \in Nat /\ stream.cursor \in Nat /\ n # 0
      /\ Kept \subseteq DOMAIN log
      /\ \A i \in DOMAIN log : i \in Nat /\ ghost.shown[i] \in Nat
      /\ \A i \in DOMAIN log : ghost.shown[i] = 0 \/ i \in Shown
    BY StreamNumbers, Costs DEF Kept
<1>5. ASSUME NEW i \in ids
      PROVE  ghost.shown[i] = 0 /\ ghost'.shown[i] = 1
    <2>1. i \in Kept /\ stream.cursor < i /\ stream.cursor \in Nat
        BY <1>4
    <2>3. i \in DOMAIN log /\ i \in Nat
        BY <1>4, <2>1
    <2>4. i \notin Shown
        BY <1>3, <2>1, <2>3
    <2>2. ghost.shown[i] = 0
        BY <1>4, <2>3, <2>4
    <2> QED
        BY <1>2, <2>2, <2>3
<1>6. Shown' \subseteq Shown \cup ids
    BY <1>2, <1>4 DEF Shown
<1>7. \A i \in Shown' : i <= n /\ i \in Kept
    BY <1>3, <1>4, <1>6 DEF StreamFollows
<1>8. StreamFollows'
    BY <1>1, <1>2, <1>4, <1>7 DEF StreamFollows
<1>9. \A i \in DOMAIN log' : ghost'.shown[i] <= 1
    BY <1>2, <1>5 DEF AlertsResume
<1>10. \A i \in Kept : i <= n /\ Running =>
          ghost'.shown[i] = 1 \/ i \in ghost.before \/ i \in ghost.late
    BY <1>1, <1>2, <1>4, <1>5 DEF AlertsResume
<1> QED
    BY <1>1, <1>8, <1>9, <1>10 DEF AlertsResume

LEMMA StreamPushed ==
    ASSUME MonitorTypeOK, StreamFollows, AlertsResume,
           Connect \/ Poll \/ Disconnect \/ \E i \in DOMAIN log : PollBreaks(i)
    PROVE  StreamFollows' /\ AlertsResume'
<1>1. attempt' = attempt /\ log' = log
    BY DEF Connect, Poll, Disconnect, PollBreaks
<1>2. Kept' = Kept /\ (Running' <=> Running)
    BY <1>1 DEF Kept, Running
<1>3. CASE Connect
    <2>1. ~stream.open /\ Position = stream.last /\ stream.last \in Kept \cup {0}
        BY <1>3 DEF Connect, Position, StreamFollows
    <2>2. /\ stream'.open /\ stream'.cursor = StartAt(stream.last) /\ stream'.last = stream.last
          /\ Position' = StartAt(stream.last)
        BY <1>3, Costs DEF Connect, Position
    <2>3. /\ ghost'.shown = ghost.shown /\ ghost'.late = ghost.late
          /\ ghost.before \subseteq ghost'.before
          /\ stream.last = 0 => 1 .. stream'.cursor \subseteq ghost'.before
        BY <1>3, Costs DEF Connect
    <2>4. Shown' = Shown
        BY <1>1, <2>3 DEF Shown
    <2>5. StreamFollows'
        <3>1. \A i \in Shown : i <= StartAt(stream.last)
            BY <2>1, Started DEF StreamFollows
        <3>2. stream.last <= StartAt(stream.last)
            BY <2>1, Started, Costs
        <3> QED
            BY <1>1, <1>2, <2>1, <2>2, <2>3, <2>4, <3>1, <3>2, Started DEF StreamFollows
    <2>6. AlertsResume'
        <3>1. ASSUME NEW i \in Kept, i <= Position', Running
              PROVE  ghost'.shown[i] = 1 \/ i \in ghost'.before \/ i \in ghost'.late
            <4>1. CASE stream.last = 0
                <5>1. i \in 1 .. stream'.cursor
                    BY <2>1, <2>2, <3>1, Started, StreamNumbers
                <5> QED
                    BY <2>3, <4>1, <5>1
            <4>2. CASE stream.last # 0
                BY <2>1, <2>2, <2>3, <3>1, <4>2, Started DEF AlertsResume
            <4> QED
                BY <4>1, <4>2
        <3> QED
            BY <1>1, <1>2, <2>3, <3>1 DEF AlertsResume
    <2> QED
        BY <2>5, <2>6
<1>4. CASE Poll
    <2>1. stream.open /\ Alerts(stream.cursor) # {} /\ stream.cursor \in Nat
        BY <1>4, Costs DEF Poll
    <2>2. PICK n \in Kept : n = Max(Alerts(stream.cursor)) /\ stream.cursor < n
                            /\ Alerts(stream.cursor) = {i \in Kept : i > stream.cursor /\ i <= n}
        <3>1. Alerts(stream.cursor) = {i \in Kept : i > stream.cursor}
              /\ Max(Alerts(stream.cursor)) \in Alerts(stream.cursor)
              /\ \A i \in Alerts(stream.cursor) : i <= Max(Alerts(stream.cursor))
            BY <2>1, Found
        <3> QED
            BY <2>1, <3>1, StreamNumbers
    <2>3. /\ stream'.cursor = n /\ stream'.last = n
          /\ ghost'.shown = Pushed(Alerts(stream.cursor))
          /\ ghost'.before = ghost.before /\ ghost'.late = ghost.late
        BY <1>4, <2>2, Costs DEF Poll
    <2> QED
        BY <1>1, <2>1, <2>2, <2>3, PushedTo
<1>5. ASSUME NEW n \in DOMAIN log, PollBreaks(n)
      PROVE  StreamFollows' /\ AlertsResume'
    <2>1. stream.open /\ n \in Alerts(stream.cursor) /\ stream.cursor \in Nat
        BY <1>5, Costs DEF PollBreaks
    <2>2. /\ n \in Kept /\ stream.cursor < n
          /\ {i \in Alerts(stream.cursor) : i <= n} = {i \in Kept : i > stream.cursor /\ i <= n}
        BY <2>1, Found, StreamNumbers
    <2>3. /\ ~stream'.open /\ stream'.last = n
          /\ ghost'.shown = Pushed({i \in Alerts(stream.cursor) : i <= n})
          /\ ghost'.before = ghost.before /\ ghost'.late = ghost.late
        BY <1>5, Costs DEF PollBreaks, Broken
    <2> QED
        BY <1>1, <2>1, <2>2, <2>3, PushedTo
<1>6. CASE Disconnect
    <2>1. stream.open /\ ~stream'.open /\ stream'.last \in {stream.last, 0}
          /\ Position = stream.cursor /\ Position' = stream'.last
        BY <1>6, Costs DEF Disconnect, Position
    <2>2. ghost'.shown = ghost.shown /\ ghost'.late = ghost.late /\ ghost'.before = ghost.before
        BY <1>6, Costs DEF Disconnect, Broken
    <2>3. Shown' = Shown
        BY <1>1, <2>2 DEF Shown
    <2>4. StreamFollows'
        BY <1>1, <1>2, <2>1, <2>2, <2>3 DEF StreamFollows
    <2>5. \A i \in Kept : i <= Position' => i <= Position
        BY <2>1, StreamNumbers, Costs DEF StreamFollows
    <2>6. AlertsResume'
        BY <1>1, <1>2, <2>2, <2>5 DEF AlertsResume
    <2> QED
        BY <2>4, <2>6
<1> QED
    BY <1>3, <1>4, <1>5, <1>6

(* The heartbeats, and the page between its events, push nothing.          *)
LEMMA QuietSteps ==
    ASSUME MonitorTypeOK,
           \/ \E e \in Event : Report(e) \/ FileNothing(e) \/ Answered(e) \/ Unanswered(e)
           \/ \E h \in Beat : BeatStep(h)
           \/ \E m \in Message : Write(m)
           \/ Reload \/ EmptyBeat \/ NoConnection \/ End \/ UNCHANGED monitorVars
    PROVE  /\ stream' = stream /\ log' = log /\ ghost'.shown = ghost.shown /\ (Running' => Running)
           /\ ghost'.before = ghost.before /\ ghost'.late = ghost.late
<1>1. /\ stream' = stream /\ log' = log
      /\ attempt' = attempt \/ attempt' = "ended"
    BY DEF Report, FileNothing, Answered, Unanswered, BeatStep, LoadBeat, CommitBeat,
           BeatAnswered, BeatUnanswered, Write, Reload, EmptyBeat, NoConnection, End, monitorVars
<1>2. ghost'.shown = ghost.shown /\ ghost'.before = ghost.before /\ ghost'.late = ghost.late
    <2>1. CASE \E e \in Event : Unanswered(e)
        BY <2>1, Costs DEF Unanswered, Failed
    <2>2. CASE \E h \in Beat : BeatStep(h)
        BY <2>2, Costs DEF BeatStep, LoadBeat, CommitBeat, BeatAnswered, BeatUnanswered, Failed
    <2>3. CASE Reload \/ EmptyBeat \/ NoConnection \/ End \/ UNCHANGED monitorVars
        BY <2>3, Costs DEF Reload, EmptyBeat, NoConnection, End, monitorVars, Failed, Broken
    <2>4. CASE \/ \E e \in Event : Report(e) \/ FileNothing(e) \/ Answered(e)
               \/ \E m \in Message : Write(m)
        BY <2>4 DEF Report, FileNothing, Answered, Write
    <2> QED
        BY <2>1, <2>2, <2>3, <2>4
<1> QED
    BY <1>1, <1>2 DEF Running

LEMMA StreamStep ==
    ASSUME MonitorTypeOK, StreamFollows, AlertsResume, [MonitorNext]_monitorVars
    PROVE  StreamFollows' /\ AlertsResume'
<1>1. CASE \/ \E e \in Event : File(e)
           \/ \E i \in DOMAIN log : RowStep(i) \/ PollBreaks(i)
           \/ Connect \/ Poll \/ Disconnect
    BY <1>1, FilePushed, RowsPushed, StreamPushed
<1>2. CASE \/ \E e \in Event : Report(e) \/ FileNothing(e) \/ Answered(e) \/ Unanswered(e)
           \/ \E h \in Beat : BeatStep(h)
           \/ \E m \in Message : Write(m)
           \/ Reload \/ EmptyBeat \/ NoConnection \/ End \/ UNCHANGED monitorVars
    BY <1>2, QuietSteps, OthersPushed
<1> QED
    BY <1>1, <1>2 DEF MonitorNext, PageStep

-----------------------------------------------------------------------------
(* The messages.                                                           *)

LEMMA BeatNumbers ==
    ASSUME MonitorTypeOK
    PROVE  /\ \A h \in Beat : beat[h].at \in {"idle", "loaded", "answer"} /\ beat[h].carries \subseteq Message
           /\ \A m \in Message : ghost.read[m] \in Nat /\ ghost.unread[m] \in Nat
           /\ beat = [h \in Beat |-> beat[h]]
BY Costs DEF MonitorTypeOK, BeatState

(* A step that moves no message, at most out of "none".                    *)
LEMMA NothingMoved ==
    ASSUME MonitorTypeOK, MessagesMove, MessagesShowOnce,
           \A m \in Message : message'[m] = message[m]
                              \/ (message[m] # "delivered" /\ message'[m] # "delivered"),
           \A h \in Beat : beat'[h].at = beat[h].at /\ beat'[h].carries = beat[h].carries,
           ghost'.read = ghost.read, ghost'.unread = ghost.unread, ghost'.twice = ghost.twice
    PROVE  MessagesMove' /\ MessagesShowOnce'
<1>1. \A m \in Message : CarriedBy(m)' = CarriedBy(m)
    BY DEF CarriedBy
<1>2. MessagesMove'
    BY <1>1 DEF MessagesMove
<1>3. MessagesShowOnce'
    BY DEF MessagesShowOnce
<1> QED
    BY <1>2, <1>3

LEMMA LoadMoved ==
    ASSUME MonitorTypeOK, MessagesMove, MessagesShowOnce, NEW h \in Beat, LoadBeat(h)
    PROVE  MessagesMove' /\ MessagesShowOnce'
<1>1. message' = message /\ ghost' = ghost /\ beat[h].at = "idle" /\ beat[h].carries = {}
    BY DEF LoadBeat, MessagesMove
<1>2. beat'[h].at = "loaded" /\ \A k \in Beat \ {h} : beat'[k] = beat[k]
    BY BeatNumbers DEF LoadBeat
<1>3. \A m \in Message : CarriedBy(m)' = CarriedBy(m)
    BY <1>1, <1>2 DEF CarriedBy
<1>4. \A k \in Beat : beat'[k].at = "idle" => beat'[k].carries = {}
    BY <1>2 DEF MessagesMove
<1>5. MessagesMove'
    BY <1>1, <1>3, <1>4 DEF MessagesMove
<1>6. \A m \in Message : (\E k \in Beat : m \in beat[k].carries)
                           => \E k \in Beat : m \in beat'[k].carries
    BY <1>1, <1>2
<1>7. MessagesShowOnce'
    BY <1>1, <1>6 DEF MessagesShowOnce
<1> QED
    BY <1>5, <1>7

LEMMA CommitMoved ==
    ASSUME MonitorTypeOK, MessagesMove, MessagesShowOnce, NEW h \in Beat, CommitBeat(h)
    PROVE  MessagesMove' /\ MessagesShowOnce'
<1> DEFINE C == beat[h].carries
<1>1. beat[h].at = "loaded" /\ C \subseteq Message
    BY BeatNumbers DEF CommitBeat
<1>2. /\ beat'[h].at = "answer" /\ beat'[h].carries = C
      /\ \A k \in Beat \ {h} : beat'[k] = beat[k]
    BY BeatNumbers DEF CommitBeat, MonitorTypeOK, BeatState
<1>3. \A m \in Message : message'[m] = IF m \in C THEN "delivered" ELSE message[m]
    BY DEF CommitBeat, Marked
<1>4. /\ ghost'.read = ghost.read /\ ghost'.unread = ghost.unread
      /\ ghost'.twice = ghost.twice \cup {m \in C : message[m] = "delivered"}
    BY Costs DEF CommitBeat
<1>5. \A m \in Message \ C : CarriedBy(m)' = CarriedBy(m)
    BY <1>1, <1>2 DEF CarriedBy
<1>6. \A m \in C : CarriedBy(m)' = CarriedBy(m) \cup {h}
    BY <1>1, <1>2 DEF CarriedBy
<1>7. \A k \in Beat : beat'[k].at = "idle" => beat'[k].carries = {}
    BY <1>2 DEF MessagesMove
<1>8. ASSUME NEW m \in Message, m \notin ghost'.twice
      PROVE  /\ message'[m] # "delivered" => ghost'.read[m] = 0 /\ CarriedBy(m)' = {}
             /\ ghost'.read[m] > 0 => ghost'.read[m] = 1 /\ CarriedBy(m)' = {}
             /\ \A j, k \in CarriedBy(m)' : j = k
    <2>1. m \in Message \ ghost.twice
        BY <1>4, <1>8
    <2>2. CASE m \in C
        <3>1. message[m] # "delivered"
            BY <1>4, <1>8, <2>2
        <3>2. ghost.read[m] = 0 /\ CarriedBy(m) = {}
            BY <2>1, <3>1 DEF MessagesMove
        <3>3. CarriedBy(m)' = {h} /\ ghost'.read[m] = 0 /\ message'[m] = "delivered"
            BY <1>3, <1>4, <1>6, <2>2, <3>2
        <3> QED
            BY <3>3
    <2>3. CASE m \notin C
        BY <1>3, <1>4, <1>5, <2>1, <2>3 DEF MessagesMove
    <2> QED
        BY <2>2, <2>3
<1>9. MessagesMove'
    BY <1>7, <1>8 DEF MessagesMove
<1>10. \A m \in Message : (\E k \in Beat : m \in beat[k].carries)
                            => \E k \in Beat : m \in beat'[k].carries
    BY <1>2
<1>11. \A m \in C : \E k \in Beat : m \in beat'[k].carries
    BY <1>2
<1>12. MessagesShowOnce'
    BY <1>3, <1>4, <1>10, <1>11 DEF MessagesShowOnce
<1> QED
    BY <1>9, <1>12

(* A heartbeat that has ended carries nothing.                             *)
LEMMA AnswerGone ==
    ASSUME MonitorTypeOK, MessagesMove, NEW h \in Beat,
           beat[h].at = "answer", beat' = [beat EXCEPT ![h] = Idle]
    PROVE  /\ \A k \in Beat : beat'[k].at = "idle" => beat'[k].carries = {}
           /\ \A m \in Message : CarriedBy(m)' = CarriedBy(m) \ {h}
           /\ \A m \in Message \ beat[h].carries : h \notin CarriedBy(m)
           /\ \A m \in beat[h].carries : m \in Message /\ h \in CarriedBy(m)
           /\ \A m \in Message \ beat[h].carries :
                 (\E k \in Beat : m \in beat[k].carries) => \E k \in Beat : m \in beat'[k].carries
<1>1. beat'[h].at = "idle" /\ beat'[h].carries = {} /\ \A k \in Beat \ {h} : beat'[k] = beat[k]
    BY BeatNumbers DEF Idle
<1>2. \A k \in Beat : beat'[k].at = "idle" => beat'[k].carries = {}
    BY <1>1 DEF MessagesMove
<1>3. \A m \in Message : CarriedBy(m)' = CarriedBy(m) \ {h}
    BY <1>1 DEF CarriedBy
<1>4. \A m \in beat[h].carries : m \in Message /\ h \in CarriedBy(m)
    BY BeatNumbers DEF CarriedBy
<1>5. \A m \in Message \ beat[h].carries : h \notin CarriedBy(m)
    BY DEF CarriedBy
<1>6. \A m \in Message \ beat[h].carries :
         (\E k \in Beat : m \in beat[k].carries) => \E k \in Beat : m \in beat'[k].carries
    BY <1>1
<1> QED
    BY <1>2, <1>3, <1>4, <1>5, <1>6

LEMMA AnswerMoved ==
    ASSUME MonitorTypeOK, MessagesMove, MessagesShowOnce, NEW h \in Beat, BeatAnswered(h)
    PROVE  MessagesMove' /\ MessagesShowOnce'
<1> DEFINE C == beat[h].carries
<1>1. beat[h].at = "answer" /\ beat' = [beat EXCEPT ![h] = Idle] /\ message' = message
    BY DEF BeatAnswered
<1>2. /\ ghost'.unread = ghost.unread /\ ghost'.twice = ghost.twice
      /\ \A m \in Message : ghost'.read[m] = IF m \in C THEN ghost.read[m] + 1 ELSE ghost.read[m]
    BY Costs DEF BeatAnswered, CountIn
<1>3. \A m \in C : m \in Message /\ h \in CarriedBy(m)
    BY <1>1, AnswerGone
<1>9. \A m \in Message : CarriedBy(m)' = CarriedBy(m) \ {h}
    BY <1>1, AnswerGone
<1>10. \A m \in Message \ C : h \notin CarriedBy(m)
    BY <1>1, AnswerGone
<1>4. \A m \in C \ ghost.twice : ghost.read[m] = 0 /\ CarriedBy(m) = {h} /\ message[m] = "delivered"
    BY <1>3, BeatNumbers DEF MessagesMove
<1>5. ASSUME NEW m \in Message \ ghost.twice
      PROVE  /\ message[m] # "delivered" => ghost'.read[m] = 0 /\ CarriedBy(m)' = {}
             /\ ghost'.read[m] > 0 => ghost'.read[m] = 1 /\ CarriedBy(m)' = {}
             /\ \A j, k \in CarriedBy(m)' : j = k
    <2>1. CASE m \in C
        <3>1. ghost'.read[m] = 1 /\ CarriedBy(m)' = {} /\ message[m] = "delivered"
            BY <1>2, <1>4, <1>9, <2>1
        <3> QED
            BY <3>1
    <2>2. CASE m \notin C
        <3>1. ghost'.read[m] = ghost.read[m] /\ CarriedBy(m)' = CarriedBy(m)
            BY <1>2, <1>9, <1>10, <2>2
        <3> QED
            BY <3>1 DEF MessagesMove
    <2> QED
        BY <2>1, <2>2
<1>6. MessagesMove'
    BY <1>1, <1>2, <1>5, AnswerGone DEF MessagesMove
<1>7. ASSUME NEW m \in Message
      PROVE  /\ message[m] = "delivered" => \/ ghost'.read[m] > 0 \/ ghost'.unread[m] > 0
                                            \/ \E k \in Beat : m \in beat'[k].carries
             /\ ghost'.read[m] > 1 => m \in ghost'.twice
    <2>1. CASE m \in C
        <3>1. ghost'.read[m] = ghost.read[m] + 1 /\ ghost.read[m] \in Nat
            BY <1>2, <2>1, BeatNumbers
        <3>2. m \notin ghost.twice => ghost.read[m] = 0
            BY <1>4, <2>1
        <3> QED
            BY <1>2, <3>1, <3>2
    <2>2. CASE m \notin C
        <3>1. (\E k \in Beat : m \in beat[k].carries) => \E k \in Beat : m \in beat'[k].carries
            BY <1>1, <2>2, AnswerGone
        <3>2. ghost'.read[m] = ghost.read[m]
            BY <1>2, <2>2
        <3> QED
            BY <1>2, <3>1, <3>2 DEF MessagesShowOnce
    <2> QED
        BY <2>1, <2>2
<1>8. MessagesShowOnce'
    BY <1>1, <1>7 DEF MessagesShowOnce
<1> QED
    BY <1>6, <1>8

LEMMA NoAnswerMoved ==
    ASSUME MonitorTypeOK, MessagesMove, MessagesShowOnce, NEW h \in Beat, BeatUnanswered(h)
    PROVE  MessagesMove' /\ MessagesShowOnce'
<1> DEFINE C == beat[h].carries
<1>1. beat[h].at = "answer" /\ beat' = [beat EXCEPT ![h] = Idle] /\ message' = message
    BY DEF BeatUnanswered
<1>2. /\ ghost'.read = ghost.read /\ ghost'.twice = ghost.twice
      /\ ghost'.unread = CountIn(ghost.unread, C)
    BY Costs DEF BeatUnanswered, Failed
<1>3. \A m \in Message : ghost'.unread[m] = IF m \in C THEN ghost.unread[m] + 1 ELSE ghost.unread[m]
    BY <1>2 DEF CountIn
<1>4. ASSUME NEW m \in Message \ ghost.twice
      PROVE  /\ message[m] # "delivered" => ghost.read[m] = 0 /\ CarriedBy(m)' = {}
             /\ ghost.read[m] > 0 => ghost.read[m] = 1 /\ CarriedBy(m)' = {}
             /\ \A j, k \in CarriedBy(m)' : j = k
    <2>2. \A n \in Message : CarriedBy(n)' = CarriedBy(n) \ {h}
        BY <1>1, AnswerGone
    <2>1. CarriedBy(m)' \subseteq CarriedBy(m)
        BY <2>2
    <2> QED
        BY <2>1 DEF MessagesMove
<1>5. MessagesMove'
    BY ZenonT(40), <1>1, <1>2, <1>4, AnswerGone DEF MessagesMove
<1>6. ASSUME NEW m \in Message, message[m] = "delivered"
      PROVE  \/ ghost'.read[m] > 0 \/ ghost'.unread[m] > 0
             \/ \E k \in Beat : m \in beat'[k].carries
    <2>1. CASE m \in C
        <3>1. ghost'.unread[m] = ghost.unread[m] + 1 /\ ghost.unread[m] \in Nat
            BY <1>3, <2>1, BeatNumbers
        <3> QED
            BY <3>1
    <2>2. CASE m \notin C
        <3>1. (\E k \in Beat : m \in beat[k].carries) => \E k \in Beat : m \in beat'[k].carries
            BY <1>1, <2>2, AnswerGone
        <3>2. ghost'.unread[m] = ghost.unread[m]
            BY <1>3, <2>2
        <3> QED
            BY <1>2, <1>6, <3>1, <3>2 DEF MessagesShowOnce
    <2> QED
        BY <2>1, <2>2
<1>7. MessagesShowOnce'
    BY <1>1, <1>2, <1>6 DEF MessagesShowOnce
<1> QED
    BY <1>5, <1>7

(* The other steps move nothing.                                           *)
LEMMA StillSteps ==
    ASSUME MonitorTypeOK,
           \/ \E e \in Event : PageStep(e)
           \/ \E i \in DOMAIN log : RowStep(i) \/ PollBreaks(i)
           \/ \E m \in Message : Write(m)
           \/ Reload \/ EmptyBeat \/ NoConnection \/ Connect \/ Poll \/ Disconnect \/ End
           \/ UNCHANGED monitorVars
    PROVE  /\ \A m \in Message : message'[m] = message[m]
                                 \/ (message[m] # "delivered" /\ message'[m] # "delivered")
           /\ \A h \in Beat : beat'[h].at = beat[h].at /\ beat'[h].carries = beat[h].carries
           /\ ghost'.read = ghost.read /\ ghost'.unread = ghost.unread /\ ghost'.twice = ghost.twice
<1>1. CASE \E e \in Event : PageStep(e)
    BY <1>1, Costs DEF PageStep, Report, File, FileNothing, Answered, Unanswered, Failed
<1>2. CASE \E i \in DOMAIN log : RowStep(i) \/ PollBreaks(i)
    BY <1>2, Costs DEF RowStep, Commit, Abort, PollBreaks, Failed, Broken
<1>3. CASE \E m \in Message : Write(m)
    BY <1>3 DEF Write, MonitorTypeOK
<1>4. CASE Reload
    <2>1. \A h \in Beat : beat'[h] = [beat[h] EXCEPT !.page = beat[h].at = "idle"]
        BY <1>4 DEF Reload
    <2>2. \A h \in Beat : beat'[h].at = beat[h].at /\ beat'[h].carries = beat[h].carries
        <3>1. beat \in [Beat -> BeatState]
            BY DEF MonitorTypeOK
        <3> QED
            BY <2>1, <3>1 DEF BeatState
    <2> QED
        BY <1>4, <2>2, Costs DEF Reload, Broken
<1>5. CASE EmptyBeat \/ NoConnection \/ Connect \/ End \/ UNCHANGED monitorVars
    BY <1>5, Costs DEF EmptyBeat, NoConnection, Connect, End, monitorVars, Failed
<1>6. CASE Poll \/ Disconnect
    BY <1>6, Costs DEF Poll, Disconnect, Broken
<1> QED
    BY <1>1, <1>2, <1>3, <1>4, <1>5, <1>6

LEMMA MessagesStep ==
    ASSUME MonitorTypeOK, MessagesMove, MessagesShowOnce, [MonitorNext]_monitorVars
    PROVE  MessagesMove' /\ MessagesShowOnce'
<1>1. CASE \E h \in Beat : BeatStep(h)
    BY <1>1, LoadMoved, CommitMoved, AnswerMoved, NoAnswerMoved DEF BeatStep
<1>2. CASE \/ \E e \in Event : PageStep(e)
           \/ \E i \in DOMAIN log : RowStep(i) \/ PollBreaks(i)
           \/ \E m \in Message : Write(m)
           \/ Reload \/ EmptyBeat \/ NoConnection \/ Connect \/ Poll \/ Disconnect \/ End
           \/ UNCHANGED monitorVars
    BY <1>2, StillSteps, NothingMoved
<1> QED
    BY <1>1, <1>2 DEF MonitorNext

-----------------------------------------------------------------------------
(* The events and their rows.                                              *)

LEMMA RowNumbers ==
    ASSUME MonitorTypeOK, NEW e \in Event
    PROVE  /\ RowsOf(e) \subseteq DOMAIN log /\ Standing(e) \subseteq RowsOf(e)
           /\ IsFiniteSet(Standing(e)) /\ Cardinality(Standing(e)) \in Nat
           /\ RowsOf(e) # {} => RowOf(e) \in RowsOf(e) /\ \A i \in RowsOf(e) : i <= RowOf(e)
           /\ ghost.resent[e] \in Nat /\ event[e] \in EventState
<1>1. DOMAIN log = 1 .. Len(log) /\ Len(log) \in Nat
    BY LogTyped
<1>2. RowsOf(e) \subseteq DOMAIN log /\ Standing(e) \subseteq RowsOf(e)
    BY DEF RowsOf, Standing
<1>3. IsFiniteSet(Standing(e)) /\ Cardinality(Standing(e)) \in Nat
    <2>1. IsFiniteSet(1 .. Len(log)) /\ Standing(e) \in SUBSET (1 .. Len(log))
        BY <1>1, <1>2, FS_Interval
    <2> QED
        BY <2>1, FS_Subset, FS_CardinalityType
<1>4. RowsOf(e) # {} => Max(RowsOf(e)) \in RowsOf(e) /\ \A i \in RowsOf(e) : i <= Max(RowsOf(e))
    <2>1. RowsOf(e) \subseteq 0 .. Len(log)
        BY <1>1, <1>2
    <2> QED
        BY <1>1, <2>1, Greatest
<1> QED
    BY <1>2, <1>3, <1>4, Costs DEF RowOf, RowsOf, MonitorTypeOK

(* An event whose rows do not change: it may give up what it has not paid  *)
(* for only by being counted as sent again.                                *)
LEMMA SameRows ==
    ASSUME MonitorTypeOK, NEW e \in Event, Paid(e), log' = log,
           ghost'.resent[e] \in Nat, ghost'.resent[e] >= ghost.resent[e],
           OneUnpaid(e) => OneUnpaid(e)' \/ ghost'.resent[e] >= ghost.resent[e] + 1,
           event'[e] = "filed" => event[e] = "filed",
           event'[e] = "done" /\ Running' => \E i \in Kept : log[i].of = e
    PROVE  Paid(e)'
<1>1. Kept' = Kept /\ RowsOf(e)' = RowsOf(e) /\ Standing(e)' = Standing(e)
    BY DEF Kept, RowsOf, Standing
<1>2. Cardinality(Standing(e)) <= ghost'.resent[e] + (IF OneUnpaid(e)' THEN 1 ELSE 0)
    <2>1. Cardinality(Standing(e)) \in Nat /\ ghost.resent[e] \in Nat
        BY RowNumbers
    <2>2. Cardinality(Standing(e)) <= ghost.resent[e] + (IF OneUnpaid(e) THEN 1 ELSE 0)
        BY DEF Paid
    <2> QED
        BY <2>1, <2>2
<1>3. event'[e] = "filed" => RowsOf(e) # {}
    BY DEF Paid
<1> QED
    BY <1>1, <1>2, <1>3 DEF Paid

(* Where an event stands decides what it has not paid for.                 *)
LEMMA SameEvent ==
    ASSUME MonitorTypeOK, NEW e \in Event, Paid(e), log' = log,
           event'[e] = event[e], ghost'.resent[e] = ghost.resent[e], Running' => Running
    PROVE  Paid(e)'
<1>1. OneUnpaid(e)' <=> OneUnpaid(e)
    BY DEF OneUnpaid, RowOf
<1>2. ghost.resent[e] \in Nat
    BY RowNumbers
<1> QED
    BY <1>1, <1>2, SameRows DEF Paid

LEMMA PagePaid ==
    ASSUME MonitorTypeOK, RowsArePaid, NEW e \in Event,
           Report(e) \/ FileNothing(e) \/ Answered(e) \/ Unanswered(e)
    PROVE  RowsArePaid'
<1>1. log' = log /\ attempt' = attempt
    BY DEF Report, FileNothing, Answered, Unanswered
<1>2. \A d \in Event \ {e} : event'[d] = event[d] /\ ghost'.resent[d] = ghost.resent[d]
    <2>1. CASE Unanswered(e)
        <3>1. ghost'.resent = ghost.resent \/ ghost'.resent = [ghost.resent EXCEPT ![e] = @ + 1]
            BY <2>1, Costs DEF Unanswered, Failed
        <3>2. event' = [event EXCEPT ![e] = "queued"]
            BY <2>1 DEF Unanswered
        <3> QED
            BY <3>1, <3>2, Costs DEF MonitorTypeOK
    <2>2. CASE Report(e) \/ FileNothing(e) \/ Answered(e)
        BY <2>2 DEF Report, FileNothing, Answered, MonitorTypeOK
    <2> QED
        BY <2>1, <2>2
<1>3. \A d \in Event \ {e} : Paid(d)'
    BY <1>1, <1>2, SameEvent DEF RowsArePaid, Running
<1>4. Paid(e) /\ event \in [Event -> EventState] /\ ghost.resent[e] \in Nat
    BY RowNumbers DEF RowsArePaid, MonitorTypeOK
<1>5. Paid(e)'
    <2>1. CASE Report(e)
        <3>1. event'[e] = "posted" /\ event[e] \in {"taken", "unseen"} /\ ghost' = ghost
            BY <1>4, <2>1 DEF Report
        <3>2. ~OneUnpaid(e)
            BY <3>1 DEF OneUnpaid
        <3> QED
            BY <1>1, <1>4, <3>1, <3>2, SameRows
    <2>2. CASE FileNothing(e)
        <3>1. event'[e] = "done" /\ event[e] = "posted" /\ ghost' = ghost /\ ~Running'
            BY <1>1, <1>4, <2>2 DEF FileNothing, Running
        <3>2. ~OneUnpaid(e)
            BY <3>1 DEF OneUnpaid
        <3> QED
            BY <1>1, <1>4, <3>1, <3>2, SameRows
    <2>3. CASE Answered(e)
        <3>1. event'[e] = "done" /\ event[e] = "filed" /\ ghost' = ghost /\ log[RowOf(e)].state = "kept"
            BY <1>4, <2>3 DEF Answered
        <3>2. OneUnpaid(e)'
            BY <3>1 DEF OneUnpaid
        <3>3. RowOf(e) \in Kept /\ log[RowOf(e)].of = e
            BY <1>4, <3>1, RowNumbers DEF Paid, RowsOf, Kept
        <3> QED
            BY <1>1, <1>4, <3>1, <3>2, <3>3, SameRows
    <2>4. CASE Unanswered(e)
        <3>1. event'[e] = "queued" /\ event[e] \in {"posted", "filed"}
            BY <1>4, <2>4 DEF Unanswered
        <3>2. \/ ghost'.resent[e] = ghost.resent[e] + 1
              \/ ghost' = ghost /\ event[e] = "filed" /\ log[RowOf(e)].state = "gone"
            BY <2>4, Costs DEF Unanswered, Failed
        <3>3. CASE ghost'.resent[e] = ghost.resent[e] + 1
            BY <1>1, <1>4, <3>1, <3>3, SameRows
        <3>4. CASE ghost' = ghost /\ event[e] = "filed" /\ log[RowOf(e)].state = "gone"
            <4>1. ~OneUnpaid(e)
                BY <3>4 DEF OneUnpaid
            <4> QED
                BY <1>1, <1>4, <3>1, <3>4, <4>1, SameRows
        <3> QED
            BY <3>2, <3>3, <3>4
    <2> QED
        BY <2>1, <2>2, <2>3, <2>4
<1> QED
    BY <1>3, <1>5 DEF RowsArePaid

LEMMA FilePaid ==
    ASSUME MonitorTypeOK, RowsArePaid, NEW e \in Event, File(e)
    PROVE  RowsArePaid'
<1> DEFINE n == Len(log) + 1
<1>1. /\ event[e] = "posted" /\ event'[e] = "filed" /\ \A d \in Event \ {e} : event'[d] = event[d]
      /\ attempt' = attempt /\ ghost'.resent = ghost.resent
    BY Costs DEF File, MonitorTypeOK
<1>2. /\ DOMAIN log = 1 .. Len(log) /\ Len(log) \in Nat /\ DOMAIN log' = 1 .. n
      /\ \A j \in DOMAIN log : log'[j] = log[j]
      /\ log'[n].of = e /\ log'[n].state = "open"
    BY LogTyped, RowAppended DEF File
<1>3. DOMAIN log' = DOMAIN log \cup {n} /\ n \notin DOMAIN log
    BY <1>2
<1>4. Kept' = Kept /\ \A i \in Kept : log'[i] = log[i]
    BY <1>2, <1>3 DEF Kept
<1>5. ASSUME NEW d \in Event \ {e}
      PROVE  Paid(d)'
    <2>1. RowsOf(d)' = RowsOf(d)
        BY <1>2, <1>3 DEF RowsOf
    <2>2. Standing(d)' = Standing(d)
        BY <1>2, <2>1 DEF Standing, RowsOf
    <2>3. RowOf(d)' = RowOf(d)
        BY <2>1 DEF RowOf, RowsOf
    <2>4. Paid(d)
        BY DEF RowsArePaid
    <2>5. OneUnpaid(d)' <=> OneUnpaid(d)
        <3>1. event[d] = "filed" => RowOf(d) \in DOMAIN log
            BY <2>4, RowNumbers DEF Paid
        <3> QED
            BY <1>1, <1>2, <2>3, <3>1 DEF OneUnpaid
    <2>6. event'[d] = "done" /\ Running' => \E i \in Kept' : log'[i].of = d
        BY <1>1, <1>4, <2>4 DEF Paid, Running
    <2> QED
        BY <1>1, <2>1, <2>2, <2>4, <2>5, <2>6 DEF Paid
<1>6. Paid(e)'
    <2>1. RowsOf(e)' = RowsOf(e) \cup {n}
        BY <1>2, <1>3 DEF RowsOf
    <2>2. Standing(e)' = Standing(e) \cup {n} /\ n \notin Standing(e)
        BY <1>2, <1>3, <2>1 DEF Standing, RowsOf
    <2>3. Cardinality(Standing(e)') = Cardinality(Standing(e)) + 1
        BY <2>2, RowNumbers, FS_AddElement
    <2>4. RowOf(e)' = n
        <3>1. n \in Nat /\ RowsOf(e)' \subseteq 0 .. n /\ n \in RowsOf(e)'
            BY <1>2, <2>1 DEF RowsOf
        <3>2. Max(RowsOf(e)') \in RowsOf(e)' /\ n <= Max(RowsOf(e)')
            BY <3>1, Greatest
        <3>3. Max(RowsOf(e)') = n
            BY <3>1, <3>2
        <3> QED
            BY <3>3 DEF RowOf, RowsOf
    <2>5. OneUnpaid(e)' /\ ~OneUnpaid(e)
        BY <1>1, <1>2, <2>4 DEF OneUnpaid
    <2>6. Cardinality(Standing(e)) <= ghost.resent[e]
        BY <2>5, RowNumbers DEF RowsArePaid, Paid
    <2>7. Cardinality(Standing(e)') <= ghost'.resent[e] + 1
        BY <1>1, <2>3, <2>6, RowNumbers
    <2> QED
        BY <1>1, <2>1, <2>5, <2>7 DEF Paid
<1> QED
    BY <1>5, <1>6 DEF RowsArePaid

LEMMA RowPaid ==
    ASSUME MonitorTypeOK, RowsArePaid, NEW i \in DOMAIN log, RowStep(i)
    PROVE  RowsArePaid'
<1>1. /\ UNCHANGED <<attempt, event, online, message, beat, stream>>
      /\ log[i].state = "open" /\ ghost'.resent = ghost.resent
    BY Costs DEF RowStep, Commit, Abort, Failed
<1>2. /\ DOMAIN log' = DOMAIN log
      /\ \A j \in DOMAIN log : log'[j].of = log[j].of
      /\ \A j \in DOMAIN log : j # i => log'[j].state = log[j].state
      /\ log'[i].state = IF Commit(i) THEN "kept" ELSE "gone"
    <2>1. CASE Commit(i)
        BY <2>1, StateWritten DEF Commit
    <2>2. CASE Abort(i) /\ ~Commit(i)
        BY <2>2, StateWritten DEF Abort
    <2> QED
        BY <2>1, <2>2 DEF RowStep
<1>3. Kept \subseteq Kept'
    BY <1>1, <1>2 DEF Kept
<1> SUFFICES ASSUME NEW e \in Event
             PROVE  Paid(e)'
    BY DEF RowsArePaid
<1>4. Paid(e)
    BY DEF RowsArePaid
<1>5. RowsOf(e)' = RowsOf(e) /\ RowOf(e)' = RowOf(e)
    <2>1. RowsOf(e)' = RowsOf(e)
        BY <1>2 DEF RowsOf
    <2> QED
        BY <2>1 DEF RowOf, RowsOf
<1>6. event[e] = "filed" => RowOf(e) \in RowsOf(e)
    BY <1>4, RowNumbers DEF Paid
<1>7. event'[e] = "done" /\ Running' => \E j \in Kept' : log'[j].of = e
    <2>1. ASSUME NEW j \in Kept, log[j].of = e
          PROVE  \E k \in Kept' : log'[k].of = e
        <3>1. j \in Kept' /\ log'[j].of = e
            BY <1>2, <1>3, <2>1 DEF Kept
        <3> QED
            BY <3>1
    <2> QED
        BY <1>1, <1>4, <2>1 DEF Paid, Running
<1>8. CASE ~(Abort(i) /\ ~Commit(i) /\ i \in RowsOf(e))
    <2>1. \A j \in RowsOf(e) : log'[j].state = "gone" <=> log[j].state = "gone"
        BY <1>1, <1>2, <1>8 DEF RowStep, RowsOf
    <2>2. Standing(e)' = Standing(e)
        BY <1>5, <2>1 DEF Standing
    <2>3. OneUnpaid(e)' <=> OneUnpaid(e)
        BY <1>1, <1>5, <1>6, <2>1 DEF OneUnpaid
    <2> QED
        BY <1>1, <1>4, <1>5, <1>7, <2>2, <2>3 DEF Paid
<1>9. CASE Abort(i) /\ ~Commit(i) /\ i \in RowsOf(e)
    <2>1. Standing(e)' = Standing(e) \ {i} /\ i \in Standing(e)
        BY <1>1, <1>2, <1>5, <1>9 DEF Standing, RowsOf
    <2>2. Cardinality(Standing(e)') = Cardinality(Standing(e)) - 1
        BY <2>1, RowNumbers, FS_RemoveElement
    <2>3. Cardinality(Standing(e)') <= ghost'.resent[e]
        BY <1>1, <1>4, <2>2, RowNumbers DEF Paid
    <2>4. ghost'.resent[e] \in Nat /\ Cardinality(Standing(e)') \in Int
        BY <1>1, <2>2, RowNumbers
    <2>5. Cardinality(Standing(e)') <= ghost'.resent[e] + (IF OneUnpaid(e)' THEN 1 ELSE 0)
        BY <2>3, <2>4
    <2> QED
        BY <1>1, <1>4, <1>5, <1>7, <2>5 DEF Paid
<1> QED
    BY <1>8, <1>9

(* A page that goes away, or is connected again.                           *)
LEMMA QueuePaid ==
    ASSUME MonitorTypeOK, RowsArePaid, Reload \/ EmptyBeat \/ \E h \in Beat : BeatStep(h)
    PROVE  RowsArePaid'
<1>1. log' = log /\ attempt' = attempt
    BY DEF Reload, EmptyBeat, BeatStep, LoadBeat, CommitBeat, BeatAnswered, BeatUnanswered
<1>2. ghost'.resent = ghost.resent
    <2>1. CASE Reload \/ EmptyBeat
        BY <2>1, Costs DEF Reload, EmptyBeat, Broken
    <2>2. CASE \E h \in Beat : BeatStep(h)
        BY <2>2, Costs DEF BeatStep, LoadBeat, CommitBeat, BeatAnswered, BeatUnanswered, Failed
    <2> QED
        BY <2>1, <2>2
<1>3. \A e \in Event : \/ event'[e] = event[e]
                       \/ event[e] = "queued" /\ event'[e] = "taken"
                       \/ event'[e] = "lost"
    <2>1. CASE Reload
        BY <2>1 DEF Reload
    <2>2. CASE BackOnline \/ event' = event
        BY <2>2, Flushing
    <2> QED
        BY <2>1, <2>2 DEF EmptyBeat, BeatStep, LoadBeat, CommitBeat, BeatAnswered, BeatUnanswered
<1> SUFFICES ASSUME NEW e \in Event
             PROVE  Paid(e)'
    BY DEF RowsArePaid
<1>4. Paid(e) /\ ghost.resent[e] \in Nat
    BY RowNumbers DEF RowsArePaid
<1>5. CASE event'[e] = event[e]
    BY <1>1, <1>2, <1>4, <1>5, SameEvent DEF Running
<1>6. CASE event[e] = "queued" /\ event'[e] = "taken"
    <2>1. ~OneUnpaid(e)
        BY <1>6 DEF OneUnpaid
    <2> QED
        BY <1>1, <1>2, <1>4, <1>6, <2>1, SameRows
<1>7. CASE event'[e] = "lost"
    <2>1. OneUnpaid(e)'
        BY <1>7 DEF OneUnpaid
    <2> QED
        BY <1>1, <1>2, <1>4, <1>7, <2>1, SameRows
<1> QED
    BY <1>3, <1>5, <1>6, <1>7

LEMMA PaidStep ==
    ASSUME MonitorTypeOK, RowsArePaid, [MonitorNext]_monitorVars
    PROVE  RowsArePaid'
<1>1. CASE \E e \in Event : PageStep(e)
    BY <1>1, PagePaid, FilePaid DEF PageStep
<1>2. CASE \E i \in DOMAIN log : RowStep(i)
    BY <1>2, RowPaid
<1>3. CASE Reload \/ EmptyBeat \/ \E h \in Beat : BeatStep(h)
    BY <1>3, QueuePaid
<1>4. CASE \/ \E i \in DOMAIN log : PollBreaks(i)
           \/ \E m \in Message : Write(m)
           \/ NoConnection \/ Connect \/ Poll \/ Disconnect \/ End \/ UNCHANGED monitorVars
    <2>1. /\ log' = log /\ event' = event /\ ghost'.resent = ghost.resent
          /\ attempt' = attempt \/ attempt' = "ended"
        BY <1>4, Costs DEF PollBreaks, Write, NoConnection, Connect, Poll, Disconnect, End,
                           monitorVars, Failed, Broken
    <2>2. \A e \in Event : Paid(e)'
        BY <2>1, SameEvent DEF RowsArePaid, Running
    <2> QED
        BY <2>2 DEF RowsArePaid
<1> QED
    BY <1>1, <1>2, <1>3, <1>4 DEF MonitorNext

-----------------------------------------------------------------------------
(* The inductive invariant of Monitor.                                     *)
THEOREM MonitorInvariance == MonitorSpec => []MonitorIInv
<1>1. MonitorInit => MonitorIInv
    <2> SUFFICES ASSUME MonitorInit
                 PROVE  MonitorIInv
        OBVIOUS
    <2>1. MonitorTypeOK
        <3>1. <<>> \in Seq(Row) /\ <<>> \in Seq(Nat)
            BY EmptySeq
        <3> QED
            BY <3>1, BoundAssumption DEF MonitorInit, MonitorTypeOK, EventState, Idle, BeatState
    <2>2. log = <<>> /\ ghost.shown = <<>> /\ DOMAIN log = {} /\ Len(log) = 0 /\ Len(ghost.shown) = 0
        BY DEF MonitorInit
    <2>3. Kept = {} /\ Shown = {} /\ stream.last = 0 /\ ~stream.open
        BY <2>2 DEF Kept, Shown, MonitorInit
    <2>4. StreamFollows /\ AlertsResume
        BY <2>2, <2>3 DEF StreamFollows, AlertsResume
    <2>5. MessagesMove /\ MessagesShowOnce
        BY DEF MonitorInit, MessagesMove, CarriedBy, Idle, MessagesShowOnce
    <2>6. ASSUME NEW e \in Event
          PROVE  Paid(e)
        <3>1. event[e] = "unseen" /\ ghost.resent[e] = 0
            BY DEF MonitorInit
        <3>2. Standing(e) = {} /\ Cardinality({}) = 0
            BY <2>2, FS_EmptySet DEF Standing, RowsOf
        <3> QED
            BY <3>1, <3>2 DEF Paid
    <2> QED
        BY <2>1, <2>4, <2>5, <2>6 DEF MonitorIInv, RowsArePaid
<1>2. MonitorIInv /\ [MonitorNext]_monitorVars => MonitorIInv'
    BY MonitorTypes, StreamStep, MessagesStep, PaidStep DEF MonitorIInv
<1> QED
    BY <1>1, <1>2, PTL DEF MonitorSpec

(* No alert is pushed twice, and none is passed over by a stream that goes *)
(* on from where it was.                                                   *)
THEOREM Alerting == MonitorSpec => []AlertsResume
<1>1. MonitorIInv => AlertsResume
    BY DEF MonitorIInv
<1> QED
    BY <1>1, MonitorInvariance, PTL

(* A message is shown, or lost with an answer; and once, unless two        *)
(* heartbeats had loaded it.                                               *)
THEOREM Messaging == MonitorSpec => []MessagesShowOnce
<1>1. MonitorIInv => MessagesShowOnce
    BY DEF MonitorIInv
<1> QED
    BY <1>1, MonitorInvariance, PTL

(* An event has one row more than it was sent again, at most, and one at   *)
(* least once the page has its answer.                                     *)
THEOREM Counting == MonitorSpec => []EventsCountedOnce
<1>1. MonitorIInv => EventsCountedOnce
    <2> SUFFICES ASSUME MonitorIInv, NEW e \in Event
                 PROVE  LET kept == Cardinality({i \in Kept : log[i].of = e}) IN
                        /\ kept <= 1 + ghost.resent[e]
                        /\ event[e] = "done" /\ Running => kept >= 1
        BY DEF EventsCountedOnce
    <2> DEFINE K == {i \in Kept : log[i].of = e}
    <2>1. MonitorTypeOK /\ Paid(e)
        BY DEF MonitorIInv, RowsArePaid
    <2>2. K \in SUBSET Standing(e)
        BY DEF Kept, Standing, RowsOf
    <2>3. IsFiniteSet(Standing(e)) /\ Cardinality(Standing(e)) \in Nat /\ ghost.resent[e] \in Nat
        BY <2>1, RowNumbers
    <2>4. IsFiniteSet(K) /\ Cardinality(K) \in Nat /\ Cardinality(K) <= Cardinality(Standing(e))
        BY <2>2, <2>3, FS_Subset, FS_CardinalityType
    <2>5. Cardinality(Standing(e)) <= ghost.resent[e] + 1
        BY <2>1, <2>3 DEF Paid
    <2>6. event[e] = "done" /\ Running => Cardinality(K) # 0
        BY <2>1, <2>4, FS_EmptySet DEF Paid
    <2> HIDE DEF K
    <2>7. Cardinality(K) <= 1 + ghost.resent[e] /\ (event[e] = "done" /\ Running => Cardinality(K) >= 1)
        BY <2>3, <2>4, <2>5, <2>6
    <2> QED
        BY <2>7 DEF K
<1> QED
    BY <1>1, MonitorInvariance, PTL

============================================================================
