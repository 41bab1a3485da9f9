------------------------------- MODULE Upload -------------------------------
(***************************************************************************)
(* Uploading files: the page (FileServer/source/upload.html) posts the     *)
(* file's information and then its chunks, one request at a time; the io   *)
(* loop of the connection writes each chunk and hands its data to a        *)
(* calculation loop, which digests the chunks as they come and judges the  *)
(* file when it is complete; the io loop records it in the database.       *)
(* (FileServer/file-server.cpp, FileServer/file-info.cpp)  The other       *)
(* requests, and the whole server, are in FileServer.                      *)
(*                                                                         *)
(* Each loop runs one thing at a time, its functors in order (module       *)
(* EventLoop).  A chunk's content is its index: a digest is right when it  *)
(* was fed every chunk in order.  A file's name stands for its content     *)
(* too, and a page for its user.                                           *)
(***************************************************************************)
EXTENDS Naturals, Sequences, FiniteSets

CONSTANTS
  Clients,      (* The pages, each with its connection.                    *)
  IoLoops, CalcLoops,
  Home,         (* The io loop of each connection.                         *)
  Names,        (* The files' names.                                       *)
  Bytes,        (* Their sizes,                                            *)
  Size,         (* and their sizes in chunks.                              *)
  Disk,         (* The files each user has, and may upload.                *)
  ChunkBytes,   (* The size of a chunk: 8 MiB.                             *)
  Word,         (* The sum of the sizes of the chunks is modulo this: 2^32.*)
  Actions,      (* Bound: what the user of each page starts.               *)
  WritesFail,   (* Whether pwrite may write less than a chunk.             *)
  HangUps,      (* Whether connections may go down.                        *)
  None

ASSUME UploadAssumption ==
  /\ IsFiniteSet(Names)
  /\ Home \in [Clients -> IoLoops]
  /\ Size \in [Names -> Nat]
  /\ Disk \in [Clients -> SUBSET Names]
  /\ Actions \in [Clients -> Nat]
  /\ {WritesFail, HangUps} \subseteq BOOLEAN
  /\ None \notin Names \cup CalcLoops \cup Clients

ASSUME SizeAssumption ==
  /\ Bytes \in [Names -> Nat] /\ ChunkBytes \in Nat \ {0} /\ Word \in Nat \ {0}
  /\ \A n \in Names : Size[n] = (Bytes[n] + ChunkBytes - 1) \div ChunkBytes

VARIABLES
  page,       (* What each page is doing, with which file and chunks left. *)
  left,       (* How much more the user of each page will start.           *)
  request,    (* The request on its way to the server, or None.            *)
  reply,      (* The replies on their way to the page.                     *)
  up,         (* Whether the connection is up, as its io loop knows.       *)
  files,      (* The FileInfo objects each connection made.                *)
  memo,       (* fileInfoMemo: the object per connection and name, or 0.   *)
  writing,    (* Per io loop: the write of a chunk it is in, or None.      *)
  ioQueue,    (* The functors of the io loops,                             *)
  calcQueue,  (* and of the calculation loops.                             *)
  database,   (* The rows of Files.                                        *)
  lost,       (* History: the uploads whose row could not be inserted.     *)
  told        (* History: the uploads the page reported as successful.     *)

pageVars == <<page, left, request, told>>
fileVars == <<files, memo, writing>>
databaseVars == <<database, lost>>
uploadVars == <<pageVars, reply, up, fileVars, ioQueue, calcQueue, databaseVars>>

Chunks(name) == 0..(Size[name] - 1)

Idle == [doing |-> "idle", name |-> None, left |-> {}]

(* An answer, or a part of one: the names are those of a list of files, or *)
(* the chunk of a download.                                                *)
Answer(status, content) == [status |-> status, content |-> content]

UploadInit ==
  /\ page = [c \in Clients |-> Idle]
  /\ left = Actions
  /\ request = [c \in Clients |-> None]
  /\ reply = [c \in Clients |-> <<>>]
  /\ up = [c \in Clients |-> TRUE]
  /\ files = [c \in Clients |-> <<>>]
  /\ memo = [c \in Clients |-> [n \in Names |-> 0]]
  /\ writing = [l \in IoLoops |-> None]
  /\ ioQueue = [l \in IoLoops |-> <<>>]
  /\ calcQueue = [l \in CalcLoops |-> <<>>]
  /\ database = {}
  /\ lost = {}
  /\ told = {}

-----------------------------------------------------------------------------
(* The page.                                                               *)
SendFileInfo(c, name) ==
  /\ page[c].doing = "idle" /\ left[c] > 0
  /\ left' = [left EXCEPT ![c] = @ - 1]
  /\ page' = [page EXCEPT ![c] = [doing |-> "info", name |-> name, left |-> Chunks(name)]]
  /\ request' = [request EXCEPT ![c] = [post |-> "info", name |-> name]]
  /\ UNCHANGED <<told, reply, up, fileVars, ioQueue, calcQueue, databaseVars>>

(* uploadNextChunk, when chunks are left.                                  *)
SendChunk(c, i) ==
  /\ page[c].doing = "ready"
  /\ i \in page[c].left
  /\ \A j \in page[c].left : i <= j
  /\ page' = [page EXCEPT ![c].doing = "chunk", ![c].left = @ \ {i}]
  /\ request' = [request EXCEPT ![c] = [post |-> "chunk", name |-> page[c].name, chunk |-> i]]
  /\ UNCHANGED <<left, told, reply, up, fileVars, ioQueue, calcQueue, databaseVars>>

(* uploadNextChunk, when none is: "the file has been uploaded", and the    *)
(* list of files is fetched.                                               *)
Succeed(c) ==
  /\ page[c].doing = "ready" /\ page[c].left = {}
  /\ told' = told \cup {<<c, page[c].name>>}
  /\ page' = [page EXCEPT ![c] = [Idle EXCEPT !.doing = "list"]]
  /\ request' = [request EXCEPT ![c] = [post |-> "list"]]
  /\ UNCHANGED <<left, reply, up, fileVars, ioQueue, calcQueue, databaseVars>>

(* onload: goes on after a 200, gives up after anything else.              *)
Receive(c) ==
  /\ page[c].doing \in {"info", "chunk"} /\ reply[c] # <<>>
  /\ page' = [page EXCEPT ![c] =
       IF Head(reply[c]).status = "ok" THEN [@ EXCEPT !.doing = "ready"] ELSE Idle]
  /\ reply' = [reply EXCEPT ![c] = Tail(@)]
  /\ UNCHANGED <<left, request, told, up, fileVars, ioQueue, calcQueue, databaseVars>>

-----------------------------------------------------------------------------
(* The io loops.                                                           *)
Free(l) == writing[l] = None

NewFile(name) ==
  [name |-> name, mode |-> "write", status |-> "uploading", present |-> {}, full |-> {},
   calcIndex |-> 0, digest |-> <<>>, owner |-> None, verdict |-> "none"]

(* A request that has arrived, on a loop that can handle it.               *)
Arrived(c, post) ==
  Free(Home[c]) /\ up[c] /\ request[c] # None /\ request[c].post = post

Answered(c, answers) ==
  /\ request' = [request EXCEPT ![c] = None]
  /\ reply' = [reply EXCEPT ![c] = @ \o answers]

(* FileServer::waitFileInfo                                                *)
WaitFileInfo(c) ==
  /\ Arrived(c, "info")
  /\ files' = [files EXCEPT ![c] = Append(@, NewFile(request[c].name))]
  /\ memo' = [memo EXCEPT ![c][request[c].name] = Len(files[c]) + 1]
  /\ Answered(c, <<Answer("ok", {})>>)
  /\ UNCHANGED <<page, left, told, up, writing, ioQueue, calcQueue, databaseVars>>

Post(c) == request[c] # None /\ request[c].post = "chunk"

(* FileServer::upload finds the file, and it takes chunks.  (Otherwise the *)
(* reply would be 400: see ChunkIsExpected.)                               *)
Expected(c) ==
  LET k == memo[c][request[c].name]
  IN  k # 0 /\ files[c][k].status = "uploading"

(* FileServer::upload up to FileInfo::write, which is between the write to *)
(* the disk and the insertion in _chunkSize.                               *)
StartWrite(c) ==
  /\ Arrived(c, "chunk") /\ Expected(c)
  /\ \E short \in IF WritesFail THEN BOOLEAN ELSE {FALSE} :
       writing' = [writing EXCEPT ![Home[c]] =
         [client |-> c, file |-> memo[c][request[c].name],
          chunk |-> request[c].chunk, short |-> short]]
  /\ request' = [request EXCEPT ![c] = None]
  /\ UNCHANGED <<page, left, told, reply, up, files, memo, ioQueue, calcQueue, databaseVars>>

(* A short write leaves its size in _chunkSize too, and is refused.        *)
FailWrite(l) ==
  /\ ~Free(l) /\ writing[l].short
  /\ LET w == writing[l] IN
       /\ files' = [files EXCEPT ![w.client][w.file].present = @ \cup {w.chunk}]
       /\ reply' = [reply EXCEPT ![w.client] = Append(@, Answer("bad", {}))]
  /\ writing' = [writing EXCEPT ![l] = None]
  /\ UNCHANGED <<pageVars, up, memo, ioQueue, calcQueue, databaseVars>>

(* FileInfo::isCompleted: as many chunks as the file has, and the sum of   *)
(* their sizes, in 32 bits, is the file's size, in 64.  Whole chunks add   *)
(* up to the file; short ones to less, which is never its size.  (The sum  *)
(* passes the largest int on its way: the additions of the build wrap.)    *)
Summed(n) == Bytes[n] % Word

IsCompleted(f) == f.full = Chunks(f.name) /\ Summed(f.name) = Bytes[f.name]

(* What upload pushes to the calculation loop.                             *)
Pushed(f, update, judge) == IF IsCompleted(f) THEN <<update, judge>> ELSE <<update>>

(* fileInfoMemo drops the complete file.                                   *)
Remembered(c, f) == IF IsCompleted(f) THEN [memo EXCEPT ![c][f.name] = 0] ELSE memo

(* Mutant of Replied: the last chunk is answered here too.                 *)
RepliedAlways(c, f) == [reply EXCEPT ![c] = Append(@, Answer("ok", {}))]

Replied(c, f) == IF IsCompleted(f) THEN reply ELSE [reply EXCEPT ![c] = Append(@, Answer("ok", {}))]

(* The rest of FileServer::upload; the last chunk is answered later.       *)
FinishWrite(l) ==
  /\ ~Free(l) /\ ~writing[l].short
  /\ LET w == writing[l]
         c == w.client
         f == files[c][w.file]
     IN  \E owner \in IF f.owner = None THEN CalcLoops ELSE {f.owner} :
           LET g == [f EXCEPT !.present = @ \cup {w.chunk}, !.full = @ \cup {w.chunk},
                                   !.owner = owner]
           IN  /\ files' = [files EXCEPT ![c][w.file] = g]
               /\ calcQueue' = [calcQueue EXCEPT ![owner] = @ \o Pushed(g,
                    [fn |-> "update", client |-> c, file |-> w.file, chunk |-> w.chunk],
                    [fn |-> "judge", client |-> c, file |-> w.file])]
               /\ memo' = Remembered(c, g)
               /\ reply' = Replied(c, g)
  /\ writing' = [writing EXCEPT ![l] = None]
  /\ UNCHANGED <<pageVars, up, ioQueue, databaseVars>>

(* FileServer::onConnectionStateChanged, after the connection went down.   *)
(* The page's request in progress fails (onerror).                         *)
GoDown(c) ==
  /\ HangUps /\ Free(Home[c]) /\ up[c]
  /\ up' = [up EXCEPT ![c] = FALSE]
  /\ memo' = [memo EXCEPT ![c] = [n \in Names |-> 0]]
  /\ request' = [request EXCEPT ![c] = None]
  /\ reply' = [reply EXCEPT ![c] = <<>>]
  /\ page' = [page EXCEPT ![c] = [Idle EXCEPT !.doing = "closed"]]
  /\ UNCHANGED <<left, told, files, writing, ioQueue, calcQueue, databaseVars>>

(* FileServer::updateDataBase: no row when the connection is gone, no      *)
(* handle can be had or the insertion fails.                               *)
UpdateDataBase(f) ==
  LET c == f.client
      row == <<c, files[c][f.file].name>>
  IN  \E handle, inserted \in BOOLEAN :
        /\ files' = IF up[c] /\ handle THEN [files EXCEPT ![c][f.file].status = "completed"]
                                       ELSE files
        /\ IF up[c] /\ handle /\ inserted
           THEN database' = database \cup {row} /\ UNCHANGED lost
           ELSE lost' = lost \cup {row} /\ UNCHANGED database

RunIoFunctor(l) ==
  /\ Free(l) /\ ioQueue[l] # <<>>
  /\ LET f == Head(ioQueue[l])
     IN  \/ f.fn = "updateDataBase" /\ UpdateDataBase(f) /\ UNCHANGED reply
         \/ /\ f.fn = "send"
            /\ reply' = IF up[f.client] THEN [reply EXCEPT ![f.client] = Append(@, Answer(f.status, {}))] ELSE reply
            /\ UNCHANGED <<databaseVars, files>>
  /\ ioQueue' = [ioQueue EXCEPT ![l] = Tail(@)]
  /\ UNCHANGED <<pageVars, up, memo, writing, calcQueue>>

-----------------------------------------------------------------------------
(* The calculation loops.                                                  *)
BeingWritten(c, k) ==
  \E l \in IoLoops : writing[l] # None /\ writing[l].client = c /\ writing[l].file = k

(* Mutant of Update: _calcIndex is left alone.                             *)
UpdateUncounted(c, k, chunk) ==
  LET f == files[c][k]
  IN  \E counted \in IF BeingWritten(c, k) THEN BOOLEAN ELSE {f.calcIndex \in f.present} :
        files' = IF counted
                 THEN [files EXCEPT ![c][k].digest = Append(@, chunk)]
                 ELSE files

(* FileInfo::update looks into _chunkSize without a lock: while the io     *)
(* loop inserts into it the lookup may find the chunk or not.              *)
Update(c, k, chunk) ==
  LET f == files[c][k]
  IN  \E counted \in IF BeingWritten(c, k) THEN BOOLEAN ELSE {f.calcIndex \in f.present} :
        files' = IF counted
                 THEN [files EXCEPT ![c][k].calcIndex = @ + 1, ![c][k].digest = Append(@, chunk)]
                 ELSE files

(* FileInfo::verify                                                        *)
Verify(f) == f.digest = [i \in 1..Size[f.name] |-> i - 1]

(* Mutants of Replies: the reply overtakes the row; a rejection is not     *)
(* sent.                                                                   *)
RepliesFirst(ok, c, k) ==
  (IF up[c] THEN <<[fn |-> "send", client |-> c, status |-> IF ok THEN "ok" ELSE "bad"]>> ELSE <<>>)
    \o (IF ok THEN <<[fn |-> "updateDataBase", client |-> c, file |-> k]>> ELSE <<>>)

RepliesAccepted(ok, c, k) ==
  (IF ok THEN <<[fn |-> "updateDataBase", client |-> c, file |-> k]>> ELSE <<>>)
    \o (IF up[c] /\ ok THEN <<[fn |-> "send", client |-> c, status |-> "ok"]>> ELSE <<>>)

(* What judgeFileMD5 leaves to the io loop; send() does nothing when the   *)
(* connection is down.                                                     *)
Replies(ok, c, k) ==
  (IF ok THEN <<[fn |-> "updateDataBase", client |-> c, file |-> k]>> ELSE <<>>)
    \o (IF up[c] THEN <<[fn |-> "send", client |-> c, status |-> IF ok THEN "ok" ELSE "bad"]>> ELSE <<>>)

JudgeFileMD5(c, k) ==
  LET ok == Verify(files[c][k])
  IN  /\ files' = [files EXCEPT ![c][k].verdict = IF ok THEN "accepted" ELSE "rejected"]
      /\ ioQueue' = [ioQueue EXCEPT ![Home[c]] = @ \o Replies(ok, c, k)]

RunCalcFunctor(l) ==
  /\ calcQueue[l] # <<>>
  /\ LET f == Head(calcQueue[l])
     IN  \/ f.fn = "update" /\ Update(f.client, f.file, f.chunk) /\ UNCHANGED ioQueue
         \/ f.fn = "judge" /\ JudgeFileMD5(f.client, f.file)
  /\ calcQueue' = [calcQueue EXCEPT ![l] = Tail(@)]
  /\ UNCHANGED <<pageVars, reply, up, memo, writing, databaseVars>>

-----------------------------------------------------------------------------
UploadPageStep(c) == Receive(c) \/ Succeed(c) \/ \E i \in page[c].left : SendChunk(c, i)

UploadIoStep(l) ==
  \/ FailWrite(l) \/ FinishWrite(l) \/ RunIoFunctor(l)
  \/ \E c \in Clients : Home[c] = l /\ (WaitFileInfo(c) \/ StartWrite(c))
-----------------------------------------------------------------------------
Files ==
  [name : Names, mode : {"write", "read"}, status : {"waiting", "uploading", "completed"},
   present : SUBSET Nat, full : SUBSET Nat, calcIndex : Nat, digest : Seq(Nat),
   owner : CalcLoops \cup {None}, verdict : {"none", "accepted", "rejected"}]

UploadTypeOK ==
  /\ \A c \in Clients : \A k \in 1..Len(files[c]) :
       /\ files[c][k] \in Files
       /\ files[c][k].full \subseteq Chunks(files[c][k].name)
       /\ Len(files[c][k].digest) = files[c][k].calcIndex
       /\ files[c][k].calcIndex <= Size[files[c][k].name]
  /\ memo \in [Clients -> [Names -> Nat]]
  /\ \A c \in Clients, n \in Names : memo[c][n] \in 0..Len(files[c])
  /\ database \cup lost \cup told \subseteq Clients \X Names

(***************************************************************************)
(* A chunk the page posts finds the object its file information made, so   *)
(* that upload never looks into a map that is not there: objects are       *)
(* dropped neither early nor for another upload (file-server.cpp:178-185,  *)
(* 207-209).                                                               *)
(***************************************************************************)
ChunkIsExpected == \A c \in Clients : Post(c) => Expected(c)

(***************************************************************************)
(* What is accepted is the whole file: every chunk on the disk, digested   *)
(* once and in order, although writing and digesting are done by different *)
(* threads (file-server.cpp:198-212, file-info.cpp:101-126).               *)
(***************************************************************************)
AcceptedIsWhole ==
  \A c \in Clients : \A k \in 1..Len(files[c]) :
    files[c][k].verdict = "accepted" =>
      /\ files[c][k].full = Chunks(files[c][k].name)
      /\ files[c][k].digest = [i \in 1..Size[files[c][k].name] |-> i - 1]

(***************************************************************************)
(* "The file has been uploaded! ... after the upload has succeeded, update *)
(* the list of files" (upload.html:116-117): the row the list is made from *)
(* is there when the page says so, unless no database connection could be  *)
(* had or the insertion failed.  The reply and the row come by the same io *)
(* loop, in this order (file-server.cpp:379-383).  This holds of the files *)
(* a row can be made for: an empty file has no last chunk, and one of 2^32 *)
(* bytes or more is never complete.                                        *)
(***************************************************************************)
Storable(n) == Size[n] # 0 /\ Bytes[n] < Word

ToldIsRecorded == \A upload \in told : Storable(upload[2]) => upload \in database \cup lost

(***************************************************************************)
(* What upload.html:116-117 says of every file.  It is not so: a file of   *)
(* 2^32 bytes or more gets a plain 200 for its last chunk                  *)
(* (file-info.cpp:101-109, file-server.cpp:207-217), and the page posts no *)
(* chunk of an empty one (upload.html:106, 115).                           *)
(***************************************************************************)
SuccessIsRecorded == told \subseteq database \cup lost
=============================================================================
