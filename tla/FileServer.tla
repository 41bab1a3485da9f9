----------------------------- MODULE FileServer -----------------------------
(***************************************************************************)
(* The file server (FileServer/file-server.cpp) and its pages: logging in, *)
(* the list of files, uploads (module Upload) and downloads, which the io  *)
(* loop sends chunk by chunk, each chunk by a functor that pushes the      *)
(* next.  A page sends one request at a time; upload.html is served to a   *)
(* connection that is logged in (uploadPage).                              *)
(*                                                                         *)
(* connectionInfo and the state VERIFY of a connection come and go         *)
(* together.  Requests carry no Range header.                              *)
(***************************************************************************)
EXTENDS Upload

VARIABLES
  verified,   (* The connections that are logged in.                       *)
  listed,     (* The names in each page's list of files.                   *)
  body        (* What each page has received of its download.              *)

serverVars == <<verified, listed, body>>
vars == <<uploadVars, serverVars>>

Init ==
  /\ UploadInit
  /\ verified = {}
  /\ listed = [c \in Clients |-> {}]
  /\ body = [c \in Clients |-> <<>>]

-----------------------------------------------------------------------------
(* The pages.                                                              *)
Ask(c, req) ==
  /\ page[c].doing = "idle" /\ left[c] > 0
  /\ left' = [left EXCEPT ![c] = @ - 1]
  /\ request' = [request EXCEPT ![c] = req]
  /\ page' = [page EXCEPT ![c] = [Idle EXCEPT !.doing = req.post]]
  /\ UNCHANGED <<told, reply, up, fileVars, ioQueue, calcQueue, databaseVars, verified, listed>>

(* The user logs in; the connection may be logged in already.              *)
LogIn(c) == Ask(c, [post |-> "login"]) /\ UNCHANGED body

(* The user follows a link of the list.  Not while an upload of that file  *)
(* on this connection has failed half-way: then memo holds an object that  *)
(* is open for writing, and streamSend's resize throws (file-info.cpp:183).*)
Unfinished(c, name) == memo[c][name] # 0 /\ files[c][memo[c][name]].mode = "write"

FollowLink(c, name) ==
  /\ name \in listed[c] /\ ~Unfinished(c, name)
  /\ Ask(c, [post |-> "download", name |-> name])
  /\ body' = [body EXCEPT ![c] = <<>>]

(* What the page does with the next piece of its answer.  upload.html asks *)
(* for the list when it has loaded.  On a login that is answered twice the *)
(* browser drops the connection.                                           *)
ReceiveAnswer(c) ==
  /\ page[c].doing \in {"login", "list", "download"} /\ reply[c] # <<>>
  /\ LET status  == Head(reply[c]).status
         content == Head(reply[c]).content
     IN
     /\ page' = [page EXCEPT ![c] =
          CASE page[c].doing = "login" /\ status = "redirect" -> [Idle EXCEPT !.doing = "list"]
            [] page[c].doing = "login" /\ status = "refused"  -> [Idle EXCEPT !.doing = "refused"]
            [] page[c].doing = "download" /\ status \in {"ok", "data"} -> page[c]
            [] OTHER -> Idle]
     /\ request' = IF page[c].doing = "login" /\ status = "redirect"
                   THEN [request EXCEPT ![c] = [post |-> "list"]] ELSE request
     /\ listed' = IF page[c].doing = "list" /\ status = "ok"
                  THEN [listed EXCEPT ![c] = content] ELSE listed
     /\ body' = IF page[c].doing = "download" /\ status \in {"data", "end"}
                THEN [body EXCEPT ![c] = Append(@, Head(reply[c]))] ELSE body
  /\ reply' = [reply EXCEPT ![c] = Tail(@)]
  /\ UNCHANGED <<left, told, up, fileVars, ioQueue, calcQueue, databaseVars, verified>>

-----------------------------------------------------------------------------
(* The handlers.                                                           *)
Handled(c, answers) ==
  /\ Answered(c, answers)
  /\ UNCHANGED <<page, left, told, up, writing, calcQueue, databaseVars, listed, body>>

(* FileServer::login: redirected when it succeeds or has before; false     *)
(* without a database, which onMessage answers with 400; for a wrong name  *)
(* or password its own 400 and then onMessage's.                           *)
LoginHandler(c) ==
  /\ Arrived(c, "login")
  /\ \/ Handled(c, <<Answer("redirect", {})>>) /\ verified' = verified \cup {c}
     \/ /\ c \notin verified /\ UNCHANGED verified
        /\ \E answers \in {<<Answer("bad", {})>>, <<Answer("refused", {}), Answer("bad", {})>>} :
             Handled(c, answers)
  /\ UNCHANGED <<files, memo, ioQueue>>

Rows(c) == {row[2] : row \in {r \in database : r[1] = c}}

(* FileServer::fileInfo                                                    *)
ListHandler(c) ==
  /\ Arrived(c, "list")
  /\ \E answer \in {Answer("bad", {})} \cup (IF c \in verified THEN {Answer("ok", Rows(c))} ELSE {}) :
       Handled(c, <<answer>>)
  /\ UNCHANGED <<verified, files, memo, ioQueue>>

(* What is on the disk, and what a file that is opened for reading spans.  *)
OnDisk(name) ==
  {i \in Chunks(name) : \E c \in Clients : \E k \in DOMAIN files[c] :
     files[c][k].name = name /\ files[c][k].mode = "write" /\ i \in files[c][k].full}

OpenedFile(name) ==
  [NewFile(name) EXCEPT !.mode = "read", !.status = "waiting",
                        !.full = {i \in Chunks(name) : \E j \in OnDisk(name) : i <= j}]

Stream(c, name, i) == [fn |-> "streamSend", client |-> c, name |-> name, index |-> i]

Push(c, f) == ioQueue' = [ioQueue EXCEPT ![Home[c]] = Append(@, f)]

(* FileServer::download, of a file in the memo or of a row.                *)
DownloadHandler(c) ==
  /\ Arrived(c, "download")
  /\ LET name == request[c].name IN
       \/ /\ c \in verified /\ memo[c][name] # 0
          /\ UNCHANGED <<files, memo>>
          /\ Handled(c, <<Answer("ok", {})>>) /\ Push(c, Stream(c, name, 0))
       \/ /\ c \in verified /\ memo[c][name] = 0 /\ name \in Rows(c)
          /\ files' = [files EXCEPT ![c] = Append(@, OpenedFile(name))]
          /\ memo' = [memo EXCEPT ![c][name] = Len(files[c]) + 1]
          /\ Handled(c, <<Answer("ok", {})>>) /\ Push(c, Stream(c, name, 0))
       \/ /\ c \notin verified \/ memo[c][name] = 0
          /\ Handled(c, <<Answer("bad", {})>>) /\ UNCHANGED <<files, memo, ioQueue>>
  /\ UNCHANGED verified

(* Mutant of Streamed: it stops one chunk early.                           *)
StreamedShort(f, nums) ==
  IF f.index + 2 >= nums THEN <<>> ELSE <<Stream(f.client, f.name, f.index + 1)>>

(* The functor a chunk pushes, if it was not the last.                     *)
Streamed(f, nums) ==
  IF f.index + 1 >= nums THEN <<>> ELSE <<Stream(f.client, f.name, f.index + 1)>>

Read(f, file) == IF f.index \in OnDisk(file.name) THEN f.index ELSE None

(* FileServer::streamSend: the file is looked up by its name each time.    *)
StreamSend(l) ==
  /\ Free(l) /\ ioQueue[l] # <<>> /\ Head(ioQueue[l]).fn = "streamSend"
  /\ LET f == Head(ioQueue[l])
         c == f.client
         file == files[c][memo[c][f.name]]
         nums == Cardinality(file.full)
         next == Streamed(f, nums)
     IN  IF memo[c][f.name] = 0
         THEN ioQueue' = [ioQueue EXCEPT ![l] = Tail(@)] /\ UNCHANGED reply
         ELSE /\ file.mode = "read"
              /\ ioQueue' = [ioQueue EXCEPT ![l] = Tail(@) \o next]
              /\ reply' = [reply EXCEPT ![c] =
                   @ \o (IF f.index < nums THEN <<Answer("data", Read(f, file))>> ELSE <<Answer("end", {})>>)
                     \o (IF next = <<>> THEN <<Answer("end", {})>> ELSE <<>>)]
  /\ UNCHANGED <<pageVars, up, fileVars, calcQueue, databaseVars, serverVars>>

-----------------------------------------------------------------------------
PageStep(c) ==
  \/ UploadPageStep(c) /\ UNCHANGED serverVars
  \/ ReceiveAnswer(c)

UserStep(c) ==
  \/ LogIn(c)
  \/ \E n \in Names : FollowLink(c, n)
  \/ c \in verified /\ UNCHANGED serverVars /\ \E n \in Disk[c] : SendFileInfo(c, n)

IoStep(l) ==
  \/ UploadIoStep(l) /\ UNCHANGED serverVars
  \/ StreamSend(l)
  \/ \E c \in Clients : Home[c] = l /\ (LoginHandler(c) \/ ListHandler(c) \/ DownloadHandler(c))

(* onConnectionStateChanged erases what is known of the connection.        *)
ConnectionDown(c) ==
  /\ GoDown(c)
  /\ verified' = verified \ {c}
  /\ UNCHANGED <<listed, body>>

CalcStep(l) == RunCalcFunctor(l) /\ UNCHANGED serverVars

Next ==
  \/ \E c \in Clients : PageStep(c) \/ UserStep(c) \/ ConnectionDown(c)
  \/ \E l \in IoLoops : IoStep(l)
  \/ \E l \in CalcLoops : CalcStep(l)

Spec == Init /\ [][Next]_vars

(* Every loop runs what it has, and a page goes on with what it began.     *)
FairSpec ==
  /\ Spec
  /\ \A c \in Clients : WF_vars(PageStep(c))
  /\ \A l \in IoLoops : WF_vars(IoStep(l))
  /\ \A l \in CalcLoops : WF_vars(CalcStep(l))
-----------------------------------------------------------------------------
Waits == {"login", "list", "info", "chunk", "download"}

TypeOK ==
  /\ UploadTypeOK
  /\ \A c \in Clients : page[c].doing \in Waits \cup {"idle", "ready", "refused", "closed"}
  /\ \A c \in Clients : \A i \in DOMAIN reply[c] :
       reply[c][i].status \in {"ok", "bad", "redirect", "refused", "data", "end"}
  /\ up \in [Clients -> BOOLEAN] /\ verified \subseteq Clients
  /\ listed \in [Clients -> SUBSET Names]
  /\ \A c \in Clients : Len(body[c]) <= Cardinality(UNION {Chunks(n) : n \in Names}) + 1

(***************************************************************************)
(* Page and server stay in step.  A chunk the page posts finds the object  *)
(* its file information made (file-server.cpp:178-185, 207-209: upload     *)
(* looks into the map without a test); and nothing comes to a page that    *)
(* waits for nothing, no second answer to one that does: the last chunk is *)
(* answered by another thread, all else by the handler.  (A refused login  *)
(* is answered twice.)                                                     *)
(***************************************************************************)
Answers(c) == {i \in DOMAIN reply[c] : reply[c][i].status \in {"ok", "bad", "redirect"}}

InStep ==
  /\ ChunkIsExpected
  /\ \A c \in Clients :
       /\ reply[c] # <<>> => page[c].doing \in Waits \cup {"refused"}
       /\ page[c].doing \notin {"login", "refused"} => Cardinality(Answers(c)) <= 1

(***************************************************************************)
(* A download that ends brought the whole file, each chunk once and in     *)
(* order, although every chunk looks its file up anew and other functors   *)
(* of the loop and other uploads run in between                            *)
(* (file-server.cpp:413-502, file-info.cpp:175-186).                       *)
(***************************************************************************)
DownloadIsWhole ==
  \A c \in Clients : \A i \in DOMAIN body[c] :
    body[c][i].status = "end" =>
      \E n \in listed[c] :
        /\ i = Size[n] + 1
        /\ \A j \in 1..(i - 1) : body[c][j] = Answer("data", j - 1)

(***************************************************************************)
(* Nothing counts as a file that is not all of it, up or down.             *)
(***************************************************************************)
FilesAreWhole == AcceptedIsWhole /\ DownloadIsWhole

(***************************************************************************)
(* Every request is answered, the last chunk by way of the calculation     *)
(* loop and back (file-server.cpp:207-216, 369-384), a download to its end *)
(* (file-server.cpp:494-501).                                              *)
(***************************************************************************)
EveryRequestAnswered == \A c \in Clients : page[c].doing \in Waits ~> page[c].doing \notin Waits
=============================================================================
