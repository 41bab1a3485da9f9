-------------------------- MODULE FileServerProofs --------------------------
(***************************************************************************)
(* Proofs about FileServer and its uploads, for every number of pages,     *)
(* loops and files, and files of every size.                               *)
(***************************************************************************)
EXTENDS FileServer, SequenceTheorems, FiniteSetTheorems, TLAPS

-----------------------------------------------------------------------------
(***************************************************************************)
(* Types.                                                                  *)
(***************************************************************************)
Doings == Waits \cup {"idle", "ready", "refused", "closed"}

Statuses == {"ok", "bad", "redirect", "refused", "data", "end"}

Pages == [doing : Doings, name : Names \cup {None}, left : SUBSET Nat]

Requests ==
  [post : {"login", "list"}] \cup [post : {"info", "download"}, name : Names]
    \cup [post : {"chunk"}, name : Names, chunk : Nat]

Contents == Nat \cup {None} \cup SUBSET Names

Replying == [status : Statuses, content : Contents]

Writes == [client : Clients, file : Nat, chunk : Nat, short : BOOLEAN]

IoFunctors ==
  [fn : {"updateDataBase"}, client : Clients, file : Nat]
    \cup [fn : {"send"}, client : Clients, status : {"ok", "bad"}]
    \cup [fn : {"streamSend"}, client : Clients, name : Names, index : Nat]

CalcFunctors ==
  [fn : {"update"}, client : Clients, file : Nat, chunk : Nat]
    \cup [fn : {"judge"}, client : Clients, file : Nat]

TypeInv ==
  /\ page \in [Clients -> Pages]
  /\ left \in [Clients -> Nat]
  /\ request \in [Clients -> Requests \cup {None}]
  /\ reply \in [Clients -> Seq(Replying)]
  /\ up \in [Clients -> BOOLEAN]
  /\ files \in [Clients -> Seq(Files)]
  /\ memo \in [Clients -> [Names -> Nat]]
  /\ writing \in [IoLoops -> Writes \cup {None}]
  /\ ioQueue \in [IoLoops -> Seq(IoFunctors)]
  /\ calcQueue \in [CalcLoops -> Seq(CalcFunctors)]
  /\ database \cup lost \cup told \subseteq Clients \X Names
  /\ verified \subseteq Clients
  /\ listed \in [Clients -> SUBSET Names]
  /\ body \in [Clients -> Seq(Replying)]

-----------------------------------------------------------------------------
(***************************************************************************)
(* The invariant speaks of one client at a time: its page, its files, and  *)
(* the functors of its own in the queues of the loops.                     *)
(***************************************************************************)
WritesOf(c) == ~Free(Home[c]) /\ writing[Home[c]].client = c

(* The i-th functor of an io loop or a calculation loop is c's.            *)
IoAt(c, i) == i \in 1..Len(ioQueue[Home[c]]) /\ ioQueue[Home[c]][i].client = c

CalcAt(c, l, i) == i \in 1..Len(calcQueue[l]) /\ calcQueue[l][i].client = c

(* The files: what is judged is whole.                                     *)
Whole(c, k) == files[c][k].full = Chunks(files[c][k].name)

FileInv(c) ==
  /\ \A n \in Names : memo[c][n] \in 0..Len(files[c])
  /\ \A n \in Names : memo[c][n] # 0 => files[c][memo[c][n]].name = n
  /\ \A k \in 1..Len(files[c]) :
       /\ files[c][k].full \subseteq Chunks(files[c][k].name)
       /\ Len(files[c][k].digest) = files[c][k].calcIndex
       /\ files[c][k].calcIndex <= Size[files[c][k].name]
       /\ files[c][k].mode = "read" \/ files[c][k].verdict # "none" => Whole(c, k)
       /\ files[c][k].verdict = "accepted" => Verify(files[c][k])

(* The calculation loops: chunks come in order, and the judgement last.    *)
CalcOk(c, l, i) ==
  LET f == calcQueue[l][i]
      k == f.file
  IN  /\ k \in 1..Len(files[c])
      /\ files[c][k].owner = l /\ files[c][k].verdict = "none" /\ files[c][k].mode = "write"
      /\ f.fn = "update" => f.chunk \in files[c][k].full /\ files[c][k].calcIndex <= f.chunk
      /\ f.fn = "judge" => Whole(c, k) /\ Size[files[c][k].name] # 0
      /\ \A j \in 1..(i - 1) :
           calcQueue[l][j].client = c /\ calcQueue[l][j].file = k =>
             /\ calcQueue[l][j].fn = "update"
             /\ f.fn = "update" => calcQueue[l][j].chunk < f.chunk

CalcInv(c) ==
  \A l \in CalcLoops : \A i \in 1..Len(calcQueue[l]) :
    calcQueue[l][i].client = c => CalcOk(c, l, i)

(* The io loops, and the rows.                                             *)
Uploaded(c, k) ==
  k \in 1..Len(files[c]) /\ files[c][k].mode = "write" /\ Whole(c, k) /\ Size[files[c][k].name] # 0

IoInv(c) ==
  /\ \A l \in IoLoops : \A i \in 1..Len(ioQueue[l]) :
       ioQueue[l][i].client = c =>
         /\ l = Home[c]
         /\ ioQueue[l][i].fn = "updateDataBase" => Uploaded(c, ioQueue[l][i].file)
  /\ \A n \in Names : <<c, n>> \in database =>
       \E k \in 1..Len(files[c]) : Uploaded(c, k) /\ files[c][k].name = n
  /\ \A l \in IoLoops : ~Free(l) /\ writing[l].client = c => l = Home[c]

(* A connection that is down knows nothing.                                *)
DownInv(c) ==
  ~up[c] =>
    /\ page[c].doing = "closed" /\ request[c] = None /\ reply[c] = <<>>
    /\ \A n \in Names : memo[c][n] = 0
    /\ ~WritesOf(c)

-----------------------------------------------------------------------------
(***************************************************************************)
(* Whose turn it is: a request is on its way, or a chunk is being written, *)
(* or a file judged, or one sent, or the page has an answer, and only one  *)
(* of these.                                                               *)
(***************************************************************************)
JudgeAt(c, l, i) == CalcAt(c, l, i) /\ calcQueue[l][i].fn = "judge"
SendAt(c, i) == IoAt(c, i) /\ ioQueue[Home[c]][i].fn = "send"
StreamAt(c, i) == IoAt(c, i) /\ ioQueue[Home[c]][i].fn = "streamSend"

Judging(c) == \E l \in CalcLoops : \E i \in 1..Len(calcQueue[l]) : JudgeAt(c, l, i)
Sending(c) == \E i \in 1..Len(ioQueue[Home[c]]) : SendAt(c, i)
Streaming(c) == \E i \in 1..Len(ioQueue[Home[c]]) : StreamAt(c, i)

OnceInv(c) ==
  /\ \A l, m \in CalcLoops, i, j \in Nat : JudgeAt(c, l, i) /\ JudgeAt(c, m, j) => l = m /\ i = j
  /\ \A i, j \in Nat : SendAt(c, i) /\ SendAt(c, j) => i = j
  /\ \A i, j \in Nat : StreamAt(c, i) /\ StreamAt(c, j) => i = j

TurnInv(c) ==
  /\ request[c] # None =>
       /\ reply[c] = <<>> /\ ~WritesOf(c) /\ ~Judging(c) /\ ~Sending(c) /\ ~Streaming(c)
       /\ request[c].post = page[c].doing /\ page[c].doing \in Waits
  /\ WritesOf(c) =>
       /\ reply[c] = <<>> /\ ~Judging(c) /\ ~Sending(c) /\ page[c].doing = "chunk"
  /\ Judging(c) =>
       /\ reply[c] = <<>> /\ ~Sending(c) /\ page[c].doing = "chunk" /\ page[c].left = {}
  /\ Sending(c) => reply[c] = <<>> /\ page[c].doing = "chunk" /\ page[c].left = {}
  /\ Streaming(c) => page[c].doing = "download"

(* What an answer looks like.                                              *)
ReplyInv(c) ==
  /\ page[c].doing \in {"idle", "ready", "closed"} => reply[c] = <<>>
  /\ page[c].doing = "info" => reply[c] \in {<<>>, <<Answer("ok", {})>>}
  /\ page[c].doing = "chunk" =>
       reply[c] \in {<<>>, <<Answer("ok", {})>>, <<Answer("bad", {})>>}
  /\ page[c].doing = "login" =>
       reply[c] \in {<<>>, <<Answer("redirect", {})>>, <<Answer("bad", {})>>,
                     <<Answer("refused", {}), Answer("bad", {})>>}
  /\ page[c].doing = "list" =>
       \/ reply[c] \in {<<>>, <<Answer("bad", {})>>}
       \/ \E names \in SUBSET Names :
            reply[c] = <<Answer("ok", names)>> /\ listed[c] \subseteq names /\ names \subseteq Rows(c)
  /\ listed[c] \subseteq Rows(c)

-----------------------------------------------------------------------------
(***************************************************************************)
(* Uploads.  The chunks to come, in X, are those the file has not, and     *)
(* none of them is digested.                                               *)
(***************************************************************************)
Awaits(c, X) ==
  LET k == memo[c][page[c].name]
      f == files[c][k]
  IN  /\ page[c].name \in Names
      /\ k # 0 /\ f.mode = "write" /\ f.status = "uploading" /\ f.verdict = "none"
      /\ X \subseteq Chunks(page[c].name) /\ f.full = Chunks(page[c].name) \ X
      /\ \A x \in X :
           /\ f.calcIndex <= x
           /\ \A l \in CalcLoops : \A i \in 1..Len(calcQueue[l]) :
                CalcAt(c, l, i) /\ calcQueue[l][i].file = k /\ calcQueue[l][i].fn = "update" =>
                  calcQueue[l][i].chunk < x

IsNext(c, x) == x \notin page[c].left /\ \A y \in page[c].left : x < y

Ready(c) ==
  \/ page[c].doing = "ready"
  \/ page[c].doing \in {"info", "chunk"} /\ reply[c] # <<>> /\ Head(reply[c]).status = "ok"

Recorded(c, n) == <<c, n>> \in database \cup lost

UploadInv(c) ==
  /\ page[c].doing \in {"info", "ready", "chunk"} => page[c].name \in Names
  /\ Ready(c) =>
       /\ page[c].left # {} => Awaits(c, page[c].left)
       /\ page[c].left = {} /\ Storable(page[c].name) => Recorded(c, page[c].name)
  /\ request[c] # None /\ page[c].doing = "info" =>
       request[c].name = page[c].name /\ page[c].left = Chunks(page[c].name)
  /\ request[c] # None /\ page[c].doing = "chunk" =>
       /\ request[c].name = page[c].name /\ IsNext(c, request[c].chunk)
       /\ Awaits(c, page[c].left \cup {request[c].chunk})
  /\ WritesOf(c) =>
       LET w == writing[Home[c]]
       IN  /\ w.file = memo[c][page[c].name] /\ IsNext(c, w.chunk)
           /\ Awaits(c, page[c].left \cup {w.chunk})
  /\ \A l \in CalcLoops : \A i \in 1..Len(calcQueue[l]) :
       JudgeAt(c, l, i) => files[c][calcQueue[l][i].file].name = page[c].name
  /\ \A i \in 1..Len(ioQueue[Home[c]]) :
       SendAt(c, i) /\ ioQueue[Home[c]][i].status = "ok" =>
         \/ Recorded(c, page[c].name)
         \/ \E j \in 1..(i - 1) :
              /\ IoAt(c, j) /\ ioQueue[Home[c]][j].fn = "updateDataBase"
              /\ files[c][ioQueue[Home[c]][j].file].name = page[c].name

ToldInv(c) == \A n \in Names : <<c, n>> \in told /\ Storable(n) => Recorded(c, n)

-----------------------------------------------------------------------------
(***************************************************************************)
(* Downloads.  The pieces of a file are its chunks and then the end; a     *)
(* page has got the first e of them, or they are on their way.             *)
(***************************************************************************)
Piece(n, j) == IF j < Size[n] THEN Answer("data", j) ELSE Answer("end", {})

Pieces(n, b, e) == [j \in 1..(e - b) |-> Piece(n, b + j - 1)]

Sent(c, n, e) ==
  /\ n \in listed[c] /\ e \in 0..(Size[n] + 1) /\ Len(body[c]) <= e
  /\ body[c] = Pieces(n, 0, Len(body[c]))
  /\ \/ reply[c] = Pieces(n, Len(body[c]), e)
     \/ body[c] = <<>> /\ reply[c] = <<Answer("ok", {})>> \o Pieces(n, 0, e)

Opened(c, n) == memo[c][n] # 0 /\ files[c][memo[c][n]].mode = "read"

DownloadInv(c) ==
  page[c].doing = "download" =>
    /\ request[c] # None =>
         body[c] = <<>> /\ request[c].name \in listed[c] /\ ~Unfinished(c, request[c].name)
    /\ Streaming(c) \/ reply[c] # <<>> =>
         \/ reply[c] = <<Answer("bad", {})>> /\ body[c] = <<>> /\ ~Streaming(c)
         \/ \E n \in Names : \E e \in Nat :
              /\ Sent(c, n, e)
              /\ \A i \in 1..Len(ioQueue[Home[c]]) : StreamAt(c, i) =>
                   /\ ioQueue[Home[c]][i].name = n /\ ioQueue[Home[c]][i].index = e
                   /\ e < Size[n] /\ Opened(c, n)

WholeDownload(c, i, n) ==
  i = Size[n] + 1 /\ \A j \in 1..(i - 1) : body[c][j] = Answer("data", j - 1)

BodyInv(c) ==
  /\ \A i \in 1..Len(body[c]) : body[c][i].status = "end" =>
       \E n \in listed[c] : WholeDownload(c, i, n)
  /\ body[c] # <<>> => \E n \in Names : Len(body[c]) <= Size[n] + 1

-----------------------------------------------------------------------------
ClientInv(c) ==
  /\ FileInv(c) /\ CalcInv(c) /\ IoInv(c) /\ DownInv(c)
  /\ up[c] => OnceInv(c) /\ TurnInv(c) /\ ReplyInv(c) /\ UploadInv(c) /\ DownloadInv(c)
  /\ ToldInv(c) /\ BodyInv(c)

ServerInv == TypeInv /\ \A c \in Clients : ClientInv(c)
-----------------------------------------------------------------------------
(***************************************************************************)
(* A queue has no new functors of d when only others came and its head may *)
(* have gone, and the same functors when the head was not one of d's.      *)
(***************************************************************************)
NoneNew(d, q, p, s) ==
  \A i \in 1..Len(p) : p[i].client = d => i + s \in 1..Len(q) /\ q[i + s] = p[i]

NoneGone(d, q, p, s) ==
  \A i \in 1..Len(q) : q[i].client = d => i - s \in 1..Len(p) /\ p[i - s] = q[i]

NoMoreFor(d, q, p) == \E s \in {0, 1} : NoneNew(d, q, p, s)

SameFor(d, q, p) == \E s \in {0, 1} : NoneNew(d, q, p, s) /\ NoneGone(d, q, p, s)

LEMMA HeadTail ==
  ASSUME NEW S, NEW q \in Seq(S), q # <<>>
  PROVE  /\ Head(q) = q[1] /\ q[1] \in S /\ Len(q) \in Nat \ {0}
         /\ Tail(q) \in Seq(S) /\ Len(Tail(q)) = Len(q) - 1
         /\ \A i \in 1..(Len(q) - 1) : Tail(q)[i] = q[i + 1]
<1>1. Len(q) \in Nat /\ Len(q) # 0
  BY EmptySeq, LenProperties
<1>2. QED
  BY <1>1, HeadTailProperties, ElementOfSeq

LEMMA Concat ==
  ASSUME NEW S, NEW q \in Seq(S), NEW p \in Seq(S)
  PROVE  /\ q \o p \in Seq(S) /\ Len(q \o p) = Len(q) + Len(p)
         /\ \A i \in 1..Len(q) : (q \o p)[i] = q[i]
         /\ \A i \in 1..Len(p) : (q \o p)[Len(q) + i] = p[i]
         /\ \A i \in (Len(q) + 1)..Len(q \o p) : (q \o p)[i] = p[i - Len(q)] /\ i - Len(q) \in 1..Len(p)
         /\ Len(q) \in Nat /\ Len(p) \in Nat
<1>1. Len(q) \in Nat /\ Len(p) \in Nat
  BY LenProperties
<1>2. /\ q \o p \in Seq(S) /\ Len(q \o p) = Len(q) + Len(p)
      /\ \A i \in 1..(Len(q) + Len(p)) : (q \o p)[i] = IF i <= Len(q) THEN q[i] ELSE p[i - Len(q)]
  BY ConcatProperties
<1>3. QED
  BY <1>1, <1>2

LEMMA SameItself ==
  ASSUME NEW S, NEW q \in Seq(S), NEW d
  PROVE  SameFor(d, q, q)
<1>1. Len(q) \in Nat
  BY LenProperties
<1>2. NoneNew(d, q, q, 0) /\ NoneGone(d, q, q, 0)
  BY <1>1 DEF NoneNew, NoneGone
<1>3. QED
  BY <1>2 DEF SameFor

LEMMA SameBehind ==
  ASSUME NEW S, NEW q \in Seq(S), NEW p \in Seq(S), NEW d,
         \A i \in 1..Len(p) : p[i].client # d
  PROVE  SameFor(d, q, q \o p)
<1>1. NoneNew(d, q, q \o p, 0) /\ NoneGone(d, q, q \o p, 0)
  BY Concat DEF NoneNew, NoneGone
<1>2. QED
  BY <1>1 DEF SameFor

LEMMA SameTail ==
  ASSUME NEW S, NEW q \in Seq(S), NEW p \in Seq(S), NEW d,
         q # <<>>, \A i \in 1..Len(p) : p[i].client # d
  PROVE  /\ NoneNew(d, q, Tail(q) \o p, 1)
         /\ NoMoreFor(d, q, Tail(q) \o p)
         /\ q[1].client # d => SameFor(d, q, Tail(q) \o p)
<1>1. PICK t \in Seq(S) : /\ t = Tail(q) /\ Len(t) = Len(q) - 1 /\ Len(q) \in Nat \ {0}
                          /\ \A i \in 1..(Len(q) - 1) : t[i] = q[i + 1]
  BY HeadTail
<1>2. /\ Len(t \o p) = Len(t) + Len(p)
      /\ \A i \in 1..Len(t) : (t \o p)[i] = t[i]
      /\ \A i \in (Len(t) + 1)..Len(t \o p) : (t \o p)[i] = p[i - Len(t)] /\ i - Len(t) \in 1..Len(p)
      /\ Len(t) \in Nat /\ Len(p) \in Nat
  BY Concat
<1>3. NoneNew(d, q, t \o p, 1)
  BY <1>1, <1>2 DEF NoneNew
<1>4. ASSUME q[1].client # d PROVE NoneGone(d, q, t \o p, 1)
  <2> SUFFICES ASSUME NEW i \in 1..Len(q), q[i].client = d
               PROVE  i - 1 \in 1..Len(t \o p) /\ (t \o p)[i - 1] = q[i]
    BY DEF NoneGone
  <2>1. i # 1
    BY <1>4
  <2>2. i - 1 \in 1..Len(t) /\ t[i - 1] = q[i]
    BY <2>1, <1>1
  <2>3. QED
    BY <2>2, <1>2
<1>5. QED
  BY <1>1, <1>3, <1>4 DEF SameFor, NoMoreFor

LEMMA SameHasNoMore ==
  ASSUME NEW d, NEW q, NEW p, SameFor(d, q, p)
  PROVE  NoMoreFor(d, q, p)
  BY DEF SameFor, NoMoreFor

NoMoreCalc(d) == \A l \in CalcLoops : NoMoreFor(d, calcQueue[l], calcQueue'[l])
NoMoreIo(d) == \A l \in IoLoops : NoMoreFor(d, ioQueue[l], ioQueue'[l])
SameCalc(d) == \A l \in CalcLoops : SameFor(d, calcQueue[l], calcQueue'[l])
SameIo(d) == \A l \in IoLoops : SameFor(d, ioQueue[l], ioQueue'[l])

(* The loop of d's connection writes for d what it wrote before.           *)
SameWrite(d) ==
  \A l \in IoLoops :
    ~Free(l)' /\ writing'[l].client = d => ~Free(l) /\ writing'[l] = writing[l]

(***************************************************************************)
(* Each part of the invariant stays when what it is about stays.           *)
(***************************************************************************)
LEMMA FilesStay ==
  ASSUME NEW d \in Clients, FileInv(d), files'[d] = files[d], memo'[d] = memo[d]
  PROVE  FileInv(d)'
  BY DEF FileInv, Whole

LEMMA CalcStays ==
  ASSUME TypeInv, NEW d \in Clients, CalcInv(d), NoMoreCalc(d), files'[d] = files[d]
  PROVE  CalcInv(d)'
<1> SUFFICES ASSUME NEW l \in CalcLoops, NEW i \in 1..Len(calcQueue'[l]),
                    calcQueue'[l][i].client = d
             PROVE  CalcOk(d, l, i)'
  BY DEF CalcInv
<1> SUFFICES LET f == calcQueue'[l][i]
                 k == f.file
             IN  /\ k \in 1..Len(files[d])
                 /\ files[d][k].owner = l /\ files[d][k].verdict = "none" /\ files[d][k].mode = "write"
                 /\ f.fn = "update" => f.chunk \in files[d][k].full /\ files[d][k].calcIndex <= f.chunk
                 /\ f.fn = "judge" => Whole(d, k) /\ Size[files[d][k].name] # 0
                 /\ \A j \in 1..(i - 1) :
                      calcQueue'[l][j].client = d /\ calcQueue'[l][j].file = k =>
                        /\ calcQueue'[l][j].fn = "update"
                        /\ f.fn = "update" => calcQueue'[l][j].chunk < f.chunk
  BY Zenon DEF CalcOk, Whole
<1> DEFINE q == calcQueue[l]
           p == calcQueue'[l]
<1>1. PICK s \in {0, 1} :
           \A j \in 1..Len(p) : p[j].client = d => j + s \in 1..Len(q) /\ q[j + s] = p[j]
  BY DEF NoMoreCalc, NoMoreFor, NoneNew
<1>2. i + s \in 1..Len(q) /\ q[i + s] = p[i] /\ q[i + s].client = d
  BY <1>1
<1>3. \A j \in 1..(i - 1) : p[j].client = d => j + s \in 1..(i + s - 1) /\ q[j + s] = p[j]
  <2> SUFFICES ASSUME NEW j \in 1..(i - 1), p[j].client = d
               PROVE  j + s \in 1..(i + s - 1) /\ q[j + s] = p[j]
    OBVIOUS
  <2>1. j \in 1..Len(p)
    BY LenProperties
  <2>2. QED
    BY <1>1, <2>1
<1>4. PICK e \in 1..Len(q) : e = i + s
  BY <1>2
<1>5. LET f == q[e]
          k == f.file
      IN  /\ k \in 1..Len(files[d])
          /\ files[d][k].owner = l /\ files[d][k].verdict = "none" /\ files[d][k].mode = "write"
          /\ f.fn = "update" => f.chunk \in files[d][k].full /\ files[d][k].calcIndex <= f.chunk
          /\ f.fn = "judge" => Whole(d, k) /\ Size[files[d][k].name] # 0
          /\ \A j \in 1..(e - 1) : q[j].client = d /\ q[j].file = k =>
               /\ q[j].fn = "update"
               /\ f.fn = "update" => q[j].chunk < f.chunk
  BY <1>2, <1>4 DEF CalcInv, CalcOk
<1>6. \A j \in 1..(i - 1) : p[j].client = d => \E g \in 1..(e - 1) : q[g] = p[j]
  BY <1>3, <1>4
<1>7. p[i] = q[e]
  BY <1>2, <1>4
<1> HIDE DEF p, q
<1>8. QED
  BY SMTT(30), <1>5, <1>6, <1>7 DEF p

LEMMA IoStays ==
  ASSUME TypeInv, NEW d \in Clients, IoInv(d), NoMoreIo(d), SameWrite(d), files'[d] = files[d],
         \A n \in Names : <<d, n>> \in database' => <<d, n>> \in database
  PROVE  IoInv(d)'
<1>1. \A k \in Nat : Uploaded(d, k)' <=> Uploaded(d, k)
  BY DEF Uploaded, Whole
<1>2. ASSUME NEW l \in IoLoops, NEW i \in 1..Len(ioQueue'[l]), ioQueue'[l][i].client = d
      PROVE  /\ l = Home[d]
             /\ ioQueue'[l][i].fn = "updateDataBase" => Uploaded(d, ioQueue[l][i].file)'
  <2>1. PICK j \in 1..Len(ioQueue[l]) : ioQueue[l][j] = ioQueue'[l][i]
    BY <1>2 DEF NoMoreIo, NoMoreFor, NoneNew
  <2>2. l = Home[d] /\ (ioQueue[l][j].fn = "updateDataBase" => Uploaded(d, ioQueue[l][j].file))
    BY <1>2, <2>1 DEF IoInv
  <2>3. QED
    BY <2>1, <2>2 DEF Uploaded, Whole
<1>3. \A n \in Names : <<d, n>> \in database' =>
        \E k \in 1..Len(files'[d]) : Uploaded(d, k)' /\ files'[d][k].name = n
  BY <1>1 DEF IoInv
<1>4. \A l \in IoLoops : ~Free(l)' /\ writing'[l].client = d => l = Home[d]
  BY DEF IoInv, SameWrite
<1>5. QED
  BY <1>2, <1>3, <1>4 DEF IoInv

(* The functors of d are there as before.                                  *)
LEMMA FunctorsStay ==
  ASSUME TypeInv, NEW d \in Clients, NoMoreCalc(d), NoMoreIo(d), OnceInv(d)
  PROVE  /\ OnceInv(d)'
         /\ Judging(d)' => Judging(d)
         /\ Sending(d)' => Sending(d)
         /\ Streaming(d)' => Streaming(d)
         /\ \A l \in CalcLoops : \A i : JudgeAt(d, l, i)' =>
              \E j : JudgeAt(d, l, j) /\ calcQueue[l][j] = calcQueue'[l][i]
<1> Home[d] \in IoLoops
  BY UploadAssumption
<1> DEFINE h == Home[d]
<1>1. ASSUME NEW l \in CalcLoops
      PROVE  \E s \in {0, 1} : \A i \in Nat : JudgeAt(d, l, i)' =>
               JudgeAt(d, l, i + s) /\ calcQueue[l][i + s] = calcQueue'[l][i]
  <2>1. PICK s \in {0, 1} : \A i \in 1..Len(calcQueue'[l]) : calcQueue'[l][i].client = d =>
           i + s \in 1..Len(calcQueue[l]) /\ calcQueue[l][i + s] = calcQueue'[l][i]
    BY DEF NoMoreCalc, NoMoreFor, NoneNew
  <2>2. QED
    BY <2>1 DEF JudgeAt, CalcAt
<1>2. PICK s \in {0, 1} : \A i \in 1..Len(ioQueue'[h]) : ioQueue'[h][i].client = d =>
           i + s \in 1..Len(ioQueue[h]) /\ ioQueue[h][i + s] = ioQueue'[h][i]
  BY DEF NoMoreIo, NoMoreFor, NoneNew
<1>3. \A i \in Nat : /\ SendAt(d, i)' => SendAt(d, i + s)
                     /\ StreamAt(d, i)' => StreamAt(d, i + s)
  BY <1>2 DEF SendAt, StreamAt, IoAt
<1>4. \A l \in CalcLoops : \A i : JudgeAt(d, l, i)' => i \in Nat
  BY DEF JudgeAt, CalcAt
<1>5. \A l \in CalcLoops : \A i : JudgeAt(d, l, i)' =>
        \E j \in Nat : JudgeAt(d, l, j) /\ calcQueue[l][j] = calcQueue'[l][i]
  BY <1>1, <1>4
<1>6. \A l, m \in CalcLoops, i, j \in Nat : JudgeAt(d, l, i)' /\ JudgeAt(d, m, j)' => l = m /\ i = j
  <2> SUFFICES ASSUME NEW l \in CalcLoops, NEW m \in CalcLoops, NEW i \in Nat, NEW j \in Nat,
                      JudgeAt(d, l, i)', JudgeAt(d, m, j)'
               PROVE  l = m /\ i = j
    OBVIOUS
  <2>1. l = m
    BY <1>5 DEF OnceInv
  <2>2. QED
    BY <1>1, <2>1 DEF OnceInv
<1>7. /\ \A i, j \in Nat : SendAt(d, i)' /\ SendAt(d, j)' => i = j
      /\ \A i, j \in Nat : StreamAt(d, i)' /\ StreamAt(d, j)' => i = j
  BY <1>3 DEF OnceInv
<1>8. OnceInv(d)'
  BY <1>6, <1>7 DEF OnceInv
<1>9. Judging(d)' => Judging(d)
  BY <1>5 DEF Judging, JudgeAt, CalcAt
<1>10. /\ Sending(d)' => Sending(d)
       /\ Streaming(d)' => Streaming(d)
  BY <1>2 DEF Sending, Streaming, SendAt, StreamAt, IoAt
<1>11. QED
  BY <1>5, <1>8, <1>9, <1>10

(***************************************************************************)
(* What the page of d sees.                                                *)
(***************************************************************************)
SamePage(d) ==
  /\ page'[d] = page[d] /\ request'[d] = request[d] /\ reply'[d] = reply[d]
  /\ up'[d] = up[d] /\ listed'[d] = listed[d] /\ body'[d] = body[d]

SameFiles(d) == files'[d] = files[d] /\ memo'[d] = memo[d]

(* Rows of d come by functors of d only; histories never go.               *)
SameRows(d) ==
  \A n \in Names :
    /\ <<d, n>> \in database' <=> <<d, n>> \in database
    /\ <<d, n>> \in lost => <<d, n>> \in lost'

LEMMA RowsStay ==
  ASSUME TypeInv, NEW d \in Clients, SameRows(d), TypeInv'
  PROVE  Rows(d)' = Rows(d) /\ \A n \in Names : Recorded(d, n) => Recorded(d, n)'
<1>1. database \subseteq Clients \X Names /\ database' \subseteq Clients \X Names
  BY DEF TypeInv
<1>2. \A n : n \in Rows(d) <=> n \in Names /\ <<d, n>> \in database
  BY <1>1 DEF Rows
<1>3. \A n : n \in Rows(d)' <=> n \in Names /\ <<d, n>> \in database'
  BY <1>1 DEF Rows
<1>4. QED
  BY <1>2, <1>3 DEF SameRows, Recorded

LEMMA AwaitsStays ==
  ASSUME TypeInv, NEW d \in Clients, SameFiles(d), NoMoreCalc(d), page'[d].name = page[d].name
  PROVE  \A X : Awaits(d, X) => Awaits(d, X)'
<1> SUFFICES ASSUME NEW X, Awaits(d, X) PROVE Awaits(d, X)'
  OBVIOUS
<1> DEFINE k == memo[d][page[d].name]
<1>1. ASSUME NEW x \in X, NEW l \in CalcLoops, NEW i \in 1..Len(calcQueue'[l]),
             calcQueue'[l][i].client = d, calcQueue'[l][i].file = k, calcQueue'[l][i].fn = "update"
      PROVE  calcQueue'[l][i].chunk < x
  <2>1. PICK j \in 1..Len(calcQueue[l]) : calcQueue[l][j] = calcQueue'[l][i]
    BY <1>1 DEF NoMoreCalc, NoMoreFor, NoneNew
  <2>2. QED
    BY <1>1, <2>1 DEF Awaits, CalcAt
<1>2. QED
  BY <1>1 DEF Awaits, SameFiles, CalcAt

LEMMA DownStays ==
  ASSUME NEW d \in Clients, DownInv(d), SamePage(d), SameFiles(d), SameWrite(d)
  PROVE  DownInv(d)'
<1> Home[d] \in IoLoops
  BY UploadAssumption
<1>1. WritesOf(d)' => WritesOf(d)
  BY DEF SameWrite, WritesOf
<1>2. QED
  BY <1>1 DEF DownInv, SamePage, SameFiles

LEMMA WriteStays ==
  ASSUME NEW d \in Clients, SameWrite(d)
  PROVE  WritesOf(d)' => WritesOf(d) /\ writing'[Home[d]] = writing[Home[d]]
  BY UploadAssumption DEF SameWrite, WritesOf

LEMMA TurnStays ==
  ASSUME TypeInv, NEW d \in Clients, OnceInv(d), TurnInv(d),
         NoMoreCalc(d), NoMoreIo(d), SamePage(d), SameWrite(d)
  PROVE  TurnInv(d)'
<1>1. /\ Judging(d)' => Judging(d)
      /\ Sending(d)' => Sending(d)
      /\ Streaming(d)' => Streaming(d)
  BY FunctorsStay
<1>2. QED
  BY <1>1, WriteStays DEF TurnInv, SamePage

LEMMA ReplyStays ==
  ASSUME TypeInv, TypeInv', NEW d \in Clients, ReplyInv(d), SamePage(d), SameRows(d)
  PROVE  ReplyInv(d)'
  BY RowsStay DEF ReplyInv, SamePage

LEMMA UploadStays ==
  ASSUME TypeInv, TypeInv', NEW d \in Clients, CalcInv(d), IoInv(d), OnceInv(d), UploadInv(d),
         SameCalc(d), SameIo(d), SamePage(d), SameFiles(d), SameWrite(d), SameRows(d)
  PROVE  UploadInv(d)'
<1> DEFINE h == Home[d]
<1> h \in IoLoops
  BY UploadAssumption
<1>1. NoMoreCalc(d) /\ NoMoreIo(d)
  BY SameHasNoMore DEF SameCalc, SameIo, NoMoreCalc, NoMoreIo
<1>2. \A X : Awaits(d, X) => Awaits(d, X)'
  BY <1>1, AwaitsStays DEF SamePage
<1>3. \A n \in Names : Recorded(d, n) => Recorded(d, n)'
  BY RowsStay
<1>4. Ready(d)' => Ready(d)
  BY DEF Ready, SamePage
<1>5. \A l \in CalcLoops : \A i \in 1..Len(calcQueue'[l]) :
        JudgeAt(d, l, i)' => files'[d][calcQueue'[l][i].file].name = page'[d].name
  BY SMTT(30), <1>1, FunctorsStay DEF UploadInv, SamePage, SameFiles, JudgeAt, CalcAt
<1>6. ASSUME NEW i \in 1..Len(ioQueue'[h]), SendAt(d, i)', ioQueue'[h][i].status = "ok"
      PROVE  \/ Recorded(d, page[d].name)'
             \/ \E j \in 1..(i - 1) :
                  /\ IoAt(d, j)' /\ ioQueue'[h][j].fn = "updateDataBase"
                  /\ files'[d][ioQueue'[h][j].file].name = page'[d].name
  <2>1. PICK s \in {0, 1} : NoneNew(d, ioQueue[h], ioQueue'[h], s) /\ NoneGone(d, ioQueue[h], ioQueue'[h], s)
    BY DEF SameIo, SameFor
  <2>2. i + s \in 1..Len(ioQueue[h]) /\ ioQueue[h][i + s] = ioQueue'[h][i] /\ SendAt(d, i + s)
    BY <1>6, <2>1 DEF NoneNew, SendAt, IoAt
  <2>3. PICK e \in 1..Len(ioQueue[h]) : e = i + s
    BY <2>2
  <2>4. SendAt(d, e) /\ ioQueue[h][e].status = "ok"
    BY <1>6, <2>2, <2>3
  <2>5. \/ Recorded(d, page[d].name)
        \/ \E j \in 1..(e - 1) :
             /\ IoAt(d, j) /\ ioQueue[h][j].fn = "updateDataBase"
             /\ files[d][ioQueue[h][j].file].name = page[d].name
    BY <2>4 DEF UploadInv
  <2>6. CASE Recorded(d, page[d].name)
    <3>1. page[d].name \in Names
      BY <2>6 DEF Recorded, TypeInv
    <3>2. QED
      BY <3>1, <1>3, <2>6 DEF SamePage, Recorded
  <2>7. CASE \E j \in 1..(e - 1) :
               /\ IoAt(d, j) /\ ioQueue[h][j].fn = "updateDataBase"
               /\ files[d][ioQueue[h][j].file].name = page[d].name
    <3>1. PICK j \in 1..(e - 1) :
            /\ IoAt(d, j) /\ ioQueue[h][j].fn = "updateDataBase"
            /\ files[d][ioQueue[h][j].file].name = page[d].name
      BY <2>7
    <3>2. j - s \in 1..Len(ioQueue'[h]) /\ ioQueue'[h][j - s] = ioQueue[h][j]
      BY <2>1, <3>1 DEF NoneGone, IoAt
    <3>3. j - s \in 1..(i - 1) /\ IoAt(d, j - s)'
      BY <2>3, <3>1, <3>2 DEF IoAt
    <3>4. QED
      BY <3>1, <3>2, <3>3 DEF SamePage, SameFiles
  <2>8. QED
    BY <2>5, <2>6, <2>7
<1>7. WritesOf(d)' => WritesOf(d) /\ writing'[h] = writing[h]
  BY WriteStays
<1>8. page'[d] = page[d] /\ request'[d] = request[d] /\ memo'[d] = memo[d]
  BY DEF SamePage, SameFiles
<1> HIDE DEF h
<1>9. Ready(d)' =>
       /\ page'[d].left # {} => Awaits(d, page[d].left)'
       /\ page'[d].left = {} /\ Storable(page'[d].name) => Recorded(d, page[d].name)'
  <2> SUFFICES ASSUME Ready(d)
               PROVE  /\ page[d].left # {} => Awaits(d, page[d].left)'
                      /\ page[d].left = {} /\ Storable(page[d].name) => Recorded(d, page[d].name)'
    BY <1>4, <1>8
  <2>1. page[d].left # {} => Awaits(d, page[d].left)'
    BY <1>2, <1>8 DEF UploadInv
  <2>2. Recorded(d, page[d].name) => page[d].name \in Names
    BY DEF Recorded, TypeInv
  <2>3. QED
    BY <1>3, <1>8, <2>1, <2>2 DEF UploadInv
<1>10. request'[d] # None /\ page'[d].doing = "chunk" => Awaits(d, page[d].left \cup {request[d].chunk})'
  BY <1>2, <1>8 DEF UploadInv
<1>11. WritesOf(d)' => Awaits(d, page[d].left \cup {writing[Home[d]].chunk})'
  BY <1>2, <1>7, <1>8 DEF UploadInv, h
<1>12. QED
  BY <1>5, <1>6, <1>7, <1>8, <1>9, <1>10, <1>11 DEF UploadInv, IsNext, h

(* No file of c is dropped, nor loses what it has.                         *)
FilesKept(c) ==
  \A k \in 1..Len(files[c]) :
    /\ k \in 1..Len(files'[c])
    /\ files'[c][k].name = files[c][k].name /\ files'[c][k].mode = files[c][k].mode
    /\ files[c][k].full \subseteq files'[c][k].full
    /\ Whole(c, k) => Whole(c, k)'

LEMMA DownloadStays ==
  ASSUME TypeInv, NEW d \in Clients, OnceInv(d), DownloadInv(d),
         NoMoreCalc(d), NoMoreIo(d), SamePage(d), FileInv(d), FilesKept(d), memo'[d] = memo[d]
  PROVE  DownloadInv(d)'
<1> DEFINE h == Home[d]
<1> h \in IoLoops
  BY UploadAssumption
<1> SUFFICES ASSUME page[d].doing = "download" PROVE DownloadInv(d)'
  BY DEF DownloadInv, SamePage
<1>1. Streaming(d)' => Streaming(d)
  BY FunctorsStay
<1>2. \A n, e : Sent(d, n, e) => Sent(d, n, e)'
  BY DEF Sent, SamePage
<1>3. \A n \in Names : /\ Opened(d, n) => Opened(d, n)'
                       /\ ~Unfinished(d, n) => ~Unfinished(d, n)'
  <2>1. files[d] \in Seq(Files)
    BY DEF TypeInv
  <2>2. Len(files[d]) \in Nat
    BY <2>1, LenProperties
  <2>3. \A n \in Names : memo[d][n] # 0 =>
          /\ memo[d][n] \in 1..Len(files[d]) /\ memo'[d][n] = memo[d][n]
          /\ files'[d][memo[d][n]].mode = files[d][memo[d][n]].mode
    BY <2>2 DEF FileInv, FilesKept
  <2>4. QED
    BY <2>3 DEF Opened, Unfinished
<1>4. ASSUME NEW i \in 1..Len(ioQueue'[h]), StreamAt(d, i)'
      PROVE  \E j \in 1..Len(ioQueue[h]) : StreamAt(d, j) /\ ioQueue[h][j] = ioQueue'[h][i]
  BY <1>4 DEF NoMoreIo, NoMoreFor, NoneNew, StreamAt, IoAt
<1>5. request'[d] # None =>
        body'[d] = <<>> /\ request'[d].name \in listed'[d] /\ ~Unfinished(d, request[d].name)'
  <2>1. listed[d] \subseteq Names
    BY DEF TypeInv
  <2>2. QED
    BY <1>3, <2>1 DEF DownloadInv, SamePage
<1>6. ASSUME Streaming(d)' \/ reply'[d] # <<>>
      PROVE  \/ reply'[d] = <<Answer("bad", {})>> /\ body'[d] = <<>> /\ ~Streaming(d)'
             \/ \E n \in Names : \E e \in Nat :
                  /\ Sent(d, n, e)'
                  /\ \A i \in 1..Len(ioQueue'[h]) : StreamAt(d, i)' =>
                       /\ ioQueue'[h][i].name = n /\ ioQueue'[h][i].index = e
                       /\ e < Size[n] /\ Opened(d, n)'
  <2>1. CASE reply[d] = <<Answer("bad", {})>> /\ body[d] = <<>> /\ ~Streaming(d)
    BY <1>1, <2>1 DEF SamePage
  <2>2. CASE \E n \in Names : \E e \in Nat :
               /\ Sent(d, n, e)
               /\ \A i \in 1..Len(ioQueue[h]) : StreamAt(d, i) =>
                    /\ ioQueue[h][i].name = n /\ ioQueue[h][i].index = e
                    /\ e < Size[n] /\ Opened(d, n)
    <3>1. PICK n \in Names, e \in Nat :
               /\ Sent(d, n, e)
               /\ \A i \in 1..Len(ioQueue[h]) : StreamAt(d, i) =>
                    /\ ioQueue[h][i].name = n /\ ioQueue[h][i].index = e
                    /\ e < Size[n] /\ Opened(d, n)
      BY <2>2
    <3> HIDE DEF h
    <3>2. Sent(d, n, e)'
      BY <1>2, <3>1
    <3>3. \A i \in 1..Len(ioQueue'[h]) : StreamAt(d, i)' =>
            /\ ioQueue'[h][i].name = n /\ ioQueue'[h][i].index = e
            /\ e < Size[n] /\ Opened(d, n)'
      BY <1>3, <1>4, <3>1
    <3>4. QED
      BY <3>2, <3>3
  <2>3. QED
    BY <1>1, <1>6, <2>1, <2>2 DEF DownloadInv, SamePage
<1>7. QED
  BY <1>5, <1>6 DEF DownloadInv

LEMMA BodyStays ==
  ASSUME NEW d \in Clients, BodyInv(d), SamePage(d)
  PROVE  BodyInv(d)'
  BY DEF BodyInv, WholeDownload, SamePage

LEMMA ToldStays ==
  ASSUME TypeInv, TypeInv', NEW d \in Clients, ToldInv(d), SameRows(d),
         \A n \in Names : <<d, n>> \in told' => <<d, n>> \in told
  PROVE  ToldInv(d)'
  BY RowsStay DEF ToldInv

(***************************************************************************)
(* A step of another connection leaves d's part of the invariant as it is. *)
(***************************************************************************)
Untouched(d) ==
  /\ SamePage(d) /\ SameFiles(d) /\ SameCalc(d) /\ SameIo(d) /\ SameWrite(d) /\ SameRows(d)
  /\ \A n \in Names : <<d, n>> \in told' => <<d, n>> \in told

LEMMA OthersStay ==
  ASSUME TypeInv, TypeInv', NEW d \in Clients, ClientInv(d), Untouched(d)
  PROVE  ClientInv(d)'
<1> USE DEF Untouched
<1>1. NoMoreCalc(d) /\ NoMoreIo(d)
  BY SameHasNoMore DEF SameCalc, SameIo, NoMoreCalc, NoMoreIo
<1>2. FileInv(d)' /\ CalcInv(d)' /\ IoInv(d)' /\ DownInv(d)'
  BY <1>1, FilesStay, CalcStays, IoStays, DownStays DEF ClientInv, SameFiles, SameRows
<1>3. ToldInv(d)' /\ BodyInv(d)'
  BY ToldStays, BodyStays DEF ClientInv
<1>4. ASSUME up[d]
      PROVE  OnceInv(d)' /\ TurnInv(d)' /\ ReplyInv(d)' /\ UploadInv(d)' /\ DownloadInv(d)'
  <2>1. FilesKept(d) /\ memo'[d] = memo[d]
    BY DEF FilesKept, SameFiles, Whole
  <2>2. QED
    BY <1>1, <1>4, <2>1, FunctorsStay, TurnStays, ReplyStays, UploadStays, DownloadStays DEF ClientInv
<1>5. QED
  BY <1>2, <1>3, <1>4 DEF ClientInv, SamePage

-----------------------------------------------------------------------------
(***************************************************************************)
(* The pages.  Their steps leave the server alone.                         *)
(***************************************************************************)
NothingOwed(c) == ~WritesOf(c) /\ ~Judging(c) /\ ~Sending(c) /\ ~Streaming(c)

LEMMA PageIsUp ==
  ASSUME TypeInv, NEW c \in Clients, ClientInv(c), page[c].doing # "closed" \/ reply[c] # <<>>
  PROVE  /\ up[c] /\ OnceInv(c) /\ TurnInv(c) /\ ReplyInv(c) /\ UploadInv(c) /\ DownloadInv(c)
         /\ page[c].doing \notin {"chunk", "download"} => NothingOwed(c) 
         /\ page[c].doing # "download" /\ reply[c] # <<>> => NothingOwed(c)
         /\ page[c].doing \in {"idle", "ready"} => request[c] = None /\ reply[c] = <<>>
         /\ reply[c] # <<>> => request[c] = None
<1>1. up[c]
  BY DEF TypeInv, ClientInv, DownInv
<1>2. OnceInv(c) /\ TurnInv(c) /\ ReplyInv(c) /\ UploadInv(c) /\ DownloadInv(c)
  BY <1>1 DEF ClientInv
<1>3. QED
  BY <1>1, <1>2 DEF NothingOwed, TurnInv, ReplyInv, Waits

LEMMA UploadRests ==
  ASSUME TypeInv', NEW c \in Clients, NothingOwed(c)', page'[c].doing \notin {"info", "ready", "chunk"}
  PROVE  UploadInv(c)'
  BY DEF UploadInv, NothingOwed, Judging, Sending, Ready, SendAt, JudgeAt, CalcAt, IoAt

LEMMA PageMoves ==
  ASSUME ServerInv, TypeInv', NEW c \in Clients, up[c],
         UNCHANGED <<up, files, memo, writing, ioQueue, calcQueue, database, lost>>,
         \A d \in Clients \ {c} : SamePage(d) /\ \A n \in Names : <<d, n>> \in told' => <<d, n>> \in told,
         TurnInv(c)', ReplyInv(c)', UploadInv(c)', DownloadInv(c)', ToldInv(c)', BodyInv(c)'
  PROVE  ServerInv'
<1>1. ASSUME NEW d \in Clients
      PROVE  SameFiles(d) /\ SameCalc(d) /\ SameIo(d) /\ SameWrite(d) /\ SameRows(d)
  <2>1. SameCalc(d) /\ SameIo(d)
    BY SameItself DEF SameCalc, SameIo, TypeInv, ServerInv
  <2>2. QED
    BY <2>1 DEF SameFiles, SameWrite, SameRows, Free
<1>2. ASSUME NEW d \in Clients, d # c PROVE ClientInv(d)'
  <2>1. TypeInv /\ ClientInv(d)
    BY DEF ServerInv
  <2>2. Untouched(d)
    BY <1>1, <1>2 DEF Untouched
  <2>3. QED
    BY <2>1, <2>2, OthersStay
<1>3. ClientInv(c)'
  <2>1. TypeInv /\ ClientInv(c) /\ OnceInv(c)
    BY DEF ServerInv, ClientInv
  <2>2. FileInv(c)' /\ CalcInv(c)' /\ IoInv(c)' /\ OnceInv(c)'
    <3>1. NoMoreCalc(c) /\ NoMoreIo(c)
      BY <1>1, SameHasNoMore DEF SameCalc, SameIo, NoMoreCalc, NoMoreIo
    <3>2. QED
      BY <1>1, <2>1, <3>1, FilesStay, CalcStays, IoStays, FunctorsStay DEF ClientInv, SameFiles, SameRows
  <2>3. DownInv(c)'
    BY DEF DownInv
  <2>4. QED
    BY <2>2, <2>3 DEF ClientInv
<1>4. QED
  BY <1>2, <1>3 DEF ServerInv

LEMMA SendFileInfoPreserves ==
  ASSUME ServerInv, NEW c \in Clients, NEW n \in Names, SendFileInfo(c, n), UNCHANGED serverVars
  PROVE  ServerInv'
<1> USE DEF pageVars, fileVars, databaseVars, serverVars
<1>1. TypeInv /\ ClientInv(c)
  BY DEF ServerInv
<1>2. /\ up[c] /\ TurnInv(c) /\ ReplyInv(c) /\ NothingOwed(c)
      /\ request[c] = None /\ reply[c] = <<>>
  BY <1>1, PageIsUp DEF SendFileInfo
<1>3. /\ page'[c] = [doing |-> "info", name |-> n, left |-> Chunks(n)]
      /\ request'[c] = [post |-> "info", name |-> n]
      /\ \A d \in Clients \ {c} : page'[d] = page[d] /\ request'[d] = request[d]
      /\ UNCHANGED <<told, reply, up, files, memo, writing, ioQueue, calcQueue, database, lost,
                     verified, listed, body>>
  BY <1>1 DEF SendFileInfo, TypeInv
<1>4. TypeInv'
  <2>1. page'[c] \in Pages /\ request'[c] \in Requests
    BY <1>3, UploadAssumption DEF Pages, Doings, Waits, Requests, Chunks
  <2>2. page' \in [Clients -> Pages] /\ request' \in [Clients -> Requests \cup {None}]
    BY <1>1, <2>1 DEF SendFileInfo, TypeInv
  <2>3. left' \in [Clients -> Nat]
    BY <1>1 DEF SendFileInfo, TypeInv
  <2>4. QED
    BY <1>1, <1>3, <2>2, <2>3 DEF TypeInv
<1>5. NothingOwed(c)'
  BY <1>2, <1>3 DEF NothingOwed, WritesOf, Free, Judging, Sending, Streaming, JudgeAt, SendAt, StreamAt, CalcAt, IoAt
<1>6. TurnInv(c)'
  BY <1>2, <1>3, <1>5 DEF TurnInv, NothingOwed, Waits
<1>7. ReplyInv(c)'
  BY <1>2, <1>3 DEF ReplyInv, Rows
<1>8. UploadInv(c)'
  <2>1. page'[c].doing = "info" /\ page'[c].name = n /\ page'[c].left = Chunks(n) /\ request'[c].name = n
        /\ reply'[c] = <<>>
    BY <1>2, <1>3
  <2>2. ~Ready(c)'
    BY <2>1 DEF Ready
  <2>3. ~WritesOf(c)' /\ ~Judging(c)' /\ ~Sending(c)'
    BY <1>5 DEF NothingOwed
  <2>4. \A l \in CalcLoops : \A i \in 1..Len(calcQueue'[l]) : ~JudgeAt(c, l, i)'
    BY <2>3 DEF Judging
  <2>5. \A i \in 1..Len(ioQueue'[Home[c]]) : ~SendAt(c, i)'
    BY <2>3 DEF Sending
  <2>6. QED
    BY <2>1, <2>2, <2>3, <2>4, <2>5 DEF UploadInv
<1>9. DownloadInv(c)' /\ ToldInv(c)' /\ BodyInv(c)'
  BY <1>1, <1>3 DEF ClientInv, DownloadInv, ToldInv, BodyInv, Recorded, WholeDownload
<1>10. QED
  BY <1>2, <1>3, <1>4, <1>6, <1>7, <1>8, <1>9, PageMoves DEF SamePage

(* The functors are where they were, and so is what nobody owes.           *)
LEMMA FunctorsRest ==
  ASSUME NEW c \in Clients, UNCHANGED <<writing, ioQueue, calcQueue>>
  PROVE  /\ (NothingOwed(c)' <=> NothingOwed(c)) /\ (WritesOf(c)' <=> WritesOf(c))
         /\ (Judging(c)' <=> Judging(c)) /\ (Sending(c)' <=> Sending(c))
         /\ (Streaming(c)' <=> Streaming(c))
  BY DEF NothingOwed, WritesOf, Free, Judging, Sending, Streaming, JudgeAt, SendAt, StreamAt, CalcAt, IoAt

LEMMA AwaitsRests ==
  ASSUME NEW c \in Clients, UNCHANGED <<files, memo, calcQueue>>, page'[c].name = page[c].name
  PROVE  \A X : Awaits(c, X)' <=> Awaits(c, X)
  BY DEF Awaits, CalcAt

LEMMA SendChunkPreserves ==
  ASSUME ServerInv, NEW c \in Clients, NEW i, SendChunk(c, i), UNCHANGED serverVars
  PROVE  ServerInv'
<1> USE DEF pageVars, fileVars, databaseVars, serverVars
<1>1. TypeInv /\ ClientInv(c)
  BY DEF ServerInv
<1>2. /\ up[c] /\ TurnInv(c) /\ ReplyInv(c) /\ UploadInv(c) /\ NothingOwed(c)
      /\ request[c] = None /\ reply[c] = <<>>
  BY <1>1, PageIsUp DEF SendChunk
<1>3. /\ page[c] \in Pages /\ page[c].doing = "ready" /\ i \in page[c].left
      /\ \A j \in page[c].left : i <= j
  BY <1>1 DEF SendChunk, TypeInv
<1>4. /\ page'[c] = [doing |-> "chunk", name |-> page[c].name, left |-> page[c].left \ {i}]
      /\ request'[c] = [post |-> "chunk", name |-> page[c].name, chunk |-> i]
      /\ \A d \in Clients \ {c} : page'[d] = page[d] /\ request'[d] = request[d]
      /\ UNCHANGED <<left, told, reply, up, files, memo, writing, ioQueue, calcQueue, database, lost,
                     verified, listed, body>>
  BY <1>1, <1>3 DEF SendChunk, TypeInv, Pages
<1>5. page[c].name \in Names /\ page[c].left \subseteq Nat
  BY <1>2, <1>3 DEF UploadInv, Pages
<1>6. TypeInv'
  <2>1. page'[c] \in Pages /\ request'[c] \in Requests
    BY <1>3, <1>4, <1>5 DEF Pages, Doings, Waits, Requests
  <2>2. page' \in [Clients -> Pages] /\ request' \in [Clients -> Requests \cup {None}]
    BY <1>1, <2>1 DEF SendChunk, TypeInv
  <2>3. QED
    BY <1>1, <1>4, <2>2 DEF TypeInv
<1>7. NothingOwed(c)'
  BY <1>2, <1>4, FunctorsRest
<1>8. TurnInv(c)'
  BY <1>2, <1>4, <1>7 DEF TurnInv, NothingOwed, Waits
<1>9. ReplyInv(c)'
  BY <1>2, <1>4 DEF ReplyInv, Rows
<1>10. UploadInv(c)'
  <2>1. Awaits(c, page[c].left)
    BY <1>2, <1>3 DEF UploadInv, Ready
  <2>2. page'[c].left \cup {request'[c].chunk} = page[c].left
    BY <1>3, <1>4
  <2>3. \A X : Awaits(c, X)' <=> Awaits(c, X)
    BY <1>4, AwaitsRests
  <2>4. Awaits(c, page[c].left \cup {request[c].chunk})'
    BY <2>1, <2>2, <2>3
  <2>5. IsNext(c, request[c].chunk)'
    BY <1>3, <1>4, <1>5 DEF IsNext
  <2>6. ~Ready(c)'
    BY <1>2, <1>4 DEF Ready
  <2>7. /\ ~WritesOf(c)'
        /\ \A l \in CalcLoops : \A j : ~JudgeAt(c, l, j)'
        /\ \A j : ~SendAt(c, j)'
    BY <1>7 DEF NothingOwed, Judging, Sending, SendAt, JudgeAt, CalcAt, IoAt
  <2>8. QED
    BY <1>4, <1>5, <2>4, <2>5, <2>6, <2>7 DEF UploadInv
<1>11. DownloadInv(c)' /\ ToldInv(c)' /\ BodyInv(c)'
  BY <1>1, <1>4 DEF ClientInv, DownloadInv, ToldInv, BodyInv, Recorded, WholeDownload
<1>12. QED
  BY <1>2, <1>4, <1>6, <1>8, <1>9, <1>10, <1>11, PageMoves DEF SamePage

LEMMA SucceedPreserves ==
  ASSUME ServerInv, NEW c \in Clients, Succeed(c), UNCHANGED serverVars
  PROVE  ServerInv'
<1> USE DEF pageVars, fileVars, databaseVars, serverVars
<1>1. TypeInv /\ ClientInv(c)
  BY DEF ServerInv
<1>2. /\ up[c] /\ TurnInv(c) /\ ReplyInv(c) /\ UploadInv(c) /\ NothingOwed(c)
      /\ request[c] = None /\ reply[c] = <<>>
  BY <1>1, PageIsUp DEF Succeed
<1>3. page[c] \in Pages /\ page[c].doing = "ready" /\ page[c].left = {}
  BY <1>1 DEF Succeed, TypeInv
<1>4. /\ page'[c] = [doing |-> "list", name |-> None, left |-> {}]
      /\ request'[c] = [post |-> "list"]
      /\ told' = told \cup {<<c, page[c].name>>}
      /\ \A d \in Clients \ {c} : page'[d] = page[d] /\ request'[d] = request[d]
      /\ UNCHANGED <<left, reply, up, files, memo, writing, ioQueue, calcQueue, database, lost,
                     verified, listed, body>>
  BY <1>1, <1>3 DEF Succeed, TypeInv, Pages, Idle
<1>5. page[c].name \in Names /\ (Storable(page[c].name) => Recorded(c, page[c].name))
  BY <1>2, <1>3 DEF UploadInv, Ready
<1>6. TypeInv'
  <2>1. page'[c] \in Pages /\ request'[c] \in Requests
    BY <1>4 DEF Pages, Doings, Waits, Requests
  <2>2. page' \in [Clients -> Pages] /\ request' \in [Clients -> Requests \cup {None}]
    BY <1>1, <2>1 DEF Succeed, TypeInv
  <2>3. QED
    BY <1>1, <1>4, <1>5, <2>2 DEF TypeInv
<1>7. NothingOwed(c)'
  BY <1>2, <1>4, FunctorsRest
<1>8. TurnInv(c)'
  BY <1>2, <1>4, <1>7 DEF TurnInv, NothingOwed, Waits
<1>9. ReplyInv(c)'
  BY <1>2, <1>4 DEF ReplyInv, Rows
<1>10. UploadInv(c)'
  BY <1>4, <1>6, <1>7, UploadRests
<1>11. DownloadInv(c)' /\ BodyInv(c)'
  BY <1>1, <1>4 DEF ClientInv, DownloadInv, BodyInv, WholeDownload
<1>12. ToldInv(c)'
  BY <1>1, <1>4, <1>5 DEF ClientInv, ToldInv, Recorded
<1>13. QED
  BY <1>2, <1>4, <1>6, <1>8, <1>9, <1>10, <1>11, <1>12, PageMoves DEF SamePage

LEMMA ReceivePreserves ==
  ASSUME ServerInv, NEW c \in Clients, Receive(c), UNCHANGED serverVars
  PROVE  ServerInv'
<1> USE DEF pageVars, fileVars, databaseVars, serverVars
<1>1. TypeInv /\ ClientInv(c)
  BY DEF ServerInv
<1>2. /\ up[c] /\ TurnInv(c) /\ ReplyInv(c) /\ UploadInv(c) /\ NothingOwed(c)
      /\ request[c] = None
  BY <1>1, PageIsUp DEF Receive
<1>3. page[c] \in Pages /\ page[c].doing \in {"info", "chunk"} /\ reply[c] # <<>>
  BY <1>1 DEF Receive, TypeInv
<1>4. PICK st \in {"ok", "bad"} : reply[c] = <<Answer(st, {})>>
  BY <1>2, <1>3 DEF ReplyInv
<1>5. Head(reply[c]).status = st /\ Tail(reply[c]) = <<>>
  BY <1>4 DEF Answer
<1>6. /\ page'[c] = IF st = "ok" THEN [page[c] EXCEPT !.doing = "ready"] ELSE Idle
      /\ reply'[c] = <<>>
      /\ \A d \in Clients \ {c} : page'[d] = page[d] /\ reply'[d] = reply[d]
      /\ UNCHANGED <<left, told, request, up, files, memo, writing, ioQueue, calcQueue, database, lost,
                     verified, listed, body>>
  BY <1>1, <1>5 DEF Receive, TypeInv
<1>7. TypeInv'
  <2>1. page'[c] \in Pages
    BY <1>3, <1>6 DEF Pages, Doings, Idle
  <2>2. page' \in [Clients -> Pages] /\ reply' \in [Clients -> Seq(Replying)]
    BY <1>1, <1>5, <1>6, <2>1, EmptySeq DEF Receive, TypeInv
  <2>3. QED
    BY <1>1, <1>6, <2>2 DEF TypeInv
<1>8. NothingOwed(c)'
  BY <1>2, <1>6, FunctorsRest
<1>9. TurnInv(c)'
  BY <1>2, <1>6, <1>8 DEF TurnInv, NothingOwed
<1>10. ReplyInv(c)'
  BY <1>2, <1>3, <1>6 DEF ReplyInv, Rows, Idle, Pages
<1>11. UploadInv(c)'
  <2>1. CASE st = "ok"
    <3>1. /\ page'[c].doing = "ready" /\ page'[c].name = page[c].name /\ page'[c].left = page[c].left
      BY <1>3, <1>6, <2>1 DEF Pages
    <3>2. Ready(c)
      BY <1>3, <1>5, <2>1 DEF Ready
    <3>3. /\ page[c].left # {} => Awaits(c, page[c].left)'
          /\ page[c].left = {} /\ Storable(page[c].name) => Recorded(c, page[c].name)'
      BY <1>2, <1>6, <3>1, <3>2, AwaitsRests DEF UploadInv, Recorded
    <3>4. QED
      BY <1>2, <1>3, <1>6, <1>8, <3>1, <3>3
         DEF UploadInv, NothingOwed, Judging, Sending, SendAt, JudgeAt, CalcAt, IoAt
  <2>2. CASE st # "ok"
    BY <1>6, <1>7, <1>8, <2>2, UploadRests DEF Idle
  <2>3. QED
    BY <2>1, <2>2
<1>12. DownloadInv(c)' /\ ToldInv(c)' /\ BodyInv(c)'
  <2>1. page'[c].doing # "download"
    BY <1>3, <1>6 DEF Pages, Idle
  <2>2. QED
    BY <1>1, <1>6, <2>1 DEF ClientInv, DownloadInv, ToldInv, BodyInv, Recorded, WholeDownload
<1>13. QED
  BY <1>2, <1>6, <1>7, <1>9, <1>10, <1>11, <1>12, PageMoves DEF SamePage

LEMMA AskPreserves ==
  ASSUME ServerInv, NEW c \in Clients, NEW req \in Requests, Ask(c, req),
         \/ req.post = "login" /\ body' = body
         \/ /\ req.post = "download" /\ req.name \in listed[c] /\ ~Unfinished(c, req.name)
            /\ body' = [body EXCEPT ![c] = <<>>]
  PROVE  ServerInv'
<1> USE DEF fileVars, databaseVars
<1>1. TypeInv /\ ClientInv(c)
  BY DEF ServerInv
<1>2. /\ up[c] /\ TurnInv(c) /\ ReplyInv(c) /\ NothingOwed(c)
      /\ request[c] = None /\ reply[c] = <<>>
  BY <1>1, PageIsUp DEF Ask
<1>3. /\ page'[c] = [doing |-> req.post, name |-> None, left |-> {}]
      /\ request'[c] = req
      /\ \A d \in Clients \ {c} : page'[d] = page[d] /\ request'[d] = request[d] /\ body'[d] = body[d]
      /\ body'[c] = IF req.post = "login" THEN body[c] ELSE <<>>
      /\ UNCHANGED <<told, reply, up, files, memo, writing, ioQueue, calcQueue, database, lost,
                     verified, listed>>
  BY <1>1 DEF Ask, TypeInv, Idle
<1>4. TypeInv'
  <2>1. page'[c] \in Pages /\ request'[c] \in Requests
    BY <1>3 DEF Pages, Doings, Waits
  <2>2. page' \in [Clients -> Pages] /\ request' \in [Clients -> Requests \cup {None}]
    BY <1>1, <2>1 DEF Ask, TypeInv
  <2>3. left' \in [Clients -> Nat]
    BY <1>1 DEF Ask, TypeInv
  <2>4. <<>> \in Seq(Replying)
    BY EmptySeq
  <2>5. body' \in [Clients -> Seq(Replying)]
    BY <1>1, <2>4 DEF TypeInv
  <2>6. QED
    BY <1>1, <1>3, <2>2, <2>3, <2>5 DEF TypeInv
<1>5. NothingOwed(c)'
  BY <1>2, <1>3, FunctorsRest
<1>6. TurnInv(c)'
  BY <1>2, <1>3, <1>5 DEF TurnInv, NothingOwed, Waits
<1>7. ReplyInv(c)'
  BY <1>2, <1>3 DEF ReplyInv, Rows
<1>8. UploadInv(c)'
  BY <1>3, <1>4, <1>5, UploadRests
<1>9. DownloadInv(c)'
  BY <1>2, <1>3, <1>5 DEF DownloadInv, NothingOwed, Unfinished
<1>10. ToldInv(c)' /\ BodyInv(c)'
  BY <1>1, <1>3, EmptySeq DEF ClientInv, ToldInv, BodyInv, Recorded, WholeDownload
<1>11. QED
  BY <1>2, <1>3, <1>4, <1>6, <1>7, <1>8, <1>9, <1>10, PageMoves DEF SamePage

LEMMA LogInPreserves ==
  ASSUME ServerInv, NEW c \in Clients, LogIn(c)
  PROVE  ServerInv'
<1>1. [post |-> "login"] \in Requests /\ [post |-> "login"].post = "login"
  BY DEF Requests
<1>2. QED
  BY <1>1, AskPreserves DEF LogIn

LEMMA FollowLinkPreserves ==
  ASSUME ServerInv, NEW c \in Clients, NEW n \in Names, FollowLink(c, n)
  PROVE  ServerInv'
<1> DEFINE req == [post |-> "download", name |-> n]
<1>1. req \in Requests /\ req.post = "download" /\ req.name = n
  BY DEF Requests
<1>2. n \in listed[c] /\ ~Unfinished(c, n) /\ Ask(c, req) /\ body' = [body EXCEPT ![c] = <<>>]
  BY DEF FollowLink
<1> HIDE DEF req
<1>3. QED
  BY <1>1, <1>2, AskPreserves

(***************************************************************************)
(* The pieces of a download.                                               *)
(***************************************************************************)
LEMMA SizeType == \A n \in Names : Size[n] \in Nat
  BY UploadAssumption

LEMMA PieceType ==
  ASSUME NEW n \in Names, NEW j \in Nat
  PROVE  /\ Piece(n, j) \in Replying
         /\ j < Size[n] => Piece(n, j).status = "data" /\ Piece(n, j) = Answer("data", j)
         /\ ~(j < Size[n]) => Piece(n, j).status = "end"
  BY SizeType DEF Piece, Answer, Replying, Contents, Statuses

LEMMA PiecesProperties ==
  ASSUME NEW n \in Names, NEW b \in Nat, NEW e \in Nat, b <= e
  PROVE  /\ Pieces(n, b, e) \in Seq(Replying) /\ Len(Pieces(n, b, e)) = e - b
         /\ \A i \in 1..(e - b) : Pieces(n, b, e)[i] = Piece(n, b + i - 1)
<1>1. e - b \in Nat
  OBVIOUS
<1>2. \A i \in 1..(e - b) : Piece(n, b + i - 1) \in Replying
  BY PieceType
<1>3. Pieces(n, b, e) \in [1..(e - b) -> Replying]
  BY <1>2 DEF Pieces
<1>4. QED
  BY <1>1, <1>3 DEF Pieces

LEMMA FirstPiece ==
  ASSUME NEW n \in Names, NEW b \in Nat, NEW e \in Nat, b < e
  PROVE  /\ Pieces(n, b, e) # <<>> /\ Head(Pieces(n, b, e)) = Piece(n, b)
         /\ Tail(Pieces(n, b, e)) = Pieces(n, b + 1, e)
<1>1. PICK q \in Seq(Replying) : /\ q = Pieces(n, b, e) /\ Len(q) = e - b
                                /\ \A i \in 1..(e - b) : q[i] = Piece(n, b + i - 1)
  BY PiecesProperties
<1>2. q # <<>>
  BY <1>1, EmptySeq
<1>3. /\ Head(q) = q[1] /\ Tail(q) \in Seq(Replying) /\ Len(Tail(q)) = Len(q) - 1
      /\ \A i \in 1..(Len(q) - 1) : Tail(q)[i] = q[i + 1]
  BY <1>2, HeadTail
<1>4. PICK m \in Nat : m = b + 1 /\ m <= e
  OBVIOUS
<1>5. /\ Pieces(n, m, e) \in Seq(Replying) /\ Len(Pieces(n, m, e)) = e - m
      /\ \A i \in 1..(e - m) : Pieces(n, m, e)[i] = Piece(n, m + i - 1)
  BY <1>4, PiecesProperties
<1>6. \A i \in 1..Len(Tail(q)) : Tail(q)[i] = Pieces(n, m, e)[i]
  <2> SUFFICES ASSUME NEW i \in 1..(e - m) PROVE Tail(q)[i] = Pieces(n, m, e)[i]
    BY <1>1, <1>3, <1>4
  <2>1. Tail(q)[i] = q[i + 1] /\ i + 1 \in 1..(e - b)
    BY <1>1, <1>3, <1>4
  <2>2. q[i + 1] = Piece(n, b + (i + 1) - 1)
    BY <1>1, <2>1
  <2>3. b + (i + 1) - 1 = m + i - 1
    BY <1>4
  <2>4. QED
    BY <1>5, <2>1, <2>2, <2>3
<1>7. Tail(q) = Pieces(n, m, e)
  BY SMTT(30), <1>1, <1>3, <1>4, <1>5, <1>6, SeqEqual
<1>8. QED
  BY <1>1, <1>2, <1>3, <1>4, <1>7

LEMMA LastPiece ==
  ASSUME NEW n \in Names, NEW b \in Nat, NEW e \in Nat, b <= e
  PROVE  Append(Pieces(n, b, e), Piece(n, e)) = Pieces(n, b, e + 1)
<1>1. PICK q \in Seq(Replying) : /\ q = Pieces(n, b, e) /\ Len(q) = e - b
                                /\ \A i \in 1..(e - b) : q[i] = Piece(n, b + i - 1)
  BY PiecesProperties
<1>2. PICK x \in Replying : x = Piece(n, e)
  BY PieceType
<1>3. /\ Append(q, x) \in Seq(Replying) /\ Len(Append(q, x)) = Len(q) + 1
      /\ \A i \in 1..Len(q) : Append(q, x)[i] = q[i]
      /\ Append(q, x)[Len(q) + 1] = x
  BY AppendProperties
<1>4. PICK m \in Nat : m = e + 1 /\ b <= m
  OBVIOUS
<1>5. /\ Pieces(n, b, m) \in Seq(Replying) /\ Len(Pieces(n, b, m)) = m - b
      /\ \A i \in 1..(m - b) : Pieces(n, b, m)[i] = Piece(n, b + i - 1)
  BY <1>4, PiecesProperties
<1>6. \A i \in 1..(m - b) : Append(q, x)[i] = Pieces(n, b, m)[i]
  <2> SUFFICES ASSUME NEW i \in 1..(m - b) PROVE Append(q, x)[i] = Pieces(n, b, m)[i]
    OBVIOUS
  <2>1. CASE i = m - b
    <3>1. b + i - 1 = e /\ i = Len(q) + 1
      BY <1>1, <1>4, <2>1
    <3>2. QED
      BY <1>2, <1>3, <1>5, <3>1
  <2>2. CASE i # m - b
    BY <1>1, <1>3, <1>4, <1>5, <2>2
  <2>3. QED
    BY <2>1, <2>2
<1>7. Append(q, x) = Pieces(n, b, m)
  <2>1. Len(Append(q, x)) = m - b
    BY <1>1, <1>3, <1>4
  <2>2. QED
    BY <1>3, <1>5, <1>6, <2>1, SeqEqual
<1>8. QED
  BY <1>1, <1>2, <1>4, <1>7

(* What a page has got of a file is the file, if it is the end.            *)
LEMMA SentIsWhole ==
  ASSUME NEW c \in Clients, NEW n \in Names, NEW b \in Nat, n \in listed'[c],
         body'[c] = Pieces(n, 0, b), b <= Size[n] + 1
  PROVE  BodyInv(c)'
<1>1. /\ Len(body'[c]) = b /\ \A i \in 1..b : body'[c][i] = Piece(n, i - 1)
  <2>1. PICK z \in Nat : z = 0 /\ z <= b
    OBVIOUS
  <2>2. /\ Len(Pieces(n, z, b)) = b - z
        /\ \A i \in 1..(b - z) : Pieces(n, z, b)[i] = Piece(n, z + i - 1)
    BY <2>1, PiecesProperties
  <2>3. \A i \in 1..b : z + i - 1 = i - 1
    BY <2>1
  <2>4. QED
    BY <2>1, <2>2, <2>3
<1>2. ASSUME NEW i \in 1..b, body'[c][i].status = "end" PROVE WholeDownload(c, i, n)'
  <2>1. i - 1 \in Nat /\ ~(i - 1 < Size[n])
    BY <1>1, <1>2, PieceType
  <2>2. i = Size[n] + 1
    BY <2>1, SizeType
  <2>3. ASSUME NEW j \in 1..(i - 1) PROVE body'[c][j] = Answer("data", j - 1)
    <3>1. j \in 1..b /\ j - 1 < Size[n]
      BY <2>2, SizeType
    <3>2. QED
      BY <1>1, <3>1 DEF Piece
  <2>4. QED
    BY <2>2, <2>3 DEF WholeDownload
<1>3. QED
  BY <1>1, <1>2 DEF BodyInv

(***************************************************************************)
(* What does not concern a download: the list grows.                       *)
(***************************************************************************)
LEMMA BodyRests ==
  ASSUME NEW c \in Clients, BodyInv(c), body'[c] = body[c], listed[c] \subseteq listed'[c]
  PROVE  BodyInv(c)'
  BY DEF BodyInv, WholeDownload

(* Taking the next answer to a login or a list.                            *)
LEMMA ReceiveShortPreserves ==
  ASSUME ServerInv, NEW c \in Clients, ReceiveAnswer(c), page[c].doing \in {"login", "list"}
  PROVE  ServerInv'
<1> USE DEF fileVars, databaseVars
<1>1. TypeInv /\ ClientInv(c)
  BY DEF ServerInv
<1>2. /\ up[c] /\ TurnInv(c) /\ ReplyInv(c) /\ NothingOwed(c)
      /\ request[c] = None
  BY <1>1, PageIsUp DEF ReceiveAnswer
<1> DEFINE st == Head(reply[c]).status
           cont == Head(reply[c]).content
           rest == Tail(reply[c])
<1>3. /\ page[c] \in Pages /\ reply[c] # <<>> /\ reply[c] \in Seq(Replying)
  BY <1>1 DEF ReceiveAnswer, TypeInv
<1>4. /\ page'[c] = [doing |-> IF page[c].doing = "login" /\ st \in {"redirect", "refused"}
                               THEN IF st = "redirect" THEN "list" ELSE "refused"
                               ELSE "idle",
                     name |-> None, left |-> {}]
      /\ request'[c] = IF page[c].doing = "login" /\ st = "redirect" THEN [post |-> "list"] ELSE request[c]
      /\ listed'[c] = IF page[c].doing = "list" /\ st = "ok" THEN cont ELSE listed[c]
      /\ reply'[c] = rest
      /\ \A d \in Clients \ {c} : /\ page'[d] = page[d] /\ request'[d] = request[d]
                                  /\ listed'[d] = listed[d] /\ reply'[d] = reply[d]
      /\ body' = body
      /\ UNCHANGED <<left, told, up, files, memo, writing, ioQueue, calcQueue, database, lost, verified>>
  <2>1. CASE page[c].doing = "login" /\ st = "redirect"
    BY <1>1, <2>1 DEF ReceiveAnswer, TypeInv, Idle
  <2>2. CASE page[c].doing = "login" /\ st = "refused"
    BY <1>1, <2>2 DEF ReceiveAnswer, TypeInv, Idle
  <2>3. CASE page[c].doing = "login" /\ st \notin {"redirect", "refused"}
    BY <1>1, <2>3 DEF ReceiveAnswer, TypeInv, Idle
  <2>4. CASE page[c].doing = "list"
    BY <1>1, <2>4 DEF ReceiveAnswer, TypeInv, Idle
  <2>5. QED
    BY <2>1, <2>2, <2>3, <2>4
<1>5. /\ st \in Statuses /\ rest \in Seq(Replying)
      /\ page[c].doing = "list" /\ st = "ok" =>
           cont \in SUBSET Names /\ listed[c] \subseteq cont /\ cont \subseteq Rows(c)
      /\ page[c].doing = "list" => rest = <<>>
      /\ page[c].doing = "login" => rest = <<>> \/ st = "refused"
  <2>1. st \in Statuses /\ rest \in Seq(Replying)
    <3>1. Head(reply[c]) \in Replying /\ rest \in Seq(Replying)
      BY <1>3, HeadTail
    <3>2. QED
      BY <3>1 DEF Replying
  <2>2. CASE page[c].doing = "login"
    <3>1. CASE \E x \in {Answer("redirect", {}), Answer("bad", {})} : reply[c] = <<x>>
      BY <2>1, <2>2, <3>1
    <3>2. CASE reply[c] = <<Answer("refused", {}), Answer("bad", {})>>
      BY <2>1, <2>2, <3>2 DEF Answer
    <3>3. QED
      BY <1>2, <1>3, <2>2, <3>1, <3>2 DEF ReplyInv
  <2>3. CASE page[c].doing = "list"
    <3>1. CASE reply[c] = <<Answer("bad", {})>>
      BY <2>1, <2>3, <3>1 DEF Answer
    <3>2. CASE \E names \in SUBSET Names :
                 reply[c] = <<Answer("ok", names)>> /\ listed[c] \subseteq names /\ names \subseteq Rows(c)
      BY <2>1, <2>3, <3>2 DEF Answer
    <3>3. QED
      BY <1>2, <1>3, <2>3, <3>1, <3>2 DEF ReplyInv
  <2>4. QED
    BY <2>2, <2>3, <2>1
<1>6. TypeInv'
  <2>1. page'[c] \in Pages /\ request'[c] \in Requests \cup {None} /\ listed'[c] \in SUBSET Names
    BY <1>1, <1>3, <1>4, <1>5 DEF Pages, Doings, Waits, Requests, TypeInv
  <2>2. page' \in [Clients -> Pages] /\ request' \in [Clients -> Requests \cup {None}]
    BY <1>1, <2>1 DEF ReceiveAnswer, TypeInv
  <2>3. listed' \in [Clients -> SUBSET Names] /\ reply' \in [Clients -> Seq(Replying)]
    BY <1>1, <1>5, <2>1 DEF ReceiveAnswer, TypeInv
  <2>4. QED
    BY <1>1, <1>4, <2>2, <2>3 DEF TypeInv
<1> HIDE DEF st, cont, rest
<1>7. NothingOwed(c)'
  BY <1>2, <1>4, FunctorsRest
<1>8. TurnInv(c)'
  BY <1>2, <1>3, <1>4, <1>5, <1>7 DEF TurnInv, NothingOwed, Waits
<1>9. ReplyInv(c)'
  BY <1>2, <1>4, <1>5 DEF ReplyInv, Rows
<1>10. UploadInv(c)'
  BY <1>4, <1>6, <1>7, UploadRests
<1>11. DownloadInv(c)' /\ ToldInv(c)' /\ BodyInv(c)'
  BY <1>1, <1>4, <1>5, BodyRests DEF ClientInv, DownloadInv, ToldInv, Recorded
<1>12. QED
  BY <1>2, <1>4, <1>6, <1>8, <1>9, <1>10, <1>11, PageMoves DEF SamePage

(* Taking the next piece of a download.                                    *)
LEMMA ReceivePiecePreserves ==
  ASSUME ServerInv, NEW c \in Clients, ReceiveAnswer(c), page[c].doing = "download"
  PROVE  ServerInv'
<1> USE DEF fileVars, databaseVars
<1>1. TypeInv /\ ClientInv(c)
  BY DEF ServerInv
<1>2. /\ up[c] /\ TurnInv(c) /\ ReplyInv(c) /\ DownloadInv(c)
      /\ request[c] = None
  BY <1>1, PageIsUp DEF ReceiveAnswer
<1> DEFINE h == Head(reply[c])
           ends == h.status \notin {"ok", "data"}
<1>3. /\ page[c] \in Pages /\ reply[c] # <<>> /\ reply[c] \in Seq(Replying) /\ body[c] \in Seq(Replying)
      /\ h \in Replying /\ Tail(reply[c]) \in Seq(Replying)
  BY <1>1, HeadTail DEF ReceiveAnswer, TypeInv
<1>4. /\ page'[c] = IF ends THEN Idle ELSE page[c]
      /\ reply'[c] = Tail(reply[c])
      /\ body'[c] = IF h.status \in {"data", "end"} THEN Append(body[c], h) ELSE body[c]
      /\ \A d \in Clients \ {c} : page'[d] = page[d] /\ reply'[d] = reply[d] /\ body'[d] = body[d]
      /\ UNCHANGED <<left, told, request, listed, up, files, memo, writing, ioQueue, calcQueue,
                     database, lost, verified>>
  <2>1. CASE h.status \in {"ok", "data"}
    BY <1>1, <2>1 DEF ReceiveAnswer, TypeInv
  <2>2. CASE h.status \notin {"ok", "data"}
    BY <1>1, <2>2 DEF ReceiveAnswer, TypeInv
  <2>3. QED
    BY <2>1, <2>2
<1>5. TypeInv'
  <2>1. page'[c] \in Pages
    BY <1>3, <1>4 DEF Pages, Doings, Idle
  <2>2. body'[c] \in Seq(Replying)
    BY <1>3, <1>4, AppendProperties
  <2>3. page' \in [Clients -> Pages] /\ reply' \in [Clients -> Seq(Replying)]
    BY <1>1, <1>3, <2>1 DEF ReceiveAnswer, TypeInv
  <2>4. body' \in [Clients -> Seq(Replying)]
    BY <1>1, <2>2 DEF ReceiveAnswer, TypeInv
  <2>5. QED
    BY <1>1, <1>4, <2>3, <2>4 DEF TypeInv
<1>6. ~WritesOf(c)' /\ ~Judging(c)' /\ ~Sending(c)' /\ (Streaming(c)' => Streaming(c))
  BY <1>2, <1>4, FunctorsRest DEF TurnInv
<1> HIDE DEF h, ends
<1>7. CASE reply[c] = <<Answer("bad", {})>> /\ body[c] = <<>> /\ ~Streaming(c)
  <2>1. h.status = "bad" /\ ends /\ Tail(reply[c]) = <<>>
    BY <1>7 DEF Answer, h, ends
  <2>2. page'[c] = Idle /\ reply'[c] = <<>> /\ body'[c] = body[c]
    BY <1>4, <2>1
  <2>3. NothingOwed(c)'
    BY <1>6, <1>7 DEF NothingOwed
  <2>4. TurnInv(c)' /\ ReplyInv(c)'
    BY <1>2, <1>4, <2>2, <2>3 DEF TurnInv, NothingOwed, ReplyInv, Rows, Idle
  <2>5. UploadInv(c)'
    BY <1>5, <2>2, <2>3, UploadRests DEF Idle
  <2>6. DownloadInv(c)' /\ ToldInv(c)' /\ BodyInv(c)'
    BY <1>1, <1>4, <2>2, BodyRests DEF ClientInv, DownloadInv, ToldInv, Recorded, Idle
  <2>7. QED
    BY <1>2, <1>4, <1>5, <2>4, <2>5, <2>6, PageMoves DEF SamePage
<1>8. ASSUME NEW n \in Names, NEW e \in Nat, Sent(c, n, e),
             \A i \in 1..Len(ioQueue[Home[c]]) : StreamAt(c, i) =>
               /\ ioQueue[Home[c]][i].name = n /\ ioQueue[Home[c]][i].index = e
               /\ e < Size[n] /\ Opened(c, n)
      PROVE  ServerInv'
  <2>1. PICK b \in Nat : b = Len(body[c]) /\ b <= e /\ e <= Size[n] + 1 /\ body[c] = Pieces(n, 0, b)
    BY <1>3, <1>8 DEF Sent
  <2>2. Size[n] \in Nat /\ n \in listed[c]
    BY <1>8, SizeType DEF Sent
  <2>3. \A i \in 1..Len(ioQueue'[Home[c]]) : StreamAt(c, i)' =>
           /\ ioQueue'[Home[c]][i].name = n /\ ioQueue'[Home[c]][i].index = e
           /\ e < Size[n] /\ Opened(c, n)'
    BY <1>4, <1>8 DEF StreamAt, IoAt, Opened
  <2>4. ASSUME ~ends, Sent(c, n, e)', BodyInv(c)' PROVE ServerInv'
    <3>1. page'[c] = page[c]
      BY <1>4, <2>4
    <3>2. TurnInv(c)' /\ ReplyInv(c)'
      BY <1>2, <1>4, <1>6, <3>1 DEF TurnInv, ReplyInv, Rows
    <3>3. UploadInv(c)'
      BY <1>4, <1>6, <3>1 DEF UploadInv, Ready, Judging, Sending, SendAt, JudgeAt, CalcAt, IoAt
    <3>4. DownloadInv(c)'
      BY <1>2, <1>4, <2>3, <2>4 DEF DownloadInv
    <3>5. ToldInv(c)'
      BY <1>1, <1>4 DEF ClientInv, ToldInv, Recorded
    <3>6. QED
      BY <1>2, <1>4, <1>5, <2>4, <3>2, <3>3, <3>4, <3>5, PageMoves DEF SamePage
  <2>5. CASE body[c] = <<>> /\ reply[c] = <<Answer("ok", {})>> \o Pieces(n, 0, e)
    <3>1. PICK q \in Seq(Replying) : q = Pieces(n, 0, e)
      BY PiecesProperties
    <3>2. Answer("ok", {}) \in Replying
      BY DEF Answer, Replying, Statuses, Contents
    <3>3. h = Answer("ok", {}) /\ Tail(reply[c]) = q
      BY <2>5, <3>1, <3>2 DEF h
    <3>4. h.status = "ok" /\ ~ends
      BY <3>3 DEF Answer, ends
    <3>5. body'[c] = <<>> /\ reply'[c] = Pieces(n, 0, e)
      BY <1>4, <2>5, <3>1, <3>3, <3>4
    <3>6. Sent(c, n, e)'
      BY <1>4, <1>8, <2>5, <3>5 DEF Sent
    <3>7. BodyInv(c)'
      BY <1>1, <1>4, <2>5, <3>5, BodyRests DEF ClientInv
    <3>8. QED
      BY <2>4, <3>4, <3>6, <3>7
  <2>6. CASE reply[c] = Pieces(n, b, e)
    <3>1. b < e
      <4>1. b <= e
        BY <2>1
      <4>2. \A z \in Nat : z <= e => Len(Pieces(n, z, e)) = e - z
        BY PiecesProperties
      <4>3. Len(reply[c]) # 0
        BY <1>3, EmptySeq
      <4>4. ASSUME b = e PROVE FALSE
        <5>1. Len(Pieces(n, b, e)) = 0
          BY <4>2, <4>4
        <5>2. QED
          BY <2>6, <4>3, <5>1
      <4>5. QED
        BY <4>1, <4>4
    <3>2. h = Piece(n, b) /\ Tail(reply[c]) = Pieces(n, b + 1, e)
      BY <2>6, <3>1, FirstPiece DEF h
    <3>3. h.status \in {"data", "end"}
      BY <3>2, PieceType
    <3>4. Append(body[c], h) = Pieces(n, 0, b + 1)
      <4>1. \A z \in Nat : z <= b => Append(Pieces(n, z, b), Piece(n, b)) = Pieces(n, z, b + 1)
        BY LastPiece
      <4>2. Append(Pieces(n, 0, b), Piece(n, b)) = Pieces(n, 0, b + 1)
        BY <4>1
      <4>3. QED
        BY <2>1, <3>2, <4>2
    <3>5. PICK a \in Nat : a = b + 1 /\ a <= e
      BY <3>1
    <3>6. body'[c] = Pieces(n, 0, a) /\ reply'[c] = Pieces(n, a, e)
      BY <1>4, <3>2, <3>3, <3>4, <3>5
    <3>7. Len(body'[c]) = a
      <4>1. \A z \in Nat : z <= a => Len(Pieces(n, z, a)) = a - z
        BY PiecesProperties
      <4>2. QED
        BY <3>6, <4>1
    <3>8. n \in listed'[c] /\ a <= Size[n] + 1
      BY <1>4, <2>1, <2>2, <3>5
    <3>9. BodyInv(c)'
      BY <3>6, <3>8, SentIsWhole
    <3>10. CASE b < Size[n]
      <4>1. ~ends
        BY <3>2, <3>10, PieceType DEF ends
      <4>2. Sent(c, n, e)'
        BY <2>1, <2>2, <3>5, <3>6, <3>7, <3>8 DEF Sent
      <4>3. QED
        BY <2>4, <3>9, <4>1, <4>2
    <3>11. CASE ~(b < Size[n])
      <4>1. ends /\ e = a /\ ~(e < Size[n])
        <5>1. h.status = "end"
          BY <3>2, <3>11, PieceType
        <5>2. e = a /\ ~(e < Size[n])
          <6>1. PICK z \in Nat : z = Size[n]
            BY <2>2
          <6>2. ~(b < z)
            BY <3>11, <6>1
          <6>3. e <= z + 1
            BY <2>1, <6>1
          <6>4. QED
            BY <3>5, <6>1, <6>2, <6>3
        <5>3. QED
          BY <5>1, <5>2 DEF ends
      <4>2. page'[c] = Idle
        BY <1>4, <4>1
      <4>3. reply'[c] = <<>>
        <5>1. Pieces(n, e, e) \in Seq(Replying) /\ Len(Pieces(n, e, e)) = e - e
          BY PiecesProperties
        <5>2. QED
          BY <3>6, <4>1, <5>1, EmptySeq
      <4>4. ~Streaming(c)
        BY <1>8, <4>1 DEF Streaming
      <4>5. NothingOwed(c)'
        BY <1>6, <4>4 DEF NothingOwed
      <4>6. TurnInv(c)' /\ ReplyInv(c)'
        BY <1>2, <1>4, <4>2, <4>3, <4>5 DEF TurnInv, NothingOwed, ReplyInv, Rows, Idle
      <4>7. UploadInv(c)'
        BY <1>5, <4>2, <4>5, UploadRests DEF Idle
      <4>8. DownloadInv(c)' /\ ToldInv(c)'
        BY <1>1, <1>4, <4>2 DEF ClientInv, DownloadInv, ToldInv, Recorded, Idle
      <4>9. QED
        BY <1>2, <1>4, <1>5, <3>9, <4>6, <4>7, <4>8, PageMoves DEF SamePage
    <3>12. QED
      BY <3>10, <3>11
  <2>7. QED
    BY <1>8, <2>1, <2>5, <2>6 DEF Sent
<1>9. QED
  BY <1>2, <1>3, <1>7, <1>8 DEF DownloadInv

LEMMA ReceiveAnswerPreserves ==
  ASSUME ServerInv, NEW c \in Clients, ReceiveAnswer(c)
  PROVE  ServerInv'
  BY ReceiveShortPreserves, ReceivePiecePreserves DEF ReceiveAnswer

-----------------------------------------------------------------------------
(***************************************************************************)
(* The server.  A step is for one connection.                              *)
(***************************************************************************)
LEMMA ActorMoves ==
  ASSUME ServerInv, TypeInv', NEW c \in Clients, ClientInv(c)',
         \A d \in Clients \ {c} : Untouched(d)
  PROVE  ServerInv'
  BY OthersStay DEF ServerInv

LEMMA CalcRests ==
  ASSUME TypeInv, UNCHANGED calcQueue, NEW d
  PROVE  SameCalc(d) /\ NoMoreCalc(d)
<1>1. SameCalc(d)
  BY SameItself DEF SameCalc, TypeInv
<1>2. QED
  BY <1>1, SameHasNoMore DEF SameCalc, NoMoreCalc

LEMMA IoRests ==
  ASSUME TypeInv, UNCHANGED ioQueue, NEW d
  PROVE  SameIo(d) /\ NoMoreIo(d)
<1>1. SameIo(d)
  BY SameItself DEF SameIo, TypeInv
<1>2. QED
  BY <1>1, SameHasNoMore DEF SameIo, NoMoreIo

(* Its digest and its judgement are those it had.                          *)
DigestKept(c, k) ==
  /\ files'[c][k].verdict = files[c][k].verdict /\ files'[c][k].calcIndex = files[c][k].calcIndex
  /\ files[c][k].owner # None => files'[c][k].owner = files[c][k].owner

LEMMA CalcKept ==
  ASSUME NEW c \in Clients, FilesKept(c), CalcInv(c), NEW l \in CalcLoops,
         NEW i \in 1..Len(calcQueue[l]), calcQueue[l][i].client = c,
         DigestKept(c, calcQueue[l][i].file),
         \A j \in 1..i : calcQueue'[l][j] = calcQueue[l][j]
  PROVE  CalcOk(c, l, i)'
<1>1. CalcOk(c, l, i)
  BY DEF CalcInv
<1>2. PICK f : f = calcQueue[l][i] /\ f = calcQueue'[l][i]
  OBVIOUS
<1>3. PICK k \in 1..Len(files[c]) : k = f.file
  BY <1>1, <1>2 DEF CalcOk
<1>4. files[c][k].owner # None
  BY <1>1, <1>2, <1>3, UploadAssumption DEF CalcOk
<1>5. /\ k \in 1..Len(files'[c])
      /\ files'[c][k].owner = l /\ files'[c][k].verdict = "none" /\ files'[c][k].mode = "write"
      /\ f.fn = "update" => f.chunk \in files'[c][k].full /\ files'[c][k].calcIndex <= f.chunk
      /\ f.fn = "judge" => Whole(c, k)' /\ Size[files'[c][k].name] # 0
  <2>1. /\ files[c][k].owner = l /\ files[c][k].verdict = "none" /\ files[c][k].mode = "write"
        /\ f.fn = "update" => f.chunk \in files[c][k].full /\ files[c][k].calcIndex <= f.chunk
        /\ f.fn = "judge" => Whole(c, k) /\ Size[files[c][k].name] # 0
    BY <1>1, <1>2, <1>3 DEF CalcOk
  <2>2. DigestKept(c, k)
    BY <1>2, <1>3
  <2>3. QED
    BY <1>4, <2>1, <2>2 DEF FilesKept, DigestKept
<1>6. \A j \in 1..(i - 1) :
           calcQueue'[l][j].client = c /\ calcQueue'[l][j].file = k =>
             /\ calcQueue'[l][j].fn = "update"
             /\ f.fn = "update" => calcQueue'[l][j].chunk < f.chunk
  BY <1>1, <1>2, <1>3 DEF CalcOk
<1>7. QED
  BY <1>2, <1>3, <1>5, <1>6 DEF CalcOk

LEMMA IoKept ==
  ASSUME NEW c \in Clients, FilesKept(c), IoInv(c),
         \A l \in IoLoops : \A i \in 1..Len(ioQueue'[l]) : ioQueue'[l][i].client = c =>
           \/ \E j \in 1..Len(ioQueue[l]) : ioQueue[l][j] = ioQueue'[l][i]
           \/ l = Home[c] /\ (ioQueue'[l][i].fn = "updateDataBase" => Uploaded(c, ioQueue[l][i].file)'),
         \A n \in Names : <<c, n>> \in database' =>
           \/ <<c, n>> \in database
           \/ \E k \in 1..Len(files[c]) : Uploaded(c, k) /\ files[c][k].name = n,
         \A l \in IoLoops : ~Free(l)' /\ writing'[l].client = c => l = Home[c]
  PROVE  IoInv(c)'
<1>1. ASSUME NEW k, Uploaded(c, k)
      PROVE  k \in 1..Len(files[c]) /\ k \in 1..Len(files'[c]) /\ Uploaded(c, k)'
             /\ files'[c][k].name = files[c][k].name
  BY <1>1 DEF Uploaded, FilesKept
<1>2. ASSUME NEW l \in IoLoops, NEW i \in 1..Len(ioQueue'[l]), ioQueue'[l][i].client = c
      PROVE  l = Home[c] /\ (ioQueue'[l][i].fn = "updateDataBase" => Uploaded(c, ioQueue[l][i].file)')
  <2>1. CASE \E j \in 1..Len(ioQueue[l]) : ioQueue[l][j] = ioQueue'[l][i]
    <3>1. PICK j \in 1..Len(ioQueue[l]) : ioQueue[l][j] = ioQueue'[l][i]
      BY <2>1
    <3>2. l = Home[c] /\ (ioQueue[l][j].fn = "updateDataBase" => Uploaded(c, ioQueue[l][j].file))
      BY <1>2, <3>1 DEF IoInv
    <3>3. PICK k : k = ioQueue[l][j].file /\ k = ioQueue'[l][i].file
      BY <3>1
    <3>4. Uploaded(c, k) => Uploaded(c, k)'
      BY <1>1
    <3>5. QED
      BY <3>1, <3>2, <3>3, <3>4 DEF Uploaded
  <2>2. QED
    BY <1>2, <2>1
<1>3. ASSUME NEW n \in Names, <<c, n>> \in database'
      PROVE  \E k \in 1..Len(files'[c]) : Uploaded(c, k)' /\ files'[c][k].name = n
  <2>1. \E k \in 1..Len(files[c]) : Uploaded(c, k) /\ files[c][k].name = n
    BY <1>3 DEF IoInv
  <2>2. QED
    BY <1>1, <2>1
<1>4. QED
  BY <1>2, <1>3 DEF IoInv

(* The chunks awaited are those awaited before, of the same file.          *)
LEMMA AwaitsKept ==
  ASSUME TypeInv, NEW c \in Clients, UNCHANGED calcQueue, page'[c].name = page[c].name, memo'[c] = memo[c],
         NEW X, Awaits(c, X), X # {},
         LET k == memo[c][page[c].name]
         IN  /\ files'[c][k].name = files[c][k].name /\ files'[c][k].mode = files[c][k].mode
             /\ files'[c][k].full = files[c][k].full /\ files'[c][k].status = files[c][k].status
             /\ files'[c][k].verdict = files[c][k].verdict /\ files'[c][k].calcIndex = files[c][k].calcIndex
  PROVE  Awaits(c, X)'
  BY DEF Awaits, CalcAt

(***************************************************************************)
(* FileServer::waitFileInfo                                                *)
(***************************************************************************)
LEMMA RequestArrived ==
  ASSUME ServerInv, NEW c \in Clients, NEW post, Arrived(c, post)
  PROVE  /\ TypeInv /\ ClientInv(c) /\ up[c]
         /\ OnceInv(c) /\ TurnInv(c) /\ ReplyInv(c) /\ UploadInv(c) /\ DownloadInv(c)
         /\ NothingOwed(c) /\ reply[c] = <<>> /\ page[c] \in Pages /\ page[c].doing = post
         /\ request[c] \in Requests /\ request[c] # None /\ request[c].post = post
         /\ Free(Home[c]) /\ Home[c] \in IoLoops
<1>1. TypeInv /\ ClientInv(c) /\ up[c] /\ request[c] # None /\ request[c].post = post /\ Free(Home[c])
  BY DEF ServerInv, Arrived
<1>2. Home[c] \in IoLoops
  BY UploadAssumption
<1>3. OnceInv(c) /\ TurnInv(c) /\ ReplyInv(c) /\ UploadInv(c) /\ DownloadInv(c)
  BY <1>1 DEF ClientInv
<1>4. request[c] \in Requests /\ page[c] \in Pages
  BY <1>1 DEF TypeInv
<1>5. NothingOwed(c) /\ reply[c] = <<>> /\ page[c].doing = post
  BY <1>1, <1>3 DEF TurnInv, NothingOwed
<1>6. QED
  BY <1>1, <1>2, <1>3, <1>4, <1>5

(* A file that is added to c's.                                            *)
LEMMA FileAdded ==
  ASSUME TypeInv, NEW c \in Clients, NEW f \in Files, NEW n \in Names, FileInv(c), CalcInv(c),
         files'[c] = Append(files[c], f), memo'[c] = [memo[c] EXCEPT ![n] = Len(files[c]) + 1],
         UNCHANGED calcQueue,
         f.name = n, f.full \subseteq Chunks(n), f.digest = <<>>, f.calcIndex = 0, f.verdict = "none",
         f.mode = "read" => f.full = Chunks(n)
  PROVE  /\ FileInv(c)' /\ CalcInv(c)' /\ FilesKept(c)
         /\ Len(files'[c]) = Len(files[c]) + 1 /\ files'[c][Len(files[c]) + 1] = f
         /\ Len(files[c]) \in Nat /\ memo'[c][n] = Len(files[c]) + 1
<1>1. PICK q \in Seq(Files) : q = files[c]
  BY DEF TypeInv
<1>2. /\ Append(q, f) \in Seq(Files) /\ Len(Append(q, f)) = Len(q) + 1 /\ Len(q) \in Nat
      /\ \A i \in 1..Len(q) : Append(q, f)[i] = q[i]
      /\ Append(q, f)[Len(q) + 1] = f
  BY AppendProperties, LenProperties
<1>3. PICK z \in Nat : z = Len(q) + 1 /\ z # 0
  BY <1>2
<1>4. /\ Len(files'[c]) = z /\ files'[c][z] = f
      /\ \A k \in 1..Len(files[c]) : k \in 1..z /\ k # z /\ files'[c][k] = files[c][k]
      /\ \A k \in 1..z : k = z \/ k \in 1..Len(files[c])
      /\ Len(files[c]) \in Nat
  BY <1>1, <1>2, <1>3
<1>5. memo'[c][n] = z /\ \A m \in Names \ {n} : memo'[c][m] = memo[c][m]
  BY <1>1, <1>3 DEF TypeInv
<1>6. FileInv(c)'
  <2>1. \A m \in Names : memo'[c][m] \in 0..z
    BY <1>1, <1>3, <1>4, <1>5 DEF FileInv
  <2>2. \A m \in Names : memo'[c][m] # 0 => files'[c][memo'[c][m]].name = m
    <3> SUFFICES ASSUME NEW m \in Names, memo'[c][m] # 0 PROVE files'[c][memo'[c][m]].name = m
      OBVIOUS
    <3>1. CASE m = n
      BY <1>4, <1>5, <3>1
    <3>2. CASE m # n
      <4>1. memo[c][m] \in 1..Len(files[c]) /\ files[c][memo[c][m]].name = m
        BY <1>4, <1>5, <3>2 DEF FileInv
      <4>2. QED
        BY <1>4, <1>5, <3>2, <4>1
    <3>3. QED
      BY <3>1, <3>2
  <2>3. ASSUME NEW k \in 1..z
        PROVE  /\ files'[c][k].full \subseteq Chunks(files'[c][k].name)
               /\ Len(files'[c][k].digest) = files'[c][k].calcIndex
               /\ files'[c][k].calcIndex <= Size[files'[c][k].name]
               /\ files'[c][k].mode = "read" \/ files'[c][k].verdict # "none" => Whole(c, k)'
               /\ files'[c][k].verdict = "accepted" => Verify(files'[c][k])
    <3>1. CASE k = z
      BY <1>4, <3>1, SizeType, EmptySeq DEF Whole
    <3>2. CASE k # z
      BY <1>4, <3>2 DEF FileInv, Whole
    <3>3. QED
      BY <3>1, <3>2
  <2>4. QED
    BY <1>4, <2>1, <2>2, <2>3 DEF FileInv
<1>7. FilesKept(c)
  BY <1>4 DEF FilesKept, Whole
<1>8. CalcInv(c)'
  <2> SUFFICES ASSUME NEW l \in CalcLoops, NEW i \in 1..Len(calcQueue[l]), calcQueue[l][i].client = c
               PROVE  CalcOk(c, l, i)'
    BY DEF CalcInv
  <2>1. calcQueue[l][i].file \in 1..Len(files[c])
    BY DEF CalcInv, CalcOk
  <2>2. DigestKept(c, calcQueue[l][i].file)
    BY <1>4, <2>1 DEF DigestKept
  <2>3. QED
    BY <1>7, <2>2, CalcKept
<1>9. QED
  BY <1>1, <1>3, <1>4, <1>5, <1>6, <1>7, <1>8

LEMMA WaitFileInfoPreserves ==
  ASSUME ServerInv, NEW c \in Clients, WaitFileInfo(c), UNCHANGED serverVars
  PROVE  ServerInv'
<1> USE DEF fileVars, databaseVars, serverVars
<1>1. Arrived(c, "info")
  BY DEF WaitFileInfo
<1>2. /\ TypeInv /\ ClientInv(c) /\ up[c]
      /\ OnceInv(c) /\ TurnInv(c) /\ ReplyInv(c) /\ UploadInv(c) /\ DownloadInv(c)
      /\ NothingOwed(c) /\ reply[c] = <<>> /\ page[c] \in Pages /\ page[c].doing = "info"
      /\ request[c] \in Requests /\ request[c] # None /\ request[c].post = "info"
  BY <1>1, RequestArrived
<1>3. PICK n \in Names : n = page[c].name /\ request[c].name = n /\ page[c].left = Chunks(n)
  BY <1>2 DEF UploadInv
<1>4. /\ files'[c] = Append(files[c], NewFile(n))
      /\ memo'[c] = [memo[c] EXCEPT ![n] = Len(files[c]) + 1]
      /\ request'[c] = None /\ reply'[c] = <<Answer("ok", {})>>
      /\ \A d \in Clients \ {c} : /\ files'[d] = files[d] /\ memo'[d] = memo[d]
                                  /\ request'[d] = request[d] /\ reply'[d] = reply[d]
      /\ UNCHANGED <<page, left, told, up, writing, ioQueue, calcQueue, database, lost,
                     verified, listed, body>>
  <2>1. <<>> \o <<Answer("ok", {})>> = <<Answer("ok", {})>>
    OBVIOUS
  <2>2. request[c].name = n
    BY <1>3
  <2>3. /\ files'[c] = Append(files[c], NewFile(request[c].name))
        /\ memo'[c] = [memo[c] EXCEPT ![request[c].name] = Len(files[c]) + 1]
        /\ request'[c] = None /\ reply'[c] = reply[c] \o <<Answer("ok", {})>>
    BY <1>2 DEF WaitFileInfo, Answered, TypeInv
  <2>4. \A d \in Clients \ {c} : /\ files'[d] = files[d] /\ memo'[d] = memo[d]
                                 /\ request'[d] = request[d] /\ reply'[d] = reply[d]
    BY <1>2 DEF WaitFileInfo, Answered, TypeInv
  <2>5. UNCHANGED <<page, left, told, up, writing, ioQueue, calcQueue, database, lost,
                     verified, listed, body>>
    BY DEF WaitFileInfo
  <2>6. QED
    BY <1>2, <2>1, <2>2, <2>3, <2>4, <2>5
<1>5. NewFile(n) \in Files
  BY <1>3, EmptySeq DEF NewFile, Files
<1>6. /\ FileInv(c)' /\ CalcInv(c)' /\ FilesKept(c)
      /\ Len(files'[c]) = Len(files[c]) + 1 /\ files'[c][Len(files[c]) + 1] = NewFile(n)
      /\ Len(files[c]) \in Nat /\ memo'[c][n] = Len(files[c]) + 1
  <2>1. FileInv(c) /\ CalcInv(c)
    BY <1>2 DEF ClientInv
  <2>2. NewFile(n).name = n /\ NewFile(n).full = {} /\ NewFile(n).digest = <<>>
        /\ NewFile(n).calcIndex = 0 /\ NewFile(n).verdict = "none" /\ NewFile(n).mode = "write"
    BY DEF NewFile
  <2>3. PICK f \in Files : f = NewFile(n)
    BY <1>5
  <2>4. /\ f.name = n /\ f.full \subseteq Chunks(n) /\ f.digest = <<>> /\ f.calcIndex = 0
        /\ f.verdict = "none" /\ f.mode = "write"
    BY <2>2, <2>3
  <2>5. files'[c] = Append(files[c], f) /\ calcQueue' = calcQueue
    BY <1>4, <2>3
  <2>6. TypeInv /\ memo'[c] = [memo[c] EXCEPT ![n] = Len(files[c]) + 1]
        /\ (f.mode = "read" => f.full = Chunks(n))
    BY <1>2, <1>4, <2>4
  <2>7. /\ FileInv(c)' /\ CalcInv(c)' /\ FilesKept(c)
        /\ Len(files'[c]) = Len(files[c]) + 1 /\ files'[c][Len(files[c]) + 1] = f
        /\ Len(files[c]) \in Nat /\ memo'[c][n] = Len(files[c]) + 1
    BY ZenonT(60), <2>1, <2>4, <2>5, <2>6, FileAdded
  <2>8. QED
    BY <2>3, <2>7
<1>7. TypeInv'
  <2>1. <<Answer("ok", {})>> \in Seq(Replying)
    BY DEF Answer, Replying, Statuses, Contents
  <2>2. reply' \in [Clients -> Seq(Replying)] /\ request' \in [Clients -> Requests \cup {None}]
    BY <1>2, <1>4, <2>1 DEF WaitFileInfo, Answered, TypeInv
  <2>3. files'[c] \in Seq(Files) /\ memo'[c] \in [Names -> Nat]
    <3>1. files[c] \in Seq(Files) /\ memo[c] \in [Names -> Nat]
      BY <1>2 DEF TypeInv
    <3>2. PICK z \in Nat : z = Len(files[c]) + 1
      BY <1>6
    <3>3. [memo[c] EXCEPT ![n] = z] \in [Names -> Nat]
      BY <3>1
    <3>4. Append(files[c], NewFile(n)) \in Seq(Files)
      BY <1>5, <3>1, AppendProperties
    <3>5. QED
      BY <1>4, <3>2, <3>3, <3>4
  <2>4. files' \in [Clients -> Seq(Files)] /\ memo' \in [Clients -> [Names -> Nat]]
    BY <1>2, <2>3 DEF WaitFileInfo, TypeInv
  <2>5. QED
    BY <1>2, <1>4, <2>2, <2>4 DEF TypeInv
<1>8. IoInv(c)'
  BY <1>2, <1>4, <1>6, IoKept DEF ClientInv, IoInv, Free
<1>9. NothingOwed(c)' /\ OnceInv(c)'
  <2>1. NoMoreCalc(c) /\ NoMoreIo(c)
    BY <1>2, <1>4, CalcRests, IoRests
  <2>2. QED
    BY <1>2, <1>4, <2>1, FunctorsRest, FunctorsStay
<1>10. TurnInv(c)' /\ ReplyInv(c)'
  BY <1>2, <1>4, <1>9 DEF TurnInv, NothingOwed, ReplyInv, Rows
<1>11. UploadInv(c)'
  <2>1. ASSUME Chunks(n) # {} PROVE Awaits(c, Chunks(n))'
    <3>1. \A l \in CalcLoops : \A i \in 1..Len(calcQueue[l]) :
            calcQueue[l][i].client = c => calcQueue[l][i].file # Len(files[c]) + 1
      <4>1. CalcInv(c) /\ Len(files[c]) \in Nat
        BY <1>2, <1>6 DEF ClientInv
      <4>2. \A l \in CalcLoops : \A i \in 1..Len(calcQueue[l]) :
              calcQueue[l][i].client = c => calcQueue[l][i].file \in 1..Len(files[c])
        BY <4>1 DEF CalcInv, CalcOk
      <4>3. QED
        BY <4>1, <4>2
    <3>2. \A x \in Chunks(n) : 0 <= x
      BY DEF Chunks
    <3>3. PICK k \in Nat : k = Len(files[c]) + 1 /\ k # 0
      BY <1>6
    <3>4. /\ page'[c].name = n /\ memo'[c][n] = k /\ files'[c][k] = NewFile(n)
          /\ calcQueue' = calcQueue
          /\ \A l \in CalcLoops : \A i \in 1..Len(calcQueue[l]) :
            calcQueue[l][i].client = c => calcQueue[l][i].file # k
      <4>1. page'[c].name = n
        BY <1>3, <1>4
      <4>2. QED
        BY <1>4, <1>6, <3>1, <3>3, <4>1
    <3>5. /\ NewFile(n).mode = "write" /\ NewFile(n).status = "uploading" /\ NewFile(n).verdict = "none"
          /\ NewFile(n).full = {} /\ NewFile(n).calcIndex = 0
      BY DEF NewFile
    <3>6. Chunks(n) \ Chunks(n) = {}
      OBVIOUS
    <3>7. \A x \in Chunks(n) : files'[c][k].calcIndex <= x
      BY <3>2, <3>4, <3>5
    <3>8. \A l \in CalcLoops : \A i \in 1..Len(calcQueue'[l]) :
            ~(CalcAt(c, l, i)' /\ calcQueue'[l][i].file = k)
      BY <3>4 DEF CalcAt
    <3>9. QED
      BY <1>3, <3>3, <3>4, <3>5, <3>6, <3>7, <3>8 DEF Awaits
  <2>2. Size[n] # 0 => Chunks(n) # {}
    <3>1. PICK z \in Nat : z = Size[n]
      BY SizeType
    <3>2. z # 0 => 0 \in 0..(z - 1)
      OBVIOUS
    <3>3. QED
      BY <3>1, <3>2 DEF Chunks
  <2>3. page'[c] = page[c] /\ request'[c] = None
    BY <1>4
  <2>4. Ready(c)' =>
          /\ page'[c].left # {} => Awaits(c, page[c].left)'
          /\ page'[c].left = {} /\ Storable(page'[c].name) => Recorded(c, page[c].name)'
    BY <1>3, <2>1, <2>2, <2>3 DEF Storable
  <2>5. ~WritesOf(c)' /\ ~Judging(c)' /\ ~Sending(c)'
    BY <1>9 DEF NothingOwed
  <2>6. QED
    BY <1>3, <2>3, <2>4, <2>5 DEF UploadInv, Judging, Sending, SendAt, JudgeAt, CalcAt, IoAt
<1>12. DownInv(c)' /\ DownloadInv(c)' /\ ToldInv(c)' /\ BodyInv(c)'
  BY <1>2, <1>4 DEF ClientInv, DownInv, DownloadInv, ToldInv, BodyInv, Recorded, WholeDownload
<1>13. ClientInv(c)'
  BY <1>6, <1>8, <1>9, <1>10, <1>11, <1>12 DEF ClientInv
<1>14. \A d \in Clients \ {c} : Untouched(d)
  BY <1>2, <1>4, CalcRests, IoRests DEF Untouched, SamePage, SameFiles, SameWrite, SameRows, Free
<1>15. QED
  BY <1>7, <1>13, <1>14, ActorMoves

(***************************************************************************)
(* FileServer::upload                                                      *)
(***************************************************************************)
LEMMA StartWritePreserves ==
  ASSUME ServerInv, NEW c \in Clients, StartWrite(c), UNCHANGED serverVars
  PROVE  ServerInv'
<1> USE DEF databaseVars, serverVars
<1>1. Arrived(c, "chunk")
  BY DEF StartWrite
<1>2. /\ TypeInv /\ ClientInv(c) /\ up[c]
      /\ OnceInv(c) /\ TurnInv(c) /\ ReplyInv(c) /\ UploadInv(c) /\ DownloadInv(c)
      /\ NothingOwed(c) /\ reply[c] = <<>> /\ page[c] \in Pages /\ page[c].doing = "chunk"
      /\ request[c] \in Requests /\ request[c] # None /\ request[c].post = "chunk"
      /\ Free(Home[c]) /\ Home[c] \in IoLoops
  BY <1>1, RequestArrived
<1> DEFINE h == Home[c]
<1>3. PICK x \in Nat, X \in SUBSET Nat :
         /\ x = request[c].chunk /\ X = page[c].left \cup {x}
         /\ request[c].name = page[c].name /\ IsNext(c, x) /\ Awaits(c, X) /\ page[c].name \in Names
  <2>1. request[c].chunk \in Nat
    BY <1>2 DEF Requests
  <2>2. page[c].left \cup {request[c].chunk} \subseteq Nat
    BY <1>2, <2>1 DEF Pages
  <2>3. /\ request[c].name = page[c].name /\ IsNext(c, request[c].chunk)
        /\ Awaits(c, page[c].left \cup {request[c].chunk}) /\ page[c].name \in Names
    BY <1>2 DEF UploadInv
  <2>4. QED
    BY <2>1, <2>2, <2>3
<1>4. PICK short \in BOOLEAN :
         writing' = [writing EXCEPT ![h] =
           [client |-> c, file |-> memo[c][page[c].name], chunk |-> x, short |-> short]]
  <2>1. request[c].name = page[c].name /\ x = request[c].chunk
    BY <1>3
  <2>2. QED
    BY <2>1 DEF StartWrite
<1>5. /\ writing'[h] = [client |-> c, file |-> memo[c][page[c].name], chunk |-> x, short |-> short]
      /\ \A l \in IoLoops \ {h} : writing'[l] = writing[l]
      /\ request'[c] = None
      /\ \A d \in Clients \ {c} : request'[d] = request[d]
      /\ UNCHANGED <<page, left, told, reply, up, files, memo, ioQueue, calcQueue, database, lost,
                     verified, listed, body>>
  BY <1>2, <1>4 DEF StartWrite, TypeInv
<1>6. TypeInv'
  <2>1. writing'[h] \in Writes
    BY <1>2, <1>3, <1>5 DEF Writes, TypeInv
  <2>2. writing' \in [IoLoops -> Writes \cup {None}]
    BY <1>2, <1>4, <2>1 DEF TypeInv
  <2>3. request' \in [Clients -> Requests \cup {None}]
    BY <1>2 DEF StartWrite, TypeInv
  <2>4. QED
    BY <1>2, <1>5, <2>2, <2>3 DEF TypeInv
<1>7. FileInv(c)' /\ CalcInv(c)' /\ OnceInv(c)'
  <2>1. NoMoreCalc(c) /\ NoMoreIo(c)
    BY <1>2, <1>5, CalcRests, IoRests
  <2>2. QED
    BY <1>2, <1>5, <2>1, FilesStay, CalcStays, FunctorsStay DEF ClientInv
<1>8. IoInv(c)'
  <2>1. FilesKept(c)
    BY <1>5 DEF FilesKept, Whole
  <2>2. \A l \in IoLoops : ~Free(l)' /\ writing'[l].client = c => l = Home[c]
    BY <1>2, <1>5 DEF ClientInv, IoInv, Free
  <2>3. QED
    BY <1>2, <1>5, <2>1, <2>2, IoKept DEF ClientInv, IoInv
<1>9. ~Judging(c)' /\ ~Sending(c)' /\ ~Streaming(c)'
  BY <1>2, <1>5 DEF NothingOwed, Judging, Sending, Streaming, JudgeAt, SendAt, StreamAt, CalcAt, IoAt
<1>10. TurnInv(c)' /\ ReplyInv(c)'
  BY <1>2, <1>5, <1>9 DEF TurnInv, ReplyInv, Rows
<1>11. UploadInv(c)'
  <2>1. Awaits(c, X)'
    <3>1. \A Y : Awaits(c, Y)' <=> Awaits(c, Y)
      BY <1>5, AwaitsRests
    <3>2. QED
      BY <1>3, <3>1
  <2>2. ~Ready(c)'
    BY <1>2, <1>5 DEF Ready
  <2>3. page'[c] = page[c] /\ writing'[h].chunk = x /\ writing'[h].file = memo'[c][page'[c].name]
    BY <1>5
  <2>4. IsNext(c, x)'
    BY <1>3, <1>5 DEF IsNext
  <2>5. /\ writing'[h].file = memo'[c][page'[c].name] /\ IsNext(c, writing[h].chunk)'
        /\ Awaits(c, page[c].left \cup {writing[h].chunk})'
    BY <1>3, <2>1, <2>3, <2>4
  <2>6. QED
    BY <1>3, <1>5, <1>9, <2>2, <2>3, <2>5
       DEF UploadInv, Judging, Sending, SendAt, JudgeAt, CalcAt, IoAt
<1>12. DownInv(c)' /\ DownloadInv(c)' /\ ToldInv(c)' /\ BodyInv(c)'
  BY <1>2, <1>5 DEF ClientInv, DownInv, DownloadInv, ToldInv, BodyInv, Recorded, WholeDownload
<1>13. ClientInv(c)'
  BY <1>7, <1>8, <1>10, <1>11, <1>12 DEF ClientInv
<1>14. \A d \in Clients \ {c} : Untouched(d)
  <2>1. \A d \in Clients \ {c} : SameWrite(d)
    BY <1>5 DEF SameWrite, Free
  <2>2. QED
    BY <1>2, <1>5, <2>1, CalcRests, IoRests DEF Untouched, SamePage, SameFiles, SameRows
<1>15. QED
  BY <1>6, <1>13, <1>14, ActorMoves

(* The write that an io loop is in is of a page that waits for its chunk.  *)
LEMMA WriteEnds ==
  ASSUME ServerInv, NEW l \in IoLoops, ~Free(l)
  PROVE  \E c \in Clients, x \in Nat, k \in Nat, X \in SUBSET Nat :
           /\ TypeInv /\ ClientInv(c) /\ up[c]
           /\ OnceInv(c) /\ TurnInv(c) /\ ReplyInv(c) /\ UploadInv(c) /\ DownloadInv(c)
           /\ writing[l] \in Writes /\ writing[l].client = c /\ writing[l].file = k /\ writing[l].chunk = x
           /\ l = Home[c]
           /\ reply[c] = <<>> /\ request[c] = None /\ ~Judging(c) /\ ~Sending(c) /\ ~Streaming(c)
           /\ page[c] \in Pages /\ page[c].doing = "chunk" /\ page[c].name \in Names
           /\ k = memo[c][page[c].name] /\ k \in 1..Len(files[c])
           /\ files[c][k] \in Files /\ files[c][k].name = page[c].name
           /\ IsNext(c, x) /\ X = page[c].left \cup {x} /\ Awaits(c, X)
           /\ \A d \in Clients : d # c => ~WritesOf(d) \/ l # Home[d]
<1>1. TypeInv /\ writing[l] \in Writes
  BY DEF ServerInv, TypeInv, Free
<1>2. PICK c \in Clients, x \in Nat, k \in Nat :
        writing[l].client = c /\ writing[l].chunk = x /\ writing[l].file = k
  BY <1>1 DEF Writes
<1>3. ClientInv(c)
  BY DEF ServerInv
<1>4. l = Home[c] /\ WritesOf(c)
  BY <1>2, <1>3 DEF ClientInv, IoInv, WritesOf
<1>5. up[c]
  BY <1>3, <1>4 DEF ClientInv, DownInv
<1>6. OnceInv(c) /\ TurnInv(c) /\ ReplyInv(c) /\ UploadInv(c) /\ DownloadInv(c)
  BY <1>3, <1>5 DEF ClientInv
<1>7. /\ reply[c] = <<>> /\ request[c] = None /\ ~Judging(c) /\ ~Sending(c) /\ ~Streaming(c)
      /\ page[c] \in Pages /\ page[c].doing = "chunk" /\ page[c].name \in Names
  BY <1>1, <1>4, <1>6 DEF TurnInv, UploadInv, TypeInv
<1>8. k = memo[c][page[c].name] /\ IsNext(c, x) /\ Awaits(c, page[c].left \cup {x})
  BY <1>2, <1>4, <1>6 DEF UploadInv
<1>9. k \in 1..Len(files[c]) /\ files[c][k].name = page[c].name
  <2>1. k # 0
    BY <1>8 DEF Awaits
  <2>2. files[c] \in Seq(Files)
    BY <1>1 DEF TypeInv
  <2>3. Len(files[c]) \in Nat
    BY <2>2, LenProperties
  <2>4. QED
    BY <1>3, <1>7, <1>8, <2>1, <2>3 DEF ClientInv, FileInv
<1>10. files[c][k] \in Files
  BY <1>1, <1>9, ElementOfSeq DEF TypeInv
<1>11. \A d \in Clients : d # c => ~WritesOf(d) \/ l # Home[d]
  BY <1>2 DEF WritesOf
<1>12. PICK X \in SUBSET Nat : X = page[c].left \cup {x}
  BY <1>7 DEF Pages
<1>13. Awaits(c, X)
  BY <1>8, <1>12
<1>14. QED
  BY <1>1, <1>2, <1>3, <1>4, <1>5, <1>6, <1>7, <1>8, <1>9, <1>10, <1>11, <1>12, <1>13

(* A file of c's that changes.                                             *)
LEMMA FileChanged ==
  ASSUME TypeInv, NEW c \in Clients, NEW k \in 1..Len(files[c]), NEW g \in Files,
         files' = [files EXCEPT ![c] = [files[c] EXCEPT ![k] = g]]
  PROVE  /\ files' \in [Clients -> Seq(Files)] /\ Len(files'[c]) = Len(files[c]) /\ files'[c][k] = g
         /\ \A j \in 1..Len(files[c]) : j # k => files'[c][j] = files[c][j]
         /\ \A d \in Clients \ {c} : files'[d] = files[d]
<1>1. files \in [Clients -> Seq(Files)]
  BY DEF TypeInv
<1>2. PICK q \in Seq(Files) : q = files[c]
  BY <1>1
<1>3. PICK p : p = [q EXCEPT ![k] = g]
  OBVIOUS
<1>4. /\ p \in Seq(Files) /\ Len(p) = Len(q)
      /\ \A j \in 1..Len(q) : p[j] = IF j = k THEN g ELSE q[j]
  BY <1>2, <1>3, ExceptSeq
<1>5. files' = [files EXCEPT ![c] = p]
  BY <1>2, <1>3
<1>6. QED
  BY <1>1, <1>2, <1>4, <1>5

LEMMA FileKept ==
  ASSUME NEW c \in Clients, NEW k \in 1..Len(files[c]), NEW g, FileInv(c),
         Len(files'[c]) = Len(files[c]), files'[c][k] = g,
         \A j \in 1..Len(files[c]) : j # k => files'[c][j] = files[c][j],
         \A n \in Names : memo'[c][n] \in {0, memo[c][n]},
         g.name = files[c][k].name, g.full \subseteq Chunks(g.name),
         Len(g.digest) = g.calcIndex, g.calcIndex <= Size[g.name],
         g.mode = "read" \/ g.verdict # "none" => g.full = Chunks(g.name),
         g.verdict = "accepted" => Verify(g), Len(files[c]) \in Nat
  PROVE  FileInv(c)'
<1>1. \A n \in Names : memo'[c][n] \in 0..Len(files'[c])
  BY DEF FileInv
<1>2. ASSUME NEW n \in Names, memo'[c][n] # 0
      PROVE  files'[c][memo'[c][n]].name = n
  <2>1. /\ memo'[c][n] = memo[c][n] /\ memo[c][n] \in 1..Len(files[c])
        /\ files[c][memo[c][n]].name = n
    BY <1>2 DEF FileInv
  <2>2. QED
    BY <2>1
<1>3. ASSUME NEW j \in 1..Len(files'[c])
      PROVE  /\ files'[c][j].full \subseteq Chunks(files'[c][j].name)
             /\ Len(files'[c][j].digest) = files'[c][j].calcIndex
             /\ files'[c][j].calcIndex <= Size[files'[c][j].name]
             /\ files'[c][j].mode = "read" \/ files'[c][j].verdict # "none" => Whole(c, j)'
             /\ files'[c][j].verdict = "accepted" => Verify(files'[c][j])
  <2>1. CASE j = k
    BY <2>1 DEF Whole
  <2>2. CASE j # k
    BY <2>2 DEF FileInv, Whole
  <2>3. QED
    BY <2>1, <2>2
<1>4. QED
  BY <1>1, <1>2, <1>3 DEF FileInv

LEMMA FailWritePreserves ==
  ASSUME ServerInv, NEW l \in IoLoops, FailWrite(l), UNCHANGED serverVars
  PROVE  ServerInv'
<1> USE DEF pageVars, databaseVars, serverVars
<1>1. ~Free(l)
  BY DEF FailWrite
<1>2. PICK c \in Clients, x \in Nat, k \in Nat, X \in SUBSET Nat :
           /\ TypeInv /\ ClientInv(c) /\ up[c]
           /\ OnceInv(c) /\ TurnInv(c) /\ ReplyInv(c) /\ UploadInv(c) /\ DownloadInv(c)
           /\ writing[l] \in Writes /\ writing[l].client = c /\ writing[l].file = k /\ writing[l].chunk = x
           /\ l = Home[c]
           /\ reply[c] = <<>> /\ request[c] = None /\ ~Judging(c) /\ ~Sending(c) /\ ~Streaming(c)
           /\ page[c] \in Pages /\ page[c].doing = "chunk" /\ page[c].name \in Names
           /\ k = memo[c][page[c].name] /\ k \in 1..Len(files[c])
           /\ files[c][k] \in Files /\ files[c][k].name = page[c].name
           /\ IsNext(c, x) /\ X = page[c].left \cup {x} /\ Awaits(c, X)
           /\ \A d \in Clients : d # c => ~WritesOf(d) \/ l # Home[d]
  BY <1>1, WriteEnds
<1>3. files[c] \in Seq(Files) /\ files \in [Clients -> Seq(Files)] /\ Len(files[c]) \in Nat
  BY <1>2, LenProperties DEF TypeInv
<1>4. PICK g : /\ g = [files[c][k] EXCEPT !.present = @ \cup {x}]
               /\ files' = [files EXCEPT ![c] = [files[c] EXCEPT ![k] = g]]
  BY <1>2 DEF FailWrite
<1>5. files' = [files EXCEPT ![c] = [files[c] EXCEPT ![k] = g]] /\ g \in Files
      /\ g.name = files[c][k].name /\ g.mode = files[c][k].mode /\ g.full = files[c][k].full
      /\ g.calcIndex = files[c][k].calcIndex /\ g.digest = files[c][k].digest
      /\ g.owner = files[c][k].owner /\ g.verdict = files[c][k].verdict
  BY <1>2, <1>4 DEF Files
<1>6. /\ reply'[c] = <<Answer("bad", {})>> /\ writing'[l] = None
      /\ \A m \in IoLoops \ {l} : writing'[m] = writing[m]
      /\ \A d \in Clients \ {c} : reply'[d] = reply[d]
      /\ UNCHANGED <<page, left, request, told, up, memo, ioQueue, calcQueue, database, lost,
                     verified, listed, body>>
  <2>1. Append(<<>>, Answer("bad", {})) = <<Answer("bad", {})>>
    OBVIOUS
  <2>2. reply' = [reply EXCEPT ![c] = Append(@, Answer("bad", {}))]
        /\ writing' = [writing EXCEPT ![l] = None]
    BY <1>2 DEF FailWrite
  <2>3. QED
    BY SMTT(60), <1>2, <2>1, <2>2 DEF FailWrite, TypeInv
<1>7. /\ files' \in [Clients -> Seq(Files)] /\ Len(files'[c]) = Len(files[c]) /\ files'[c][k] = g
      /\ \A j \in 1..Len(files[c]) : j # k => files'[c][j] = files[c][j]
      /\ \A d \in Clients \ {c} : files'[d] = files[d]
  <2>1. TypeInv /\ k \in 1..Len(files[c]) /\ g \in Files
        /\ files' = [files EXCEPT ![c] = [files[c] EXCEPT ![k] = g]]
    BY <1>2, <1>5
  <2>2. QED
    BY <2>1, FileChanged
<1>8. /\ FilesKept(c)
      /\ \A j \in 1..Len(files[c]) :
           /\ DigestKept(c, j) /\ files'[c][j].digest = files[c][j].digest
           /\ files'[c][j].full = files[c][j].full
  BY <1>5, <1>7 DEF FilesKept, DigestKept, Whole
<1>9. TypeInv'
  <2>1. <<Answer("bad", {})>> \in Seq(Replying)
    BY DEF Answer, Replying, Statuses, Contents
  <2>2. reply' \in [Clients -> Seq(Replying)] /\ writing' \in [IoLoops -> Writes \cup {None}]
    BY SMTT(60), <1>2, <1>6, <2>1 DEF FailWrite, TypeInv
  <2>3. QED
    BY ZenonT(60), <1>2, <1>6, <1>7, <2>2 DEF TypeInv
<1>10. FileInv(c)'
  <2>1. FileInv(c)
    BY <1>2 DEF ClientInv
  <2>2. /\ g.full \subseteq Chunks(g.name) /\ Len(g.digest) = g.calcIndex /\ g.calcIndex <= Size[g.name]
        /\ g.mode = "read" \/ g.verdict # "none" => g.full = Chunks(g.name)
        /\ g.verdict = "accepted" => Verify(g)
    <3>1. k \in 1..Len(files[c])
      BY <1>2
    <3>2. QED
      BY <1>5, <2>1, <3>1 DEF FileInv, Whole, Verify
  <2>3. \A n \in Names : memo'[c][n] \in {0, memo[c][n]}
    BY <1>6
  <2>4. QED
    <3>1. k \in 1..Len(files[c]) /\ g.name = files[c][k].name
      BY <1>2, <1>5
    <3>2. QED
      BY <1>3, <1>7, <2>1, <2>2, <2>3, <3>1, FileKept
<1>11. CalcInv(c)'
  <2> SUFFICES ASSUME NEW m \in CalcLoops, NEW i \in 1..Len(calcQueue[m]), calcQueue[m][i].client = c
               PROVE  CalcOk(c, m, i)'
    BY <1>6 DEF CalcInv
  <2>1. CalcInv(c) /\ DigestKept(c, calcQueue[m][i].file)
    BY <1>2, <1>8 DEF ClientInv, CalcInv, CalcOk
  <2>2. QED
    BY <1>6, <1>8, <2>1, CalcKept
<1>12. IoInv(c)'
  <2>1. \A m \in IoLoops : ~Free(m)' /\ writing'[m].client = c => m = Home[c]
    BY <1>2, <1>6 DEF ClientInv, IoInv, Free
  <2>2. QED
    BY <1>2, <1>6, <1>8, <2>1, IoKept DEF ClientInv, IoInv
<1>13. NothingOwed(c)' /\ OnceInv(c)'
  <2>1. ~WritesOf(c)'
    BY <1>2, <1>6 DEF WritesOf, Free
  <2>2. ~Judging(c)' /\ ~Sending(c)' /\ ~Streaming(c)'
    BY <1>2, <1>6 DEF Judging, Sending, Streaming, JudgeAt, SendAt, StreamAt, CalcAt, IoAt
  <2>3. NoMoreCalc(c) /\ NoMoreIo(c)
    BY <1>2, <1>6, CalcRests, IoRests
  <2>4. QED
    BY <1>2, <2>1, <2>2, <2>3, FunctorsStay DEF NothingOwed
<1>14. TurnInv(c)' /\ ReplyInv(c)'
  BY <1>2, <1>6, <1>13 DEF TurnInv, NothingOwed, ReplyInv, Rows
<1>15. UploadInv(c)'
  <2>1. ~Ready(c)'
    BY <1>2, <1>6 DEF Ready, Answer
  <2>2. QED
    BY <1>2, <1>6, <1>13, <2>1
       DEF UploadInv, NothingOwed, Judging, Sending, SendAt, JudgeAt, CalcAt, IoAt
<1>16. DownInv(c)' /\ DownloadInv(c)' /\ ToldInv(c)' /\ BodyInv(c)'
  <2>1. DownInv(c)'
    BY <1>2, <1>6 DEF ClientInv, DownInv
  <2>2. DownloadInv(c)'
    BY <1>2, <1>6 DEF ClientInv, DownloadInv
  <2>3. ToldInv(c)'
    BY <1>2, <1>6 DEF ClientInv, ToldInv, Recorded
  <2>4. BodyInv(c)'
    BY <1>2, <1>6 DEF ClientInv, BodyInv, WholeDownload
  <2>5. QED
    BY <2>1, <2>2, <2>3, <2>4
<1>17. ClientInv(c)'
  BY <1>10, <1>11, <1>12, <1>13, <1>14, <1>15, <1>16 DEF ClientInv
<1>18. \A d \in Clients \ {c} : Untouched(d)
  <2>1. \A d \in Clients \ {c} : SameWrite(d)
    BY <1>6 DEF SameWrite, Free
  <2>2. QED
    BY <1>2, <1>6, <1>7, <2>1, CalcRests, IoRests DEF Untouched, SamePage, SameFiles, SameRows
<1>19. QED
  BY <1>9, <1>17, <1>18, ActorMoves

LEMMA OneOrTwo ==
  ASSUME NEW z \in {1, 2}, NEW e \in 1..z
  PROVE  e = 1 \/ (e = 2 /\ z = 2)
<1>1. CASE z = 1
  BY <1>1
<1>2. CASE z = 2
  BY <1>2
<1>3. QED
  BY <1>1, <1>2

(* What a calculation loop has, when functors for the file k of c come,    *)
(* first its chunk x.                                                      *)
LEMMA CalcPushed ==
  ASSUME TypeInv, NEW c \in Clients, NEW k \in 1..Len(files[c]), NEW x \in Nat, NEW owner \in CalcLoops,
         NEW new \in Seq(CalcFunctors), CalcInv(c), FilesKept(c), ~Judging(c),
         \A j \in 1..Len(files[c]) : DigestKept(c, j),
         calcQueue' = [calcQueue EXCEPT ![owner] = @ \o new],
         Len(new) \in {1, 2},
         \A i \in 1..Len(new) : new[i].client = c /\ new[i].file = k,
         new[1].fn = "update" /\ new[1].chunk = x,
         Len(new) = 2 => new[2].fn = "judge" /\ Whole(c, k)' /\ Size[files'[c][k].name] # 0,
         files'[c][k].owner = owner, files'[c][k].verdict = "none", files'[c][k].mode = "write",
         x \in files'[c][k].full, files'[c][k].calcIndex <= x,
         \A i \in 1..Len(calcQueue[owner]) :
           CalcAt(c, owner, i) /\ calcQueue[owner][i].file = k /\ calcQueue[owner][i].fn = "update" =>
             calcQueue[owner][i].chunk < x
  PROVE  CalcInv(c)'
<1>1. PICK q \in Seq(CalcFunctors) : q = calcQueue[owner]
  BY DEF TypeInv
<1>2. /\ Len(q \o new) = Len(q) + Len(new) /\ Len(q) \in Nat /\ Len(new) \in Nat
      /\ \A i \in 1..Len(q) : (q \o new)[i] = q[i]
      /\ \A i \in (Len(q) + 1)..Len(q \o new) : (q \o new)[i] = new[i - Len(q)] /\ i - Len(q) \in 1..Len(new)
  BY Concat
<1>3. PICK p : p = q \o new
  OBVIOUS
<1>4. calcQueue'[owner] = p /\ \A m \in CalcLoops \ {owner} : calcQueue'[m] = calcQueue[m]
  BY <1>1, <1>3 DEF TypeInv
<1> SUFFICES ASSUME NEW m \in CalcLoops, NEW i \in 1..Len(calcQueue'[m]), calcQueue'[m][i].client = c
             PROVE  CalcOk(c, m, i)'
  BY DEF CalcInv
<1>5. CASE m # owner \/ i <= Len(q)
  <2>1. i \in 1..Len(calcQueue[m]) /\ \A j \in 1..i : calcQueue'[m][j] = calcQueue[m][j]
    BY <1>1, <1>2, <1>3, <1>4, <1>5
  <2>2. i \in 1..i
    BY <2>1
  <2>3. calcQueue[m][i].client = c
    BY <2>1, <2>2
  <2>4. calcQueue[m][i].file \in 1..Len(files[c])
    BY <2>1, <2>3 DEF CalcInv, CalcOk
  <2>5. QED
    BY <2>1, <2>3, <2>4, CalcKept
<1>6. CASE m = owner /\ ~(i <= Len(q))
  <2>1. PICK e \in 1..Len(new) : e = i - Len(q) /\ p[i] = new[e]
    <3>1. i \in 1..Len(p)
      BY <1>4, <1>6
    <3>2. i \in (Len(q) + 1)..Len(q \o new)
      BY <1>2, <1>3, <1>6, <3>1
    <3>3. p[i] = new[i - Len(q)] /\ i - Len(q) \in 1..Len(new)
      BY <1>2, <1>3, <3>2
    <3>4. QED
      BY <3>3
  <2>2. k \in 1..Len(files'[c]) /\ (e = 1 \/ (e = 2 /\ Len(new) = 2)) /\ i = Len(q) + e
    <3>1. k \in 1..Len(files'[c])
      BY DEF FilesKept
    <3>2. e = 1 \/ (e = 2 /\ Len(new) = 2)
      <4>1. PICK z \in {1, 2} : z = Len(new)
        OBVIOUS
      <4>2. e \in 1..z
        BY <4>1
      <4>3. QED
        BY <4>1, <4>2, OneOrTwo
    <3>3. i = Len(q) + e
      BY <1>2, <2>1
    <3>4. QED
      BY <3>1, <3>2, <3>3
  <2>3. ASSUME NEW j \in 1..(i - 1), p[j].client = c, p[j].file = k
        PROVE  p[j].fn = "update" /\ (p[i].fn = "update" => p[j].chunk < x)
    <3>1. CASE j \in 1..Len(q)
      <4>1. p[j] = q[j] /\ CalcAt(c, owner, j) /\ q[j] \in CalcFunctors
        BY <1>1, <1>2, <1>3, <2>3, <3>1 DEF CalcAt
      <4>2. q[j].fn # "judge"
        BY <1>1, <3>1, <4>1 DEF Judging, JudgeAt
      <4>3. q[j].fn = "update"
        BY <4>1, <4>2 DEF CalcFunctors
      <4>4. QED
        BY <1>1, <2>3, <3>1, <4>1, <4>3
    <3>2. CASE j \notin 1..Len(q)
      <4>1. j = Len(q) + 1 /\ i = Len(q) + 2 /\ e = 2 /\ Len(new) = 2
        <5>1. j \in Nat /\ j < i /\ ~(j <= Len(q))
          BY <1>2, <2>2, <2>3, <3>2
        <5>2. e # 1
          BY <1>2, <2>2, <5>1
        <5>3. QED
          BY <1>2, <2>2, <5>1, <5>2
      <4>2. p[j] = new[1]
        BY <1>2, <1>3, <4>1
      <4>3. QED
        BY <2>1, <4>1, <4>2
    <3>3. QED
      BY <3>1, <3>2
  <2>4. e = 1 => p[i].chunk = x /\ p[i].fn = "update"
    BY <2>1
  <2>5. e # 1 => p[i].fn = "judge" /\ Whole(c, k)' /\ Size[files'[c][k].name] # 0
    BY <2>1, <2>2
  <2>6. p[i].file = k
    BY <2>1
  <2>7. PICK f : f = p[i] /\ f = calcQueue'[m][i]
    BY <1>4, <1>6
  <2>8. /\ f.fn = "update" => e = 1 /\ f.chunk = x
        /\ f.fn = "judge" => Whole(c, k)' /\ Size[files'[c][k].name] # 0
    BY <2>4, <2>5, <2>7
  <2>9. \A j \in 1..(i - 1) : calcQueue'[m][j].client = c /\ calcQueue'[m][j].file = k =>
          /\ calcQueue'[m][j].fn = "update"
          /\ f.fn = "update" => calcQueue'[m][j].chunk < f.chunk
    <3>1. calcQueue'[m] = p
      BY <1>4, <1>6
    <3> SUFFICES ASSUME NEW j \in 1..(i - 1), p[j].client = c, p[j].file = k
                 PROVE  p[j].fn = "update" /\ (f.fn = "update" => p[j].chunk < f.chunk)
      BY <3>1
    <3>2. p[j].fn = "update" /\ (p[i].fn = "update" => p[j].chunk < x)
      BY <2>3
    <3>3. QED
      BY <2>7, <2>8, <3>2
  <2>10. QED
    <3>1. f.file = k
      BY <2>6, <2>7
    <3>2. files'[c][k].owner = m
      BY <1>6
    <3>3. /\ k \in 1..Len(files'[c])
          /\ files'[c][k].owner = m /\ files'[c][k].verdict = "none" /\ files'[c][k].mode = "write"
          /\ f.fn = "update" => f.chunk \in files'[c][k].full /\ files'[c][k].calcIndex <= f.chunk
          /\ f.fn = "judge" => Whole(c, k)' /\ Size[files'[c][k].name] # 0
      BY <2>2, <2>8, <3>2
    <3>4. QED
      BY <2>7, <2>9, <3>1, <3>3 DEF CalcOk
<1>7. QED
  BY <1>5, <1>6

(* The sizes of the chunks of a file a row can be made for add up to it.   *)
LEMMA StorableFits ==
  ASSUME NEW n \in Names, Storable(n)
  PROVE  Summed(n) = Bytes[n] /\ Size[n] # 0
<1>1. Bytes[n] \in Nat /\ Word \in Nat \ {0} /\ Bytes[n] < Word
  BY SizeAssumption DEF Storable
<1>2. \A a \in Nat, b \in Nat : a < b => a % b = a
  OBVIOUS
<1>3. QED
  BY <1>1, <1>2 DEF Storable, Summed

LEMMA FinishWritePreserves ==
  ASSUME ServerInv, NEW l \in IoLoops, FinishWrite(l), UNCHANGED serverVars
  PROVE  ServerInv'
<1> USE DEF pageVars, databaseVars, serverVars
<1>1. ~Free(l)
  BY DEF FinishWrite
<1>2. PICK c \in Clients, x \in Nat, k \in Nat, X \in SUBSET Nat :
           /\ TypeInv /\ ClientInv(c) /\ up[c]
           /\ OnceInv(c) /\ TurnInv(c) /\ ReplyInv(c) /\ UploadInv(c) /\ DownloadInv(c)
           /\ writing[l] \in Writes /\ writing[l].client = c /\ writing[l].file = k /\ writing[l].chunk = x
           /\ l = Home[c]
           /\ reply[c] = <<>> /\ request[c] = None /\ ~Judging(c) /\ ~Sending(c) /\ ~Streaming(c)
           /\ page[c] \in Pages /\ page[c].doing = "chunk" /\ page[c].name \in Names
           /\ k = memo[c][page[c].name] /\ k \in 1..Len(files[c])
           /\ files[c][k] \in Files /\ files[c][k].name = page[c].name
           /\ IsNext(c, x) /\ X = page[c].left \cup {x} /\ Awaits(c, X)
           /\ \A d \in Clients : d # c => ~WritesOf(d) \/ l # Home[d]
  BY <1>1, WriteEnds
<1>3. files[c] \in Seq(Files) /\ files \in [Clients -> Seq(Files)] /\ Len(files[c]) \in Nat
      /\ k \in 1..Len(files[c]) /\ page[c].left \subseteq Nat
  BY <1>2, LenProperties DEF TypeInv, Pages
<1>4. PICK n \in Names, L \in SUBSET Nat : /\ n = page[c].name /\ L = page[c].left /\ Size[n] \in Nat
                            /\ page[c].doing = "chunk"
  BY <1>2, <1>3, SizeType
<1>5. PICK f \in Files :
        /\ f = files[c][k] /\ f.name = n /\ f.mode = "write" /\ f.status = "uploading" /\ f.verdict = "none"
        /\ f.full = Chunks(n) \ X /\ X = L \cup {x} /\ X \subseteq Chunks(n) /\ x \notin L
        /\ \A y \in L : x < y
        /\ \A y \in X :
             /\ f.calcIndex <= y
             /\ \A m \in CalcLoops : \A i \in 1..Len(calcQueue[m]) :
                  CalcAt(c, m, i) /\ calcQueue[m][i].file = k /\ calcQueue[m][i].fn = "update" =>
                    calcQueue[m][i].chunk < y
  <2>1. /\ memo[c][page[c].name] = k /\ IsNext(c, x) /\ X = page[c].left \cup {x} /\ Awaits(c, X)
        /\ files[c][k] \in Files /\ files[c][k].name = n
    BY <1>2, <1>4
  <2>2. x \notin L /\ \A y \in L : x < y
    BY <1>4, <2>1 DEF IsNext
  <2>3. /\ files[c][k].mode = "write" /\ files[c][k].status = "uploading"
        /\ files[c][k].verdict = "none" /\ files[c][k].full = Chunks(n) \ X /\ X \subseteq Chunks(n)
    BY <1>4, <2>1 DEF Awaits
  <2>4. \A y \in X :
             /\ files[c][k].calcIndex <= y
             /\ \A m \in CalcLoops : \A i \in 1..Len(calcQueue[m]) :
                  CalcAt(c, m, i) /\ calcQueue[m][i].file = k /\ calcQueue[m][i].fn = "update" =>
                    calcQueue[m][i].chunk < y
    BY <2>1 DEF Awaits
  <2>5. QED
    BY <1>4, <2>1, <2>2, <2>3, <2>4
<1> DEFINE Last == L = {} /\ Summed(n) = Bytes[n]
           update == [fn |-> "update", client |-> c, file |-> k, chunk |-> x]
           judge == [fn |-> "judge", client |-> c, file |-> k]
<1>6. PICK owner \in (IF f.owner = None THEN CalcLoops ELSE {f.owner}) : \E g :
         /\ g = [f EXCEPT !.present = @ \cup {x}, !.full = @ \cup {x}, !.owner = owner]
         /\ files' = [files EXCEPT ![c] = [files[c] EXCEPT ![k] = g]]
         /\ calcQueue' = [calcQueue EXCEPT ![owner] = @ \o Pushed(g, update, judge)]
         /\ memo' = Remembered(c, g)
         /\ reply' = Replied(c, g)
         /\ writing' = [writing EXCEPT ![l] = None]
         /\ UNCHANGED <<page, left, request, told, up, ioQueue, database, lost, verified, listed, body>>
  <2>1. PICK w : w = writing[l] /\ w.client = c /\ w.file = k /\ w.chunk = x
    BY <1>2
  <2>2. /\ writing' = [writing EXCEPT ![l] = None]
        /\ UNCHANGED <<page, left, request, told, up, ioQueue, database, lost, verified, listed, body>>
    BY DEF FinishWrite
  <2>3. \E owner \in IF files[c][k].owner = None THEN CalcLoops ELSE {files[c][k].owner} :
           LET g == [files[c][k] EXCEPT !.present = @ \cup {x}, !.full = @ \cup {x}, !.owner = owner]
           IN  /\ files' = [files EXCEPT ![c][k] = g]
               /\ calcQueue' = [calcQueue EXCEPT ![owner] = @ \o Pushed(g,
                    [fn |-> "update", client |-> c, file |-> k, chunk |-> x],
                    [fn |-> "judge", client |-> c, file |-> k])]
               /\ memo' = Remembered(c, g)
               /\ reply' = Replied(c, g)
    BY <2>1, Zenon DEF FinishWrite
  <2>4. f = files[c][k]
    BY <1>5
  <2>5. QED
    BY <2>2, <2>3, <2>4
<1>7. PICK g :
         /\ g = [f EXCEPT !.present = @ \cup {x}, !.full = @ \cup {x}, !.owner = owner]
         /\ files' = [files EXCEPT ![c] = [files[c] EXCEPT ![k] = g]]
         /\ calcQueue' = [calcQueue EXCEPT ![owner] = @ \o Pushed(g, update, judge)]
         /\ memo' = Remembered(c, g)
         /\ reply' = Replied(c, g)
         /\ writing' = [writing EXCEPT ![l] = None]
         /\ UNCHANGED <<page, left, request, told, up, ioQueue, database, lost, verified, listed, body>>
  BY <1>6
<1>8. owner \in CalcLoops /\ (f.owner # None => owner = f.owner)
  BY <1>5, <1>6 DEF Files
<1>9. /\ g \in Files /\ g.name = n /\ g.mode = "write" /\ g.status = "uploading" /\ g.verdict = "none"
      /\ g.owner = owner /\ g.calcIndex = f.calcIndex /\ g.digest = f.digest
      /\ g.full = Chunks(n) \ L /\ f.full \subseteq g.full
  <2>1. /\ g \in Files /\ g.name = n /\ g.mode = "write" /\ g.status = "uploading" /\ g.verdict = "none"
        /\ g.owner = owner /\ g.calcIndex = f.calcIndex /\ g.digest = f.digest /\ g.full = f.full \cup {x}
    BY <1>5, <1>7, <1>8 DEF Files
  <2>2. f.full \cup {x} = Chunks(n) \ L
    BY <1>5
  <2>3. QED
    BY <2>1, <2>2
<1>10. IsCompleted(g) <=> Last
  <2>1. L \subseteq Chunks(n) /\ g.name = n /\ g.full = Chunks(n) \ L
    BY <1>5, <1>9
  <2>2. (Chunks(n) \ L = Chunks(n)) <=> L = {}
    BY <2>1
  <2>3. QED
    BY <2>1, <2>2 DEF IsCompleted
<1>11. /\ files' \in [Clients -> Seq(Files)] /\ Len(files'[c]) = Len(files[c]) /\ files'[c][k] = g
       /\ \A j \in 1..Len(files[c]) : j # k => files'[c][j] = files[c][j]
       /\ \A d \in Clients \ {c} : files'[d] = files[d]
  <2>1. TypeInv
    BY <1>2
  <2>2. QED
    BY <1>3, <1>7, <1>9, <2>1, FileChanged
<1>12. FilesKept(c) /\ \A j \in 1..Len(files[c]) : DigestKept(c, j)
  <2>1. ASSUME NEW j \in 1..Len(files[c])
        PROVE  /\ j \in 1..Len(files'[c])
               /\ files'[c][j].name = files[c][j].name /\ files'[c][j].mode = files[c][j].mode
               /\ files[c][j].full \subseteq files'[c][j].full
               /\ Whole(c, j) => Whole(c, j)'
               /\ DigestKept(c, j)
    <3>1. CASE j = k
      <4>1. ~Whole(c, j)
        BY <1>5, <3>1 DEF Whole
      <4>2. QED
        BY <1>3, <1>5, <1>8, <1>9, <1>11, <3>1, <4>1 DEF DigestKept
    <3>2. CASE j # k
      BY <1>11, <3>2 DEF DigestKept, Whole
    <3>3. QED
      BY <3>1, <3>2
  <2>2. QED
    BY <2>1 DEF FilesKept
<1> HIDE DEF Last
<1>13. PICK r : r = IF Last THEN <<>> ELSE <<Answer("ok", {})>>
  OBVIOUS
<1>14. /\ reply'[c] = r /\ writing'[l] = None
       /\ \A m \in IoLoops \ {l} : writing'[m] = writing[m]
       /\ \A d \in Clients \ {c} : reply'[d] = reply[d] /\ memo'[d] = memo[d]
       /\ \A m \in Names : memo'[c][m] \in {0, memo[c][m]}
       /\ L # {} => memo'[c] = memo[c]
       /\ r \in Seq(Replying) /\ memo' \in [Clients -> [Names -> Nat]]
       /\ reply' \in [Clients -> Seq(Replying)] /\ writing' \in [IoLoops -> Writes \cup {None}]
  <2>0. L # {} => ~Last
    BY DEF Last
  <2>1. Append(<<>>, Answer("ok", {})) = <<Answer("ok", {})>> /\ reply[c] = <<>>
    BY <1>2
  <2>2. <<Answer("ok", {})>> \in Seq(Replying) /\ <<>> \in Seq(Replying)
    BY EmptySeq DEF Answer, Replying, Statuses, Contents
  <2>3. reply' = [reply EXCEPT ![c] = r]
    BY <1>2, <1>7, <1>10, <1>13, <2>1 DEF Replied, TypeInv
  <2>4. memo' = IF Last THEN [memo EXCEPT ![c][n] = 0] ELSE memo
    BY <1>7, <1>9, <1>10, <2>0 DEF Remembered
  <2>5. reply \in [Clients -> Seq(Replying)] /\ memo \in [Clients -> [Names -> Nat]]
        /\ writing \in [IoLoops -> Writes \cup {None}]
    BY <1>2 DEF TypeInv
  <2>6. r \in Seq(Replying)
    BY <1>13, <2>2
  <2>7. /\ reply'[c] = r /\ reply' \in [Clients -> Seq(Replying)]
        /\ \A d \in Clients \ {c} : reply'[d] = reply[d]
    BY <2>3, <2>5, <2>6
  <2>8. /\ writing'[l] = None /\ writing' \in [IoLoops -> Writes \cup {None}]
        /\ \A m \in IoLoops \ {l} : writing'[m] = writing[m]
    BY <1>7, <2>5
  <2>9. /\ \A d \in Clients \ {c} : memo'[d] = memo[d]
        /\ \A m \in Names : memo'[c][m] \in {0, memo[c][m]}
        /\ L # {} => memo'[c] = memo[c]
        /\ memo' \in [Clients -> [Names -> Nat]]
    BY <2>0, <2>4, <2>5
  <2>10. QED
    BY <2>6, <2>7, <2>8, <2>9
<1>15. PICK new \in Seq(CalcFunctors) :
         /\ calcQueue' = [calcQueue EXCEPT ![owner] = @ \o new]
         /\ Len(new) = IF Last THEN 2 ELSE 1
         /\ \A i \in 1..Len(new) : new[i].client = c /\ new[i].file = k
         /\ new[1].fn = "update" /\ new[1].chunk = x
         /\ Len(new) = 2 => new[2].fn = "judge"
  <2>1. update \in CalcFunctors /\ judge \in CalcFunctors
    BY <1>3 DEF CalcFunctors
  <2>2. CASE Last
    <3>1. Pushed(g, update, judge) = <<update, judge>>
      BY <1>10, <2>2 DEF Pushed
    <3>2. <<update, judge>> \in Seq(CalcFunctors) /\ Len(<<update, judge>>) = 2
      BY <2>1
    <3>3. \A i \in 1..2 : <<update, judge>>[i].client = c /\ <<update, judge>>[i].file = k
      OBVIOUS
    <3>4. QED
      BY <1>7, <2>2, <3>1, <3>2, <3>3
  <2>3. CASE ~Last
    <3>1. Pushed(g, update, judge) = <<update>>
      BY <1>10, <2>3 DEF Pushed
    <3>2. <<update>> \in Seq(CalcFunctors) /\ Len(<<update>>) = 1
      BY <2>1
    <3>3. \A i \in 1..1 : <<update>>[i].client = c /\ <<update>>[i].file = k
      OBVIOUS
    <3>4. <<update>>[1].fn = "update" /\ <<update>>[1].chunk = x
      OBVIOUS
    <3>5. PICK p \in Seq(CalcFunctors) :
            /\ p = <<update>> /\ Len(p) = 1 /\ p[1].fn = "update" /\ p[1].chunk = x
            /\ \A i \in 1..1 : p[i].client = c /\ p[i].file = k
      BY <3>2, <3>3, <3>4
    <3>6. calcQueue' = [calcQueue EXCEPT ![owner] = @ \o p]
      BY <1>7, <3>1, <3>5
    <3>7. Len(p) = IF Last THEN 2 ELSE 1
      BY <2>3, <3>5
    <3>8. (\A i \in 1..Len(p) : p[i].client = c /\ p[i].file = k) /\ Len(p) # 2
      BY <3>5
    <3> HIDE DEF update, judge
    <3>9. QED
      BY <3>5, <3>6, <3>7, <3>8
  <2>4. QED
    BY <2>2, <2>3
<1> HIDE DEF update, judge
<1>16. PICK q \in Seq(CalcFunctors) :
         /\ q = calcQueue[owner] /\ calcQueue'[owner] = q \o new
         /\ \A m \in CalcLoops \ {owner} : calcQueue'[m] = calcQueue[m]
         /\ q \o new \in Seq(CalcFunctors) /\ Len(q \o new) = Len(q) + Len(new)
         /\ Len(q) \in Nat
         /\ \A i \in 1..Len(q) : (q \o new)[i] = q[i]
         /\ \A i \in (Len(q) + 1)..Len(q \o new) :
              (q \o new)[i] = new[i - Len(q)] /\ i - Len(q) \in 1..Len(new)
  <2>1. calcQueue \in [CalcLoops -> Seq(CalcFunctors)]
    BY <1>2 DEF TypeInv
  <2>2. PICK q \in Seq(CalcFunctors) : q = calcQueue[owner]
    BY <1>8, <2>1
  <2>3. /\ calcQueue'[owner] = q \o new
        /\ \A m \in CalcLoops \ {owner} : calcQueue'[m] = calcQueue[m]
    BY <1>8, <1>15, <2>1, <2>2
  <2>4. QED
    BY <2>2, <2>3, Concat
<1>17. TypeInv'
  <2>1. calcQueue' \in [CalcLoops -> Seq(CalcFunctors)]
    BY <1>2, <1>8, <1>15, <1>16 DEF TypeInv
  <2>2. QED
    <3>1. TypeInv
      BY <1>2
    <3>2. QED
      BY <1>7, <1>11, <1>14, <2>1, <3>1 DEF TypeInv
<1>18. FileInv(c)'
  <2>1. FileInv(c)
    BY <1>2 DEF ClientInv
  <2>2. g.full \subseteq Chunks(g.name) /\ Len(g.digest) = g.calcIndex /\ g.calcIndex <= Size[g.name]
    BY <1>3, <1>5, <1>9, <2>1 DEF FileInv
  <2>3. g.name = files[c][k].name /\ g.mode # "read" /\ g.verdict = "none"
    BY <1>5, <1>9
  <2>4. QED
    BY <1>3, <1>11, <1>14, <2>1, <2>2, <2>3, FileKept
<1>19. CalcInv(c)'
  <2>1. TypeInv /\ CalcInv(c) /\ ~Judging(c)
    BY <1>2 DEF ClientInv
  <2>2. Len(new) \in {1, 2}
    BY <1>15
  <2>3. x \in g.full /\ g.calcIndex <= x
    BY <1>5, <1>9
  <2>4. Len(new) = 2 => new[2].fn = "judge" /\ Whole(c, k)' /\ Size[files'[c][k].name] # 0
    <3>1. Last => g.full = Chunks(n)
      BY <1>9 DEF Last
    <3>2. Size[n] # 0
      BY <1>4, <1>5 DEF Chunks
    <3>3. QED
      BY <1>9, <1>11, <1>15, <3>1, <3>2 DEF Whole
  <2>5. \A i \in 1..Len(calcQueue[owner]) :
           CalcAt(c, owner, i) /\ calcQueue[owner][i].file = k /\ calcQueue[owner][i].fn = "update" =>
             calcQueue[owner][i].chunk < x
    BY <1>5, <1>8
  <2>6. /\ files'[c][k].owner = owner /\ files'[c][k].verdict = "none" /\ files'[c][k].mode = "write"
        /\ x \in files'[c][k].full /\ files'[c][k].calcIndex <= x
    BY <1>9, <1>11, <2>3
  <2>7. QED
    BY ZenonT(60), <1>3, <1>8, <1>12, <1>15, <2>1, <2>2, <2>4, <2>5, <2>6, CalcPushed
<1>20. IoInv(c)'
  <2>1. \A m \in IoLoops : ~Free(m)' /\ writing'[m].client = c => m = Home[c]
    <3>1. IoInv(c) /\ l = Home[c]
      BY <1>2 DEF ClientInv
    <3>2. QED
      BY <1>14, <3>1 DEF IoInv, Free
  <2>2. IoInv(c)
    BY <1>2 DEF ClientInv
  <2>3. QED
    BY <1>7, <1>12, <2>1, <2>2, IoKept DEF IoInv
<1>21. ~WritesOf(c)' /\ ~Sending(c)' /\ ~Streaming(c)'
  <2>1. ~WritesOf(c)'
    BY <1>2, <1>14 DEF WritesOf, Free
  <2>2. QED
    BY <1>2, <1>7, <2>1 DEF Sending, Streaming, SendAt, StreamAt, IoAt
<1>22. ASSUME NEW m \in CalcLoops, NEW i, JudgeAt(c, m, i)'
       PROVE  m = owner /\ Last /\ L = {} /\ i = Len(q) + 2 /\ calcQueue'[m][i].file = k
  <2>1. i \in 1..Len(calcQueue'[m]) /\ calcQueue'[m][i].client = c /\ calcQueue'[m][i].fn = "judge"
    BY <1>22 DEF JudgeAt, CalcAt
  <2>2. ~(m # owner \/ i <= Len(q))
    <3> SUFFICES ASSUME m # owner \/ i <= Len(q) PROVE FALSE
      OBVIOUS
    <3>1. i \in 1..Len(calcQueue[m]) /\ calcQueue[m][i] = calcQueue'[m][i]
      BY <1>16, <2>1
    <3>2. Judging(c)
      BY <2>1, <3>1 DEF Judging, JudgeAt, CalcAt
    <3>3. QED
      BY <1>2, <3>2
  <2>3. PICK e \in 1..Len(new) : i = Len(q) + e /\ calcQueue'[m][i] = new[e]
    <3>1. m = owner /\ calcQueue'[m] = q \o new /\ i \in (Len(q) + 1)..Len(q \o new)
      BY <1>16, <2>1, <2>2
    <3>2. PICK e \in 1..Len(new) : e = i - Len(q) /\ (q \o new)[i] = new[e]
      BY <1>16, <3>1
    <3>3. i = Len(q) + e
      BY <1>16, <3>1, <3>2
    <3>4. QED
      BY <3>1, <3>2, <3>3
  <2>4. e # 1
    BY <1>15, <2>1, <2>3
  <2>5. e = 2 /\ Last
    BY <1>15, <2>4
  <2>6. QED
    BY <1>15, <2>2, <2>3, <2>5 DEF Last
<1>23. OnceInv(c)'
  <2>1. \A m, j \in CalcLoops, i, e \in Nat : JudgeAt(c, m, i)' /\ JudgeAt(c, j, e)' => m = j /\ i = e
    BY <1>22
  <2>2. QED
    BY <1>21, <2>1 DEF OnceInv, Sending, Streaming, SendAt, StreamAt, IoAt
<1>24. TurnInv(c)' /\ ReplyInv(c)'
  <2>1. Judging(c)' => Last /\ L = {}
    BY <1>22 DEF Judging
  <2>2. page'[c].doing = "chunk" /\ page'[c].left = L /\ request'[c] = None /\ listed[c] \subseteq Rows(c)
    BY <1>2, <1>4, <1>7 DEF ReplyInv
  <2>3. QED
    BY <1>7, <1>13, <1>14, <1>21, <2>1, <2>2 DEF TurnInv, ReplyInv, Rows
<1>25. UploadInv(c)'
  <2>1. page'[c].doing = "chunk" /\ page'[c].left = L /\ page'[c].name = n /\ request'[c] = None
    BY <1>2, <1>4, <1>7
  <2>2. Ready(c)' => L # {} \/ ~Storable(n)
    BY <1>4, <1>13, <1>14, <2>1, StorableFits DEF Ready, Last
  <2>3. ASSUME L # {} PROVE Awaits(c, L)'
    <3>1. memo'[c][n] = k /\ k # 0
      BY <1>2, <1>3, <1>4, <1>14, <2>3
    <3>2. ASSUME NEW y \in L, NEW m \in CalcLoops, NEW i \in 1..Len(calcQueue'[m]),
                 calcQueue'[m][i].client = c, calcQueue'[m][i].file = k, calcQueue'[m][i].fn = "update"
          PROVE  calcQueue'[m][i].chunk < y
      <4>1. CASE m # owner \/ i <= Len(q)
        <5>1. i \in 1..Len(calcQueue[m]) /\ calcQueue[m][i] = calcQueue'[m][i]
          BY <1>16, <3>2, <4>1
        <5>2. QED
          BY <1>5, <3>2, <5>1 DEF CalcAt
      <4>2. CASE ~(m # owner \/ i <= Len(q))
        <5>1. PICK e \in 1..Len(new) : calcQueue'[m][i] = new[e]
          <6>1. m = owner /\ calcQueue'[m] = q \o new /\ i \in (Len(q) + 1)..Len(q \o new)
            BY <1>16, <4>2
          <6>2. QED
            BY ZenonT(60), <1>16, <6>1
        <5>2. e = 1
          BY <1>15, <2>3, <5>1 DEF Last
        <5>3. QED
          BY <1>5, <1>15, <5>1, <5>2
      <4>3. QED
        BY <4>1, <4>2
    <3>3. \A y \in L : g.calcIndex <= y
      BY <1>5, <1>9
    <3>4. L \subseteq Chunks(n)
      BY <1>5
    <3>5. QED
      BY <1>9, <1>11, <2>1, <3>1, <3>2, <3>3, <3>4 DEF Awaits, CalcAt
  <2>4. Ready(c)' =>
          /\ page'[c].left # {} => Awaits(c, page[c].left)'
          /\ page'[c].left = {} /\ Storable(page'[c].name) => Recorded(c, page[c].name)'
    BY <2>1, <2>2, <2>3
  <2>5. \A m \in CalcLoops : \A i \in 1..Len(calcQueue'[m]) :
          JudgeAt(c, m, i)' => files'[c][calcQueue'[m][i].file].name = page'[c].name
    BY <1>9, <1>11, <1>22, <2>1
  <2>6. QED
    BY <1>21, <2>1, <2>4, <2>5 DEF UploadInv, Sending, SendAt, IoAt
<1>26. DownInv(c)' /\ DownloadInv(c)' /\ ToldInv(c)' /\ BodyInv(c)'
  <2>1. page'[c].doing # "download" /\ up'[c]
    BY <1>2, <1>7
  <2>2. QED
    <3>1. ToldInv(c) /\ BodyInv(c)
      BY <1>2 DEF ClientInv
    <3>2. QED
      BY <1>7, <2>1, <3>1 DEF DownInv, DownloadInv, ToldInv, BodyInv, Recorded, WholeDownload
<1>27. ClientInv(c)'
  BY <1>18, <1>19, <1>20, <1>23, <1>24, <1>25, <1>26 DEF ClientInv
<1>28. ASSUME NEW d \in Clients, d # c PROVE Untouched(d)
  <2>1. SameWrite(d)
    BY <1>14 DEF SameWrite, Free
  <2>2. SameCalc(d)
    <3> SUFFICES ASSUME NEW m \in CalcLoops PROVE SameFor(d, calcQueue[m], calcQueue'[m])
      BY DEF SameCalc
    <3>1. CASE m = owner
      <4>1. SameFor(d, q, q \o new)
        BY <1>15, <1>28, SameBehind
      <4>2. QED
        BY <1>16, <3>1, <4>1
    <3>2. CASE m # owner
      BY <1>2, <1>16, <3>2, SameItself DEF TypeInv
    <3>3. QED
      BY <3>1, <3>2
  <2>3. SameIo(d)
    BY <1>2, <1>7, IoRests
  <2>4. QED
    BY <1>7, <1>11, <1>14, <1>28, <2>1, <2>2, <2>3 DEF Untouched, SamePage, SameFiles, SameRows
<1>29. QED
  BY <1>17, <1>27, <1>28, ActorMoves

(***************************************************************************)
(* The functors.  A loop takes the first it has, which is of one client.   *)
(***************************************************************************)
LEMMA TailOnly ==
  ASSUME NEW S, NEW q \in Seq(S), q # <<>>, NEW d
  PROVE  /\ NoneNew(d, q, Tail(q), 1) /\ NoMoreFor(d, q, Tail(q))
         /\ q[1].client # d => SameFor(d, q, Tail(q))
<1>1. PICK p \in Seq(S) : p = <<>> /\ \A i \in 1..Len(p) : p[i].client # d
  <2>1. <<>> \in Seq(S) /\ \A i \in 1..Len(<<>>) : FALSE
    BY EmptySeq
  <2>2. QED
    BY <2>1
<1>2. PICK t \in Seq(S) : t = Tail(q)
  BY HeadTail
<1>3. t \o p = t
  BY <1>1
<1>4. /\ NoneNew(d, q, Tail(q) \o p, 1)
      /\ NoMoreFor(d, q, Tail(q) \o p)
      /\ q[1].client # d => SameFor(d, q, Tail(q) \o p)
  BY <1>1, SameTail
<1>5. QED
  BY <1>2, <1>3, <1>4

LEMMA IoTaken ==
  ASSUME TypeInv, NEW l \in IoLoops, ioQueue[l] # <<>>, ioQueue' = [ioQueue EXCEPT ![l] = Tail(@)]
  PROVE  /\ ioQueue' \in [IoLoops -> Seq(IoFunctors)]
         /\ \A d : NoMoreIo(d) /\ NoneNew(d, ioQueue[l], ioQueue'[l], 1)
         /\ \A d : d # ioQueue[l][1].client => SameIo(d)
         /\ Head(ioQueue[l]) = ioQueue[l][1] /\ ioQueue[l][1] \in IoFunctors
         /\ Len(ioQueue[l]) \in Nat \ {0} /\ Len(ioQueue'[l]) = Len(ioQueue[l]) - 1
         /\ \A i \in 1..(Len(ioQueue[l]) - 1) : ioQueue'[l][i] = ioQueue[l][i + 1]
<1>1. ioQueue \in [IoLoops -> Seq(IoFunctors)]
  BY DEF TypeInv
<1>2. PICK q \in Seq(IoFunctors) : q = ioQueue[l] /\ q # <<>>
  BY <1>1
<1>3. /\ Head(q) = q[1] /\ q[1] \in IoFunctors /\ Len(q) \in Nat \ {0}
      /\ Tail(q) \in Seq(IoFunctors) /\ Len(Tail(q)) = Len(q) - 1
      /\ \A i \in 1..(Len(q) - 1) : Tail(q)[i] = q[i + 1]
  BY <1>2, HeadTail
<1>4. /\ ioQueue'[l] = Tail(q) /\ ioQueue' \in [IoLoops -> Seq(IoFunctors)]
      /\ \A m \in IoLoops \ {l} : ioQueue'[m] = ioQueue[m]
  BY <1>1, <1>2, <1>3
<1>5. ASSUME NEW d
      PROVE  NoMoreIo(d) /\ NoneNew(d, q, Tail(q), 1) /\ (d # q[1].client => SameIo(d))
  <2>1. /\ NoneNew(d, q, Tail(q), 1) /\ NoMoreFor(d, q, Tail(q))
        /\ q[1].client # d => SameFor(d, q, Tail(q))
    BY <1>2, TailOnly
  <2>2. \A m \in IoLoops \ {l} : SameFor(d, ioQueue[m], ioQueue'[m])
    BY <1>1, <1>4, SameItself
  <2>3. \A m \in IoLoops \ {l} : NoMoreFor(d, ioQueue[m], ioQueue'[m])
    BY <2>2, SameHasNoMore
  <2>4. QED
    BY <1>2, <1>4, <2>1, <2>2, <2>3 DEF NoMoreIo, SameIo
<1>6. QED
  BY <1>2, <1>3, <1>4, <1>5

LEMMA CalcTaken ==
  ASSUME TypeInv, NEW l \in CalcLoops, calcQueue[l] # <<>>, calcQueue' = [calcQueue EXCEPT ![l] = Tail(@)]
  PROVE  /\ calcQueue' \in [CalcLoops -> Seq(CalcFunctors)]
         /\ \A d : NoMoreCalc(d) /\ NoneNew(d, calcQueue[l], calcQueue'[l], 1)
         /\ \A d : d # calcQueue[l][1].client => SameCalc(d)
         /\ Head(calcQueue[l]) = calcQueue[l][1] /\ calcQueue[l][1] \in CalcFunctors
         /\ Len(calcQueue[l]) \in Nat \ {0} /\ Len(calcQueue'[l]) = Len(calcQueue[l]) - 1
         /\ \A i \in 1..(Len(calcQueue[l]) - 1) : calcQueue'[l][i] = calcQueue[l][i + 1]
         /\ \A m \in CalcLoops \ {l} : calcQueue'[m] = calcQueue[m]
<1>1. calcQueue \in [CalcLoops -> Seq(CalcFunctors)]
  BY DEF TypeInv
<1>2. PICK q \in Seq(CalcFunctors) : q = calcQueue[l] /\ q # <<>>
  BY <1>1
<1>3. /\ Head(q) = q[1] /\ q[1] \in CalcFunctors /\ Len(q) \in Nat \ {0}
      /\ Tail(q) \in Seq(CalcFunctors) /\ Len(Tail(q)) = Len(q) - 1
      /\ \A i \in 1..(Len(q) - 1) : Tail(q)[i] = q[i + 1]
  BY <1>2, HeadTail
<1>4. /\ calcQueue'[l] = Tail(q) /\ calcQueue' \in [CalcLoops -> Seq(CalcFunctors)]
      /\ \A m \in CalcLoops \ {l} : calcQueue'[m] = calcQueue[m]
  BY <1>1, <1>2, <1>3
<1>5. ASSUME NEW d
      PROVE  NoMoreCalc(d) /\ NoneNew(d, q, Tail(q), 1) /\ (d # q[1].client => SameCalc(d))
  <2>1. /\ NoneNew(d, q, Tail(q), 1) /\ NoMoreFor(d, q, Tail(q))
        /\ q[1].client # d => SameFor(d, q, Tail(q))
    BY <1>2, TailOnly
  <2>2. \A m \in CalcLoops \ {l} : SameFor(d, calcQueue[m], calcQueue'[m])
    BY <1>1, <1>4, SameItself
  <2>3. \A m \in CalcLoops \ {l} : NoMoreFor(d, calcQueue[m], calcQueue'[m])
    BY <2>2, SameHasNoMore
  <2>4. QED
    BY <1>2, <1>4, <2>1, <2>2, <2>3 DEF NoMoreCalc, SameCalc
<1>6. QED
  BY <1>2, <1>3, <1>4, <1>5

LEMMA UpdateDataBasePreserves ==
  ASSUME ServerInv, NEW l \in IoLoops, ioQueue[l] # <<>>, Head(ioQueue[l]).fn = "updateDataBase",
         UpdateDataBase(Head(ioQueue[l])), ioQueue' = [ioQueue EXCEPT ![l] = Tail(@)],
         UNCHANGED <<page, left, request, told, reply, up, memo, writing, calcQueue, verified, listed, body>>
  PROVE  ServerInv'
<1>1. /\ TypeInv
      /\ ioQueue' \in [IoLoops -> Seq(IoFunctors)]
      /\ \A d : NoMoreIo(d)
      /\ \A d : d # ioQueue[l][1].client => SameIo(d)
      /\ Head(ioQueue[l]) = ioQueue[l][1] /\ ioQueue[l][1] \in IoFunctors
      /\ Len(ioQueue[l]) \in Nat \ {0} /\ Len(ioQueue'[l]) = Len(ioQueue[l]) - 1
      /\ \A i \in 1..(Len(ioQueue[l]) - 1) : ioQueue'[l][i] = ioQueue[l][i + 1]
  BY IoTaken DEF ServerInv
<1>2. PICK f \in IoFunctors, c \in Clients, k \in Nat :
        f = ioQueue[l][1] /\ f.client = c /\ f.file = k /\ f.fn = "updateDataBase" /\ UpdateDataBase(f)
  BY <1>1 DEF IoFunctors
<1>3. ClientInv(c) /\ FileInv(c) /\ CalcInv(c) /\ IoInv(c)
  BY DEF ServerInv, ClientInv
<1>4. l = Home[c] /\ Uploaded(c, k)
  BY <1>1, <1>2, <1>3 DEF IoInv
<1>5. files[c] \in Seq(Files) /\ Len(files[c]) \in Nat /\ k \in 1..Len(files[c]) /\ files[c][k] \in Files
  <2>1. files[c] \in Seq(Files)
    BY <1>1 DEF TypeInv
  <2>2. QED
    BY <1>4, <2>1, LenProperties, ElementOfSeq DEF Uploaded
<1>6. PICK n \in Names : n = files[c][k].name /\ files[c][k].full = Chunks(n)
  BY <1>4, <1>5 DEF Files, Uploaded, Whole
<1>7. PICK handle \in BOOLEAN, inserted \in BOOLEAN :
        /\ files' = IF up[c] /\ handle THEN [files EXCEPT ![c][k].status = "completed"]
                                       ELSE files
        /\ IF up[c] /\ handle /\ inserted
           THEN database' = database \cup {<<c, n>>} /\ UNCHANGED lost
           ELSE lost' = lost \cup {<<c, n>>} /\ UNCHANGED database
  <2>1. PICK fc, fk : fc = f.client /\ fc = c /\ fk = f.file /\ fk = k
    BY <1>2
  <2>2. UpdateDataBase(f)
    BY <1>2
  <2>3. \E handle, inserted \in BOOLEAN :
        /\ files' = IF up[c] /\ handle THEN [files EXCEPT ![c][k].status = "completed"]
                                       ELSE files
        /\ IF up[c] /\ handle /\ inserted
           THEN database' = database \cup {<<c, files[c][k].name>>} /\ UNCHANGED lost
           ELSE lost' = lost \cup {<<c, files[c][k].name>>} /\ UNCHANGED database
    BY <2>1, <2>2, Zenon DEF UpdateDataBase
  <2>4. QED
    BY <1>6, <2>3
<1>8. /\ <<c, n>> \in database' \cup lost'
      /\ database \subseteq database' /\ database' \subseteq database \cup {<<c, n>>}
      /\ lost \subseteq lost' /\ lost' \subseteq lost \cup {<<c, n>>}
  BY <1>7
<1>9. PICK g \in Files :
        /\ files' \in [Clients -> Seq(Files)] /\ Len(files'[c]) = Len(files[c]) /\ files'[c][k] = g
        /\ \A j \in 1..Len(files[c]) : j # k => files'[c][j] = files[c][j]
        /\ \A d \in Clients \ {c} : files'[d] = files[d]
        /\ g.name = n /\ g.mode = files[c][k].mode /\ g.full = files[c][k].full
        /\ g.digest = files[c][k].digest /\ g.calcIndex = files[c][k].calcIndex
        /\ g.verdict = files[c][k].verdict /\ g.owner = files[c][k].owner
  <2>1. CASE up[c] /\ handle
    <3>1. PICK g : g = [files[c][k] EXCEPT !.status = "completed"]
      OBVIOUS
    <3>2. files' = [files EXCEPT ![c] = [files[c] EXCEPT ![k] = g]]
      BY <1>7, <2>1, <3>1
    <3>3. /\ g \in Files /\ g.name = n /\ g.mode = files[c][k].mode /\ g.full = files[c][k].full
          /\ g.digest = files[c][k].digest /\ g.calcIndex = files[c][k].calcIndex
          /\ g.verdict = files[c][k].verdict /\ g.owner = files[c][k].owner
      BY <1>5, <1>6, <3>1 DEF Files
    <3>4. /\ files' \in [Clients -> Seq(Files)] /\ Len(files'[c]) = Len(files[c]) /\ files'[c][k] = g
          /\ \A j \in 1..Len(files[c]) : j # k => files'[c][j] = files[c][j]
          /\ \A d \in Clients \ {c} : files'[d] = files[d]
      BY <1>1, <1>5, <3>2, <3>3, FileChanged
    <3>5. QED
      BY <3>3, <3>4
  <2>2. CASE ~(up[c] /\ handle)
    <3>1. files' = files
      BY <1>7, <2>2
    <3>2. files \in [Clients -> Seq(Files)]
      BY <1>1 DEF TypeInv
    <3>3. QED
      BY <1>5, <1>6, <3>1, <3>2
  <2>3. QED
    BY <2>1, <2>2
<1>10. FilesKept(c) /\ \A j \in 1..Len(files[c]) : DigestKept(c, j)
  <2>1. ASSUME NEW j \in 1..Len(files[c])
        PROVE  /\ j \in 1..Len(files'[c])
               /\ files'[c][j].name = files[c][j].name /\ files'[c][j].mode = files[c][j].mode
               /\ files[c][j].full = files'[c][j].full
               /\ DigestKept(c, j)
    <3>1. CASE j = k
      BY <1>6, <1>9, <3>1 DEF DigestKept
    <3>2. CASE j # k
      BY <1>9, <3>2 DEF DigestKept
    <3>3. QED
      BY <3>1, <3>2
  <2>2. QED
    BY <2>1 DEF FilesKept, Whole
<1>11. TypeInv'
  <2>1. database' \cup lost' \cup told' \subseteq Clients \X Names
    BY <1>1, <1>8 DEF TypeInv
  <2>2. QED
    BY <1>1, <1>9, <2>1 DEF TypeInv
<1>12. FileInv(c)'
  <2>1. /\ g.full \subseteq Chunks(g.name) /\ Len(g.digest) = g.calcIndex /\ g.calcIndex <= Size[g.name]
        /\ g.mode = "read" \/ g.verdict # "none" => g.full = Chunks(g.name)
        /\ g.verdict = "accepted" => Verify(g)
    <3>1. /\ Len(files[c][k].digest) = files[c][k].calcIndex
          /\ files[c][k].calcIndex <= Size[files[c][k].name]
          /\ files[c][k].verdict = "accepted" => Verify(files[c][k])
      BY <1>3, <1>5 DEF FileInv
    <3>2. g.full = Chunks(g.name)
      BY <1>6, <1>9
    <3>3. g.verdict = "accepted" => Verify(g)
      BY <1>6, <1>9, <3>1 DEF Verify
    <3>4. QED
      BY <1>6, <1>9, <3>1, <3>2, <3>3
  <2>2. \A m \in Names : memo'[c][m] \in {0, memo[c][m]}
    OBVIOUS
  <2>3. g.name = files[c][k].name
    BY <1>6, <1>9
  <2>4. QED
    BY <1>3, <1>5, <1>9, <2>1, <2>2, <2>3, FileKept
<1>13. CalcInv(c)'
  <2> SUFFICES ASSUME NEW m \in CalcLoops, NEW i \in 1..Len(calcQueue[m]), calcQueue[m][i].client = c
               PROVE  CalcOk(c, m, i)'
    BY DEF CalcInv
  <2>1. calcQueue[m][i].file \in 1..Len(files[c])
    BY <1>3 DEF CalcInv, CalcOk
  <2>2. QED
    BY <1>3, <1>10, <2>1, CalcKept
<1>14. \A m \in Names : <<c, m>> \in database' => <<c, m>> \in database \/ m = n
  BY <1>8
<1>15. IoInv(c)'
  <2>1. \A m \in IoLoops : \A i \in 1..Len(ioQueue'[m]) : ioQueue'[m][i].client = c =>
          \E j \in 1..Len(ioQueue[m]) : ioQueue[m][j] = ioQueue'[m][i]
    BY <1>1 DEF NoMoreIo, NoMoreFor, NoneNew
  <2>2. \A m \in Names : <<c, m>> \in database' =>
           \/ <<c, m>> \in database
           \/ \E j \in 1..Len(files[c]) : Uploaded(c, j) /\ files[c][j].name = m
    BY <1>4, <1>5, <1>6, <1>14
  <2>3. \A m \in IoLoops : ~Free(m)' /\ writing'[m].client = c => m = Home[c]
    BY <1>3 DEF IoInv, Free
  <2>4. QED
    BY <1>3, <1>10, <2>1, <2>2, <2>3, IoKept
<1>16. SamePage(c) /\ SameWrite(c) /\ NoMoreIo(c) /\ NoMoreCalc(c)
  BY <1>1, CalcRests DEF SamePage, SameWrite, Free
<1>17. /\ \A m \in Names : Recorded(c, m) => Recorded(c, m)'
       /\ Recorded(c, n)' /\ Rows(c) \subseteq Rows(c)'
  BY <1>8 DEF Recorded, Rows
<1>18. DownInv(c)' /\ ToldInv(c)' /\ BodyInv(c)'
  <2>1. WritesOf(c)' => WritesOf(c)
    BY <1>16, WriteStays
  <2>2. QED
    BY <1>3, <1>17, <2>1 DEF ClientInv, DownInv, ToldInv, BodyInv, WholeDownload
<1>19. ASSUME up[c]
       PROVE  OnceInv(c)' /\ TurnInv(c)' /\ ReplyInv(c)' /\ DownloadInv(c)' /\ UploadInv(c)'
  <2>1. OnceInv(c) /\ TurnInv(c) /\ ReplyInv(c) /\ DownloadInv(c) /\ UploadInv(c)
    BY <1>3, <1>19 DEF ClientInv
  <2>2. OnceInv(c)' /\ TurnInv(c)'
    BY <1>1, <1>16, <2>1, FunctorsStay, TurnStays
  <2>3. ReplyInv(c)'
    <3>1. page'[c] = page[c] /\ reply'[c] = reply[c] /\ listed'[c] = listed[c]
      OBVIOUS
    <3>2. listed[c] \subseteq Rows(c)'
      BY <1>17, <2>1 DEF ReplyInv
    <3>3. \A names : names \subseteq Rows(c) => names \subseteq Rows(c)'
      BY <1>17
    <3>4. QED
      BY <2>1, <3>1, <3>2, <3>3 DEF ReplyInv
  <2>4. DownloadInv(c)'
    BY <1>1, <1>3, <1>10, <1>16, <2>1, DownloadStays
  <2>5. ASSUME NEW X, Awaits(c, X), X # {} PROVE Awaits(c, X)'
    <3>1. PICK m \in Nat : m = memo[c][page[c].name] /\ m # 0 /\ page[c].name \in Names
                           /\ files[c][m].full = Chunks(page[c].name) \ X /\ X \subseteq Chunks(page[c].name)
      <4>1. /\ page[c].name \in Names /\ memo[c][page[c].name] # 0
            /\ files[c][memo[c][page[c].name]].full = Chunks(page[c].name) \ X
            /\ X \subseteq Chunks(page[c].name)
        BY <2>5 DEF Awaits
      <4>2. memo[c][page[c].name] \in Nat
        BY <1>1, <4>1 DEF TypeInv
      <4>3. QED
        BY <4>1, <4>2
    <3>2. m \in 1..Len(files[c]) /\ files[c][m].name = page[c].name
      BY <1>3, <1>5, <3>1 DEF FileInv
    <3>3. m # k
      BY <1>6, <2>5, <3>1, <3>2
    <3>4. files'[c][m] = files[c][m]
      BY <1>9, <3>2, <3>3
    <3>5. QED
      BY <1>1, <2>5, <3>1, <3>4, AwaitsKept
  <2>6. \A m \in CalcLoops : \A i \in 1..Len(calcQueue[m]) :
          JudgeAt(c, m, i)' => files'[c][calcQueue[m][i].file].name = page[c].name
    <3> SUFFICES ASSUME NEW m \in CalcLoops, NEW i \in 1..Len(calcQueue[m]), JudgeAt(c, m, i)
                 PROVE  files'[c][calcQueue[m][i].file].name = page[c].name
      BY DEF JudgeAt, CalcAt
    <3>1. calcQueue[m][i].file \in 1..Len(files[c])
      BY <1>3 DEF CalcInv, CalcOk, JudgeAt, CalcAt
    <3>2. QED
      BY <1>10, <2>1, <3>1 DEF UploadInv, FilesKept
  <2>7. ASSUME NEW i \in 1..Len(ioQueue'[l]), SendAt(c, i)', ioQueue'[l][i].status = "ok"
        PROVE  \/ Recorded(c, page[c].name)'
               \/ \E j \in 1..(i - 1) :
                    /\ IoAt(c, j)' /\ ioQueue'[l][j].fn = "updateDataBase"
                    /\ files'[c][ioQueue'[l][j].file].name = page[c].name
    <3>1. PICK e \in 1..Len(ioQueue[l]) : e = i + 1 /\ ioQueue'[l][i] = ioQueue[l][e]
      BY <1>1
    <3>2. SendAt(c, e) /\ ioQueue[l][e].status = "ok"
      BY <1>4, <2>7, <3>1 DEF SendAt, IoAt
    <3>3. \/ Recorded(c, page[c].name)
          \/ \E j \in 1..(e - 1) :
               /\ IoAt(c, j) /\ ioQueue[l][j].fn = "updateDataBase"
               /\ files[c][ioQueue[l][j].file].name = page[c].name
      BY <1>4, <2>1, <3>2 DEF UploadInv
    <3>4. CASE Recorded(c, page[c].name)
      <4>1. page[c].name \in Names
        BY <1>1, <3>4 DEF Recorded, TypeInv
      <4>2. QED
        BY <1>17, <3>4, <4>1 DEF Recorded
    <3>5. ASSUME NEW j \in 1..(e - 1),
                 IoAt(c, j), ioQueue[l][j].fn = "updateDataBase",
                 files[c][ioQueue[l][j].file].name = page[c].name
          PROVE  \/ Recorded(c, page[c].name)'
                 \/ \E m \in 1..(i - 1) :
                    /\ IoAt(c, m)' /\ ioQueue'[l][m].fn = "updateDataBase"
                    /\ files'[c][ioQueue'[l][m].file].name = page[c].name
      <4>1. CASE j = 1
        <5>1. n = page[c].name
          BY <1>2, <1>6, <3>5, <4>1
        <5>2. QED
          BY <1>17, <5>1 DEF Recorded
      <4>2. CASE j # 1
        <5>1. PICK m \in 1..(i - 1) : j = m + 1
          <6>1. i \in Nat /\ e = i + 1 /\ j \in 1..i
            BY <1>1, <3>1, <3>5
          <6>2. j - 1 \in 1..(i - 1) /\ j = (j - 1) + 1
            BY <4>2, <6>1
          <6>3. QED
            BY <6>2
        <5>2. ioQueue'[l][m] = ioQueue[l][j] /\ IoAt(c, m)'
          BY <1>1, <1>4, <3>1, <3>5, <5>1 DEF IoAt
        <5>3. ioQueue[l][j].file \in 1..Len(files[c])
          BY <1>3, <1>4, <3>5 DEF IoInv, IoAt, Uploaded
        <5>4. files'[c][ioQueue[l][j].file].name = page[c].name
          BY <1>10, <3>5, <5>3 DEF FilesKept
        <5>5. QED
          BY <3>5, <5>2, <5>4
      <4>3. QED
        BY <4>1, <4>2
    <3>6. QED
      BY <3>3, <3>4, <3>5
  <2>8. Ready(c)' =>
          /\ page'[c].left # {} => Awaits(c, page[c].left)'
          /\ page'[c].left = {} /\ Storable(page'[c].name) => Recorded(c, page[c].name)'
    <3> SUFFICES ASSUME Ready(c)
                 PROVE  /\ page[c].left # {} => Awaits(c, page[c].left)'
                        /\ page[c].left = {} /\ Storable(page[c].name) => Recorded(c, page[c].name)'
      BY DEF Ready
    <3>1. page[c].left # {} => Awaits(c, page[c].left)'
      BY <2>1, <2>5 DEF UploadInv
    <3>2. Recorded(c, page[c].name) => page[c].name \in Names
      BY <1>1 DEF Recorded, TypeInv
    <3>3. QED
      BY <1>17, <2>1, <3>1, <3>2 DEF UploadInv
  <2>9. request'[c] # None /\ page'[c].doing = "chunk" => Awaits(c, page[c].left \cup {request[c].chunk})'
    BY <2>1, <2>5 DEF UploadInv
  <2>10. WritesOf(c)' =>
           /\ writing'[Home[c]].file = memo'[c][page'[c].name] /\ IsNext(c, writing[Home[c]].chunk)'
           /\ Awaits(c, page[c].left \cup {writing[Home[c]].chunk})'
    BY <2>1, <2>5 DEF UploadInv, WritesOf, Free, IsNext
  <2>11. \A i \in 1..Len(ioQueue'[Home[c]]) :
           SendAt(c, i)' /\ ioQueue'[Home[c]][i].status = "ok" =>
             \/ Recorded(c, page[c].name)'
             \/ \E j \in 1..(i - 1) :
                  /\ IoAt(c, j)' /\ ioQueue'[Home[c]][j].fn = "updateDataBase"
                  /\ files'[c][ioQueue'[Home[c]][j].file].name = page[c].name
    BY <1>4, <2>7
  <2>12. /\ page'[c].doing \in {"info", "ready", "chunk"} => page'[c].name \in Names
         /\ request'[c] # None /\ page'[c].doing = "info" =>
              request'[c].name = page'[c].name /\ page'[c].left = Chunks(page'[c].name)
         /\ request'[c] # None /\ page'[c].doing = "chunk" =>
              request'[c].name = page'[c].name /\ IsNext(c, request[c].chunk)'
    BY <2>1 DEF UploadInv, IsNext
  <2>13. UploadInv(c)'
    BY ZenonT(60), <2>6, <2>8, <2>9, <2>10, <2>11, <2>12 DEF UploadInv
  <2>14. QED
    BY <2>2, <2>3, <2>4, <2>13
<1>20. ClientInv(c)'
  BY <1>12, <1>13, <1>15, <1>18, <1>19 DEF ClientInv
<1>21. \A d \in Clients \ {c} : Untouched(d)
  <2>1. \A d \in Clients \ {c} : SameIo(d) /\ SameCalc(d)
    BY <1>1, <1>2, CalcRests
  <2>2. \A d \in Clients \ {c} : SameRows(d)
    BY <1>8 DEF SameRows
  <2>3. QED
    BY <1>9, <2>1, <2>2 DEF Untouched, SamePage, SameFiles, SameWrite, Free
<1>22. QED
  BY <1>11, <1>20, <1>21, ActorMoves

(* The reply to the last chunk.                                            *)
LEMMA SendPreserves ==
  ASSUME ServerInv, NEW l \in IoLoops, ioQueue[l] # <<>>, NEW f, f = Head(ioQueue[l]), f.fn = "send",
         reply' = IF up[f.client] THEN [reply EXCEPT ![f.client] = Append(@, Answer(f.status, {}))] ELSE reply,
         ioQueue' = [ioQueue EXCEPT ![l] = Tail(@)],
         UNCHANGED <<page, left, request, told, up, files, memo, writing, calcQueue, database, lost,
                     verified, listed, body>>
  PROVE  ServerInv'
<1>1. /\ TypeInv
      /\ ioQueue' \in [IoLoops -> Seq(IoFunctors)]
      /\ \A d : NoMoreIo(d)
      /\ \A d : d # ioQueue[l][1].client => SameIo(d)
      /\ f = ioQueue[l][1] /\ f \in IoFunctors
      /\ Len(ioQueue[l]) \in Nat \ {0} /\ Len(ioQueue'[l]) = Len(ioQueue[l]) - 1
      /\ \A i \in 1..(Len(ioQueue[l]) - 1) : ioQueue'[l][i] = ioQueue[l][i + 1]
  BY IoTaken DEF ServerInv
<1>2. PICK c \in Clients, st \in {"ok", "bad"} : f.client = c /\ f.status = st
  BY <1>1 DEF IoFunctors
<1>3. ClientInv(c) /\ FileInv(c) /\ CalcInv(c) /\ IoInv(c)
  BY DEF ServerInv, ClientInv
<1>4. l = Home[c]
  BY <1>1, <1>2, <1>3 DEF IoInv
<1>5. /\ up[c] => reply'[c] = Append(reply[c], Answer(st, {}))
      /\ ~up[c] => reply'[c] = reply[c]
      /\ \A d \in Clients \ {c} : reply'[d] = reply[d]
      /\ Answer(st, {}) \in Replying
  BY <1>1, <1>2 DEF TypeInv, Answer, Replying, Statuses, Contents
<1>6. TypeInv'
  <2>1. reply' \in [Clients -> Seq(Replying)]
    BY SMTT(60), <1>1, <1>2, <1>5, AppendProperties DEF TypeInv
  <2>2. QED
    BY <1>1, <2>1 DEF TypeInv
<1>7. SameWrite(c) /\ NoMoreIo(c) /\ NoMoreCalc(c)
  BY <1>1, CalcRests DEF SameWrite, Free
<1>8. FileInv(c)' /\ CalcInv(c)' /\ IoInv(c)'
  <2>1. \A n \in Names : <<c, n>> \in database' => <<c, n>> \in database
    OBVIOUS
  <2>2. QED
    BY <1>1, <1>3, <1>7, <2>1, FilesStay, CalcStays, IoStays
<1>9. ToldInv(c)' /\ BodyInv(c)'
  BY <1>3 DEF ClientInv, ToldInv, BodyInv, Recorded, WholeDownload
<1>10. DownInv(c)'
  <2>1. WritesOf(c)' => WritesOf(c)
    BY <1>7, WriteStays
  <2>2. QED
    BY <1>3, <1>5, <2>1 DEF ClientInv, DownInv
<1>11. ASSUME up[c]
       PROVE  OnceInv(c)' /\ TurnInv(c)' /\ ReplyInv(c)' /\ DownloadInv(c)' /\ UploadInv(c)'
  <2>1. OnceInv(c) /\ TurnInv(c) /\ ReplyInv(c) /\ DownloadInv(c) /\ UploadInv(c)
    BY <1>3, <1>11 DEF ClientInv
  <2>2. SendAt(c, 1)
    BY <1>1, <1>2, <1>4 DEF SendAt, IoAt
  <2>3. /\ reply[c] = <<>> /\ page[c].doing = "chunk" /\ page[c].left = {} /\ request[c] = None
        /\ ~WritesOf(c) /\ ~Judging(c) /\ ~Streaming(c)
    <3>1. Sending(c)
      BY <1>1, <1>4, <2>2 DEF Sending
    <3>2. QED
      BY <2>1, <3>1 DEF TurnInv
  <2>4. /\ OnceInv(c)' /\ ~WritesOf(c)' /\ ~Judging(c)' /\ ~Streaming(c)'
    <3>1. ~WritesOf(c)'
      BY <1>7, <2>3, WriteStays
    <3>2. QED
      BY <1>1, <1>7, <2>1, <2>3, <3>1, FunctorsStay
  <2>5. \A i : ~SendAt(c, i)'
    <3> SUFFICES ASSUME NEW i, SendAt(c, i)' PROVE FALSE
      OBVIOUS
    <3>1. i \in 1..(Len(ioQueue[l]) - 1) /\ ioQueue'[l][i].client = c /\ ioQueue'[l][i].fn = "send"
      BY <1>1, <1>4 DEF SendAt, IoAt
    <3>2. SendAt(c, i + 1) /\ i + 1 \in Nat /\ i + 1 # 1
      BY <1>1, <1>4, <3>1 DEF SendAt, IoAt
    <3>3. QED
      BY <2>1, <2>2, <3>2 DEF OnceInv
  <2>6. ~Sending(c)'
    BY <2>5 DEF Sending
  <2>7. reply'[c] = <<Answer(st, {})>>
    BY <1>5, <1>11, <2>3
  <2>8. TurnInv(c)' /\ ReplyInv(c)'
    BY <2>1, <2>3, <2>4, <2>6, <2>7 DEF TurnInv, ReplyInv, Rows
  <2>9. DownloadInv(c)'
    BY <2>3 DEF DownloadInv
  <2>10. st = "ok" => Recorded(c, page[c].name)
    BY SMTT(60), <1>1, <1>2, <1>4, <2>1, <2>2 DEF UploadInv
  <2>11. Ready(c)' => st = "ok"
    <3>1. Head(<<Answer(st, {})>>).status = st
      BY DEF Answer
    <3>2. QED
      BY <1>1, <2>3, <2>7, <3>1 DEF Ready
  <2>12. UploadInv(c)'
    BY <2>1, <2>3, <2>4, <2>5, <2>10, <2>11 DEF UploadInv, Recorded, Judging, JudgeAt, CalcAt
  <2>13. QED
    BY <2>4, <2>8, <2>9, <2>12
<1>12. ClientInv(c)'
  BY <1>8, <1>9, <1>10, <1>11 DEF ClientInv
<1>13. \A d \in Clients \ {c} : Untouched(d)
  <2>1. \A d \in Clients \ {c} : SameIo(d) /\ SameCalc(d)
    BY <1>1, <1>2, CalcRests
  <2>2. QED
    BY <1>5, <2>1 DEF Untouched, SamePage, SameFiles, SameWrite, SameRows, Free
<1>14. QED
  BY <1>6, <1>12, <1>13, ActorMoves

LEMMA RunIoFunctorPreserves ==
  ASSUME ServerInv, NEW l \in IoLoops, RunIoFunctor(l), UNCHANGED serverVars
  PROVE  ServerInv'
<1> USE DEF pageVars, databaseVars, serverVars
<1>1. PICK f : f = Head(ioQueue[l])
  OBVIOUS
<1>2. CASE f.fn = "updateDataBase" /\ UpdateDataBase(f) /\ UNCHANGED reply
  <2>1. ioQueue[l] # <<>> /\ Head(ioQueue[l]).fn = "updateDataBase" /\ UpdateDataBase(Head(ioQueue[l]))
    BY <1>1, <1>2 DEF RunIoFunctor
  <2>2. /\ ioQueue' = [ioQueue EXCEPT ![l] = Tail(@)]
        /\ UNCHANGED <<page, left, request, told, reply, up, memo, writing, calcQueue, verified, listed, body>>
    BY <1>2 DEF RunIoFunctor
  <2>3. QED
    BY <2>1, <2>2, UpdateDataBasePreserves
<1>3. CASE /\ f.fn = "send"
           /\ reply' = IF up[f.client] THEN [reply EXCEPT ![f.client] = Append(@, Answer(f.status, {}))] ELSE reply
           /\ UNCHANGED <<databaseVars, files>>
  <2>1. /\ ioQueue[l] # <<>> /\ ioQueue' = [ioQueue EXCEPT ![l] = Tail(@)]
        /\ UNCHANGED <<page, left, request, told, up, files, memo, writing, calcQueue, database, lost,
                     verified, listed, body>>
    BY <1>3 DEF RunIoFunctor
  <2>2. QED
    BY <1>1, <1>3, <2>1, SendPreserves
<1>4. QED
  BY <1>1, <1>2, <1>3 DEF RunIoFunctor

(***************************************************************************)
(* The other handlers.                                                     *)
(***************************************************************************)
LEMMA LoginOrListPreserves ==
  ASSUME ServerInv, NEW c \in Clients, NEW post \in {"login", "list"}, Arrived(c, post),
         NEW answers \in Seq(Replying), Handled(c, answers),
         UNCHANGED <<files, memo, ioQueue>>, verified' \subseteq Clients,
         post = "login" => answers \in {<<Answer("redirect", {})>>, <<Answer("bad", {})>>,
                                        <<Answer("refused", {}), Answer("bad", {})>>},
         post = "list" => answers \in {<<Answer("bad", {})>>, <<Answer("ok", Rows(c))>>}
  PROVE  ServerInv'
<1> USE DEF databaseVars
<1>1. /\ TypeInv /\ ClientInv(c) /\ up[c]
      /\ OnceInv(c) /\ TurnInv(c) /\ ReplyInv(c) /\ UploadInv(c) /\ DownloadInv(c)
      /\ NothingOwed(c) /\ reply[c] = <<>> /\ page[c] \in Pages /\ page[c].doing = post
      /\ request[c] \in Requests /\ request[c] # None /\ request[c].post = post
  BY RequestArrived
<1>2. /\ request'[c] = None /\ reply'[c] = answers
      /\ \A d \in Clients \ {c} : request'[d] = request[d] /\ reply'[d] = reply[d]
      /\ UNCHANGED <<page, left, told, up, files, memo, writing, ioQueue, calcQueue, database, lost, listed, body>>
  <2>1. <<>> \o answers = answers
    OBVIOUS
  <2>2. request'[c] = None /\ reply'[c] = reply[c] \o answers
        /\ \A d \in Clients \ {c} : request'[d] = request[d] /\ reply'[d] = reply[d]
    BY <1>1 DEF Handled, Answered, TypeInv
  <2>3. QED
    BY <1>1, <2>1, <2>2 DEF Handled
<1>3. TypeInv'
  <2>1. request' \in [Clients -> Requests \cup {None}] /\ reply' \in [Clients -> Seq(Replying)]
    BY <1>1, <1>2 DEF Handled, Answered, TypeInv
  <2>2. QED
    BY <1>1, <1>2, <2>1 DEF TypeInv
<1>4. NothingOwed(c)'
  BY <1>1, <1>2, FunctorsRest
<1>5. TurnInv(c)'
  BY <1>2, <1>4 DEF TurnInv, NothingOwed
<1>6. ReplyInv(c)'
  <2>1. Rows(c) \in SUBSET Names /\ listed[c] \subseteq Rows(c)
    BY <1>1 DEF TypeInv, Rows, ReplyInv
  <2>2. page'[c].doing = post /\ listed'[c] = listed[c] /\ Rows(c)' = Rows(c)
    BY <1>1, <1>2 DEF Rows
  <2>3. CASE post = "login"
    BY <1>2, <2>1, <2>2, <2>3 DEF ReplyInv
  <2>4. CASE post = "list"
    BY <1>2, <2>1, <2>2, <2>4 DEF ReplyInv
  <2>5. QED
    BY <2>3, <2>4
<1>7. UploadInv(c)'
  BY <1>1, <1>2, <1>3, <1>4, UploadRests
<1>8. DownloadInv(c)' /\ ToldInv(c)' /\ BodyInv(c)'
  BY <1>1, <1>2 DEF ClientInv, DownloadInv, ToldInv, BodyInv, Recorded, WholeDownload
<1>9. \A d \in Clients \ {c} : SamePage(d) /\ \A n \in Names : <<d, n>> \in told' => <<d, n>> \in told
  BY <1>2 DEF SamePage
<1>10. QED
  BY <1>1, <1>2, <1>3, <1>5, <1>6, <1>7, <1>8, <1>9, PageMoves

LEMMA LoginHandlerPreserves ==
  ASSUME ServerInv, NEW c \in Clients, LoginHandler(c)
  PROVE  ServerInv'
<1>1. Arrived(c, "login") /\ UNCHANGED <<files, memo, ioQueue>> /\ verified \subseteq Clients
  BY DEF LoginHandler, ServerInv, TypeInv
<1>2. verified' \subseteq Clients
  BY <1>1 DEF LoginHandler
<1>3. /\ <<Answer("redirect", {})>> \in Seq(Replying) /\ <<Answer("bad", {})>> \in Seq(Replying)
      /\ <<Answer("refused", {}), Answer("bad", {})>> \in Seq(Replying)
  BY DEF Answer, Replying, Statuses, Contents
<1>4. PICK answers \in Seq(Replying) :
        /\ Handled(c, answers)
        /\ answers \in {<<Answer("redirect", {})>>, <<Answer("bad", {})>>,
                        <<Answer("refused", {}), Answer("bad", {})>>}
  BY <1>3, Zenon DEF LoginHandler
<1>5. QED
  BY <1>1, <1>2, <1>4, LoginOrListPreserves

LEMMA ListHandlerPreserves ==
  ASSUME ServerInv, NEW c \in Clients, ListHandler(c)
  PROVE  ServerInv'
<1>1. Arrived(c, "list") /\ UNCHANGED <<verified, files, memo, ioQueue>> /\ TypeInv
  BY DEF ListHandler, ServerInv
<1>2. verified' \subseteq Clients
  BY <1>1 DEF TypeInv
<1>3. Rows(c) \in SUBSET Names
  BY <1>1 DEF TypeInv, Rows
<1>4. <<Answer("bad", {})>> \in Seq(Replying) /\ <<Answer("ok", Rows(c))>> \in Seq(Replying)
  BY <1>3 DEF Answer, Replying, Statuses, Contents
<1>5. PICK answers \in Seq(Replying) :
        Handled(c, answers) /\ answers \in {<<Answer("bad", {})>>, <<Answer("ok", Rows(c))>>}
  BY <1>4 DEF ListHandler
<1>6. QED
  BY <1>1, <1>2, <1>5, LoginOrListPreserves

LEMMA ConnectionDownPreserves ==
  ASSUME ServerInv, NEW c \in Clients, ConnectionDown(c)
  PROVE  ServerInv'
<1> USE DEF databaseVars
<1>1. TypeInv /\ ClientInv(c) /\ Home[c] \in IoLoops
  BY UploadAssumption DEF ServerInv
<1>2. /\ up'[c] = FALSE /\ memo'[c] = [n \in Names |-> 0] /\ request'[c] = None /\ reply'[c] = <<>>
      /\ page'[c] = [doing |-> "closed", name |-> None, left |-> {}]
      /\ \A d \in Clients \ {c} : /\ page'[d] = page[d] /\ request'[d] = request[d] /\ reply'[d] = reply[d]
                                  /\ up'[d] = up[d] /\ memo'[d] = memo[d]
      /\ UNCHANGED <<left, told, files, writing, ioQueue, calcQueue, database, lost, listed, body>>
      /\ Free(Home[c])
  BY <1>1 DEF ConnectionDown, GoDown, TypeInv, Idle
<1>3. TypeInv'
  <2>1. page'[c] \in Pages
    BY <1>2 DEF Pages, Doings
  <2>2. page' \in [Clients -> Pages] /\ request' \in [Clients -> Requests \cup {None}]
        /\ up' \in [Clients -> BOOLEAN] /\ memo' \in [Clients -> [Names -> Nat]]
    BY <1>1, <2>1 DEF ConnectionDown, GoDown, TypeInv
  <2>3. <<>> \in Seq(Replying)
    BY EmptySeq
  <2>4. reply' \in [Clients -> Seq(Replying)]
    BY <1>1, <2>3 DEF ConnectionDown, GoDown, TypeInv
  <2>5. QED
    BY <1>1, <1>2, <2>2, <2>4 DEF ConnectionDown, TypeInv
<1>4. FileInv(c)'
  <2>1. files[c] \in Seq(Files)
    BY <1>1 DEF TypeInv
  <2>2. Len(files[c]) \in Nat
    BY <2>1, LenProperties
  <2>3. QED
    BY <1>1, <1>2, <2>2 DEF ClientInv, FileInv, Whole
<1>5. CalcInv(c)' /\ IoInv(c)'
  <2>1. NoMoreCalc(c) /\ NoMoreIo(c) /\ SameWrite(c)
    BY <1>1, <1>2, CalcRests, IoRests DEF SameWrite, Free
  <2>2. \A n \in Names : <<c, n>> \in database' => <<c, n>> \in database
    BY <1>2
  <2>3. QED
    BY <1>1, <1>2, <2>1, <2>2, CalcStays, IoStays DEF ClientInv
<1>6. DownInv(c)'
  BY <1>1, <1>2 DEF DownInv, WritesOf, Free
<1>7. ToldInv(c)' /\ BodyInv(c)'
  BY <1>1, <1>2 DEF ClientInv, ToldInv, BodyInv, Recorded, WholeDownload
<1>8. ClientInv(c)'
  BY <1>2, <1>4, <1>5, <1>6, <1>7 DEF ClientInv
<1>9. \A d \in Clients \ {c} : Untouched(d)
  BY <1>1, <1>2, CalcRests, IoRests DEF Untouched, SamePage, SameFiles, SameWrite, SameRows, Free
<1>10. QED
  BY <1>3, <1>8, <1>9, ActorMoves

(***************************************************************************)
(* Downloads.  A row stands for a file that is whole on the disk.          *)
(***************************************************************************)
LEMMA RowOnDisk ==
  ASSUME TypeInv, NEW c \in Clients, IoInv(c), NEW n \in Rows(c)
  PROVE  n \in Names /\ OnDisk(n) = Chunks(n) /\ Size[n] # 0
<1>1. n \in Names /\ <<c, n>> \in database
  <2>1. PICK r \in database : r[1] = c /\ r[2] = n
    BY DEF Rows
  <2>2. r \in Clients \X Names
    BY DEF TypeInv
  <2>3. QED
    BY <2>1, <2>2
<1>2. PICK k \in 1..Len(files[c]) : Uploaded(c, k) /\ files[c][k].name = n
  BY <1>1 DEF IoInv
<1>3. /\ files[c][k].name = n /\ files[c][k].mode = "write"
      /\ files[c][k].full = Chunks(n) /\ Size[n] # 0
  BY <1>2 DEF Uploaded, Whole
<1>4. k \in DOMAIN files[c]
  <2>1. files[c] \in Seq(Files)
    BY DEF TypeInv
  <2>2. QED
    BY <2>1, LenProperties
<1>5. Chunks(n) \subseteq OnDisk(n)
  BY <1>3, <1>4 DEF OnDisk
<1>6. QED
  BY <1>1, <1>3, <1>5 DEF OnDisk

LEMMA HowMany ==
  ASSUME NEW n \in Names
  PROVE  IsFiniteSet(Chunks(n)) /\ Cardinality(Chunks(n)) = Size[n]
<1>1. PICK z \in Nat : z = Size[n]
  BY SizeType
<1>2. 0 \in Int /\ z - 1 \in Int /\ (IF 0 > z - 1 THEN 0 ELSE z - 1 - 0 + 1) = z
  OBVIOUS
<1>3. IsFiniteSet(0..(z - 1)) /\ Cardinality(0..(z - 1)) = z
  BY <1>2, FS_Interval
<1>4. QED
  BY <1>1, <1>3 DEF Chunks

(* What is on its way of a file, after b pieces of it and before e.        *)
OnItsWay(r, n, b, e) ==
  \/ r = Pieces(n, b, e)
  \/ b = 0 /\ r = <<Answer("ok", {})>> \o Pieces(n, 0, e)

LEMMA OneMore ==
  ASSUME NEW n \in Names, NEW b \in Nat, NEW e \in Nat, b <= e,
         NEW r \in Seq(Replying), OnItsWay(r, n, b, e)
  PROVE  OnItsWay(r \o <<Piece(n, e)>>, n, b, e + 1) /\ r \o <<Piece(n, e)>> \in Seq(Replying)
<1>1. PICK x \in Replying : x = Piece(n, e)
  BY PieceType
<1>2. PICK p \in Seq(Replying) : p = Pieces(n, b, e)
  BY PiecesProperties
<1>3. p \o <<x>> = Pieces(n, b, e + 1)
  <2>1. Append(p, x) = Pieces(n, b, e + 1)
    BY <1>1, <1>2, LastPiece
  <2>2. Append(p, x) = p \o <<x>>
    BY AppendIsConcat
  <2>3. QED
    BY <2>1, <2>2
<1>4. r \o <<x>> \in Seq(Replying)
  OBVIOUS
<1>5. CASE r = p
  BY <1>1, <1>3, <1>4, <1>5 DEF OnItsWay
<1>6. CASE b = 0 /\ r = <<Answer("ok", {})>> \o p
  <2>1. PICK a \in Replying : a = Answer("ok", {})
    BY DEF Answer, Replying, Statuses, Contents
  <2>2. <<a>> \in Seq(Replying) /\ <<x>> \in Seq(Replying)
    OBVIOUS
  <2>3. r \o <<x>> = <<a>> \o (p \o <<x>>)
    BY <1>6, <2>1, <2>2, ConcatAssociative
  <2>4. QED
    BY <1>1, <1>3, <1>4, <1>6, <2>1, <2>3 DEF OnItsWay
<1>7. QED
  BY <1>2, <1>5, <1>6 DEF OnItsWay

(* The first functor of a loop runs and pushes p, for the connection c.    *)
QueueMoved(l, c, p) ==
  /\ ioQueue' \in [IoLoops -> Seq(IoFunctors)]
  /\ \A d : d # c /\ d # ioQueue[l][1].client => SameIo(d)
  /\ Len(ioQueue[l]) \in Nat \ {0} /\ Len(p) \in Nat /\ Len(ioQueue'[l]) = Len(ioQueue[l]) - 1 + Len(p)
  /\ \A i \in 1..(Len(ioQueue[l]) - 1) : ioQueue'[l][i] = ioQueue[l][i + 1]
  /\ \A i \in Len(ioQueue[l])..Len(ioQueue'[l]) :
       i - (Len(ioQueue[l]) - 1) \in 1..Len(p) /\ ioQueue'[l][i] = p[i - (Len(ioQueue[l]) - 1)]

LEMMA IoStreamed ==
  ASSUME TypeInv, NEW l \in IoLoops, ioQueue[l] # <<>>, NEW p \in Seq(IoFunctors),
         ioQueue' = [ioQueue EXCEPT ![l] = Tail(@) \o p], NEW c,
         \A i \in 1..Len(p) : p[i].client = c
  PROVE  QueueMoved(l, c, p)
<1>1. ioQueue \in [IoLoops -> Seq(IoFunctors)]
  BY DEF TypeInv
<1>2. PICK q \in Seq(IoFunctors) : q = ioQueue[l] /\ q # <<>>
  BY <1>1
<1>3. PICK t \in Seq(IoFunctors) : /\ t = Tail(q) /\ Len(q) \in Nat \ {0} /\ Len(t) = Len(q) - 1
                                   /\ \A i \in 1..(Len(q) - 1) : t[i] = q[i + 1]
  <2>1. /\ Len(q) \in Nat \ {0} /\ Tail(q) \in Seq(IoFunctors) /\ Len(Tail(q)) = Len(q) - 1
        /\ \A i \in 1..(Len(q) - 1) : Tail(q)[i] = q[i + 1]
    BY <1>2, HeadTail
  <2>2. QED
    BY <2>1
<1>4. /\ t \o p \in Seq(IoFunctors) /\ Len(t \o p) = Len(t) + Len(p)
      /\ \A i \in 1..Len(t) : (t \o p)[i] = t[i]
      /\ \A i \in (Len(t) + 1)..Len(t \o p) : (t \o p)[i] = p[i - Len(t)] /\ i - Len(t) \in 1..Len(p)
      /\ Len(p) \in Nat
  BY Concat
<1>5. /\ ioQueue'[l] = t \o p /\ ioQueue' \in [IoLoops -> Seq(IoFunctors)]
      /\ \A m \in IoLoops \ {l} : ioQueue'[m] = ioQueue[m]
  BY <1>1, <1>2, <1>3, <1>4
<1>6. ASSUME NEW d, d # c, d # q[1].client PROVE SameIo(d)
  <2>1. \A i \in 1..Len(p) : p[i].client # d
    BY <1>6
  <2>2. SameFor(d, q, Tail(q) \o p)
    BY <1>2, <1>6, <2>1, SameTail
  <2>3. \A m \in IoLoops \ {l} : SameFor(d, ioQueue[m], ioQueue'[m])
    BY <1>1, <1>5, SameItself
  <2>4. QED
    BY <1>2, <1>3, <1>5, <2>2, <2>3 DEF SameIo
<1>7. \A i \in 1..(Len(q) - 1) : (t \o p)[i] = q[i + 1]
  BY <1>3, <1>4
<1>8. \A i \in Len(q)..Len(t \o p) : i - (Len(q) - 1) \in 1..Len(p) /\ (t \o p)[i] = p[i - (Len(q) - 1)]
  <2>1. Len(t) + 1 = Len(q)
    BY <1>3
  <2>2. QED
    BY <1>3, <1>4, <2>1
<1>9. QED
  BY <1>2, <1>3, <1>4, <1>5, <1>6, <1>7, <1>8 DEF QueueMoved

(* FileServer::streamSend, after the connection went down.                 *)
LEMMA StreamDroppedPreserves ==
  ASSUME ServerInv, NEW l \in IoLoops, ioQueue[l] # <<>>, NEW c \in Clients,
         ioQueue[l][1].client = c, ~up[c], ioQueue' = [ioQueue EXCEPT ![l] = Tail(@)],
         UNCHANGED <<pageVars, reply, up, fileVars, calcQueue, databaseVars, serverVars>>
  PROVE  ServerInv'
<1> USE DEF pageVars, fileVars, databaseVars, serverVars
<1>1. TypeInv /\ ClientInv(c)
  BY DEF ServerInv
<1>2. /\ ioQueue' \in [IoLoops -> Seq(IoFunctors)]
      /\ \A d : NoMoreIo(d)
      /\ \A d : d # c => SameIo(d)
  BY <1>1, IoTaken
<1>3. TypeInv'
  BY <1>1, <1>2 DEF TypeInv
<1>4. \A d \in Clients : SameWrite(d) /\ SameCalc(d) /\ NoMoreCalc(d)
  BY <1>1, CalcRests DEF SameWrite, Free
<1>5. FileInv(c)' /\ CalcInv(c)' /\ IoInv(c)'
  <2>1. \A n \in Names : <<c, n>> \in database' => <<c, n>> \in database
    OBVIOUS
  <2>2. QED
    BY <1>1, <1>2, <1>4, <2>1, FilesStay, CalcStays, IoStays DEF ClientInv
<1>6. DownInv(c)'
  BY <1>1, <1>4, DownStays DEF ClientInv, SamePage, SameFiles
<1>7. ToldInv(c)' /\ BodyInv(c)'
  BY <1>1 DEF ClientInv, ToldInv, BodyInv, Recorded, WholeDownload
<1>8. ClientInv(c)'
  BY <1>5, <1>6, <1>7 DEF ClientInv
<1>9. \A d \in Clients \ {c} : Untouched(d)
  BY <1>2, <1>4 DEF Untouched, SamePage, SameFiles, SameRows
<1>10. QED
  BY <1>3, <1>8, <1>9, ActorMoves

(* What the page is sent, and what the loop is left with.                  *)
LEMMA StreamMoves ==
  ASSUME ServerInv, NEW l \in IoLoops, NEW c \in Clients, l = Home[c],
         ioQueue[l] # <<>>, ioQueue[l][1].client = c, ioQueue[l][1].fn = "streamSend", up[c],
         NEW n \in Names, NEW e \in Nat, NEW z \in Nat, z \in (e + 1)..(Size[n] + 1),
         Sent(c, n, e), Opened(c, n), page[c].doing = "download", request[c] = None,
         ~WritesOf(c), ~Judging(c), ~Sending(c),
         NEW p \in Seq(IoFunctors), p \in {<<>>, <<Stream(c, n, z)>>},
         p # <<>> => z < Size[n],
         ioQueue' = [ioQueue EXCEPT ![l] = Tail(@) \o p],
         NEW r \in Seq(Replying), OnItsWay(r, n, Len(body[c]), z), r # <<>>,
         reply' = [reply EXCEPT ![c] = r],
         UNCHANGED <<pageVars, up, fileVars, calcQueue, databaseVars, serverVars>>
  PROVE  ServerInv'
<1> USE DEF pageVars, fileVars, databaseVars, serverVars
<1>1. TypeInv /\ ClientInv(c) /\ OnceInv(c) /\ TurnInv(c) /\ ReplyInv(c) /\ UploadInv(c) /\ DownloadInv(c)
  BY DEF ServerInv, ClientInv
<1>2. \A i \in 1..Len(p) : p[i] = Stream(c, n, z) /\ p[i].client = c /\ p # <<>> /\ i = 1
  <2>1. PICK x : x = Stream(c, n, z) /\ x.client = c
    <3>1. Stream(c, n, z).client = c
      BY DEF Stream
    <3>2. QED
      BY <3>1
  <2>2. CASE p = <<>>
    BY <2>2
  <2>3. CASE p = <<x>>
    <3>1. p # <<>> /\ Len(p) = 1 /\ p[1] = x
      BY <2>3
    <3>2. QED
      BY <2>1, <3>1
  <2>4. QED
    BY <2>1, <2>2, <2>3
<1>3. \A i \in 1..Len(p) : p[i].client = c
  BY <1>2
<1>4. QueueMoved(l, c, p)
  BY <1>1, <1>3, IoStreamed
<1>5. PICK s \in Nat \ {0} : s = Len(ioQueue[l])
  BY <1>4 DEF QueueMoved
<1>6. /\ ioQueue' \in [IoLoops -> Seq(IoFunctors)]
      /\ \A d : d # c => SameIo(d)
      /\ Len(p) \in Nat /\ Len(ioQueue'[l]) = s - 1 + Len(p)
      /\ \A i \in 1..(s - 1) : ioQueue'[l][i] = ioQueue[l][i + 1]
      /\ \A i \in s..Len(ioQueue'[l]) : i - (s - 1) \in 1..Len(p) /\ ioQueue'[l][i] = p[i - (s - 1)]
  BY <1>4, <1>5 DEF QueueMoved
<1>7. /\ reply'[c] = r /\ \A d \in Clients \ {c} : reply'[d] = reply[d]
      /\ reply' \in [Clients -> Seq(Replying)]
  BY <1>1 DEF TypeInv
<1>8. TypeInv'
  BY <1>1, <1>6, <1>7 DEF TypeInv
<1>9. \A i \in 1..Len(ioQueue'[l]) :
        \/ i \in 1..(s - 1) /\ i + 1 \in 1..s /\ ioQueue'[l][i] = ioQueue[l][i + 1]
        \/ i = s /\ p # <<>> /\ ioQueue'[l][i] = Stream(c, n, z)
  <2> SUFFICES ASSUME NEW i \in 1..Len(ioQueue'[l]), ~(i \in 1..(s - 1))
               PROVE  i = s /\ p # <<>> /\ ioQueue'[l][i] = Stream(c, n, z)
    <3>1. \A i \in 1..(s - 1) : i + 1 \in 1..s
      OBVIOUS
    <3>2. \A i \in 1..(s - 1) : ioQueue'[l][i] = ioQueue[l][i + 1]
      BY <1>6
    <3>3. QED
      BY <3>1, <3>2
  <2>1. i \in s..Len(ioQueue'[l])
    BY <1>6
  <2>2. i - (s - 1) \in 1..Len(p) /\ ioQueue'[l][i] = p[i - (s - 1)]
    BY <1>6, <2>1
  <2>3. PICK j \in 1..Len(p) : j = i - (s - 1)
    BY <2>2
  <2>4. j = 1 /\ p # <<>> /\ p[j] = Stream(c, n, z)
    BY <1>2
  <2>5. QED
    BY SMTT(30), <2>2, <2>3, <2>4
<1>10. StreamAt(c, 1)
  BY <1>5 DEF StreamAt, IoAt
<1>11. \A i \in Nat : StreamAt(c, i)' => i = s /\ p # <<>> /\ ioQueue'[l][i] = Stream(c, n, z)
  <2> SUFFICES ASSUME NEW i \in Nat, StreamAt(c, i)'
               PROVE  i = s /\ p # <<>> /\ ioQueue'[l][i] = Stream(c, n, z)
    OBVIOUS
  <2>0. i \in 1..Len(ioQueue'[l])
    BY DEF StreamAt, IoAt
  <2> SUFFICES ASSUME i \in 1..(s - 1), i + 1 \in 1..s, ioQueue'[l][i] = ioQueue[l][i + 1]
               PROVE  FALSE
    BY <1>9, <2>0
  <2>1. i \in 1..(s - 1) /\ i + 1 \in 1..s /\ ioQueue'[l][i] = ioQueue[l][i + 1]
    OBVIOUS
  <2>2. StreamAt(c, i + 1) /\ i + 1 \in Nat /\ i + 1 # 1
    BY SMTT(30), <1>5, <2>1 DEF StreamAt, IoAt
  <2>3. QED
    BY <1>1, <1>10, <2>2 DEF OnceInv
<1>12. \A i : ~SendAt(c, i)'
  <2> SUFFICES ASSUME NEW i, SendAt(c, i)' PROVE FALSE
    OBVIOUS
  <2>1. i \in 1..Len(ioQueue'[l]) /\ ioQueue'[l][i].fn = "send" /\ ioQueue'[l][i].client = c
    BY DEF SendAt, IoAt
  <2>2. ioQueue'[l][i] # Stream(c, n, z)
    BY SMTT(30), <2>1 DEF Stream
  <2>3. i + 1 \in 1..Len(ioQueue[l]) /\ SendAt(c, i + 1)
    BY <1>5, <1>9, <2>1, <2>2 DEF SendAt, IoAt
  <2>4. QED
    BY <2>3 DEF Sending
<1>13. \A d \in Clients : SameWrite(d) /\ SameCalc(d) /\ NoMoreCalc(d)
  BY <1>1, CalcRests DEF SameWrite, Free
<1>14. FilesKept(c)
  BY DEF FilesKept, Whole
<1>15. FileInv(c)' /\ CalcInv(c)' /\ DownInv(c)' /\ ToldInv(c)' /\ BodyInv(c)'
  <2>1. FileInv(c)' /\ CalcInv(c)'
    BY <1>1, <1>13, FilesStay, CalcStays DEF ClientInv
  <2>2. QED
    BY <1>1, <2>1 DEF ClientInv, DownInv, ToldInv, BodyInv, Recorded, WholeDownload
<1>16. IoInv(c)'
  <2>1. ASSUME NEW m \in IoLoops, NEW i \in 1..Len(ioQueue'[m]), ioQueue'[m][i].client = c
        PROVE  \/ \E j \in 1..Len(ioQueue[m]) : ioQueue[m][j] = ioQueue'[m][i]
               \/ m = Home[c] /\ (ioQueue'[m][i].fn = "updateDataBase" => Uploaded(c, ioQueue[m][i].file)')
    <3>1. CASE m = l
      <4>1. Stream(c, n, z).fn # "updateDataBase"
        BY DEF Stream
      <4>2. QED
        BY <1>5, <1>9, <3>1, <4>1
    <3>2. CASE m # l
      <4>1. ioQueue'[m] = ioQueue[m]
        BY <1>1, <3>2 DEF TypeInv
      <4>2. QED
        BY <4>1
    <3>3. QED
      BY <3>1, <3>2
  <2>2. IoInv(c)
    BY <1>1 DEF ClientInv
  <2>3. \A k \in IoLoops : ~Free(k)' /\ writing'[k].client = c => k = Home[c]
    BY <2>2 DEF IoInv, Free
  <2>4. QED
    BY <1>14, <2>1, <2>2, <2>3, IoKept
<1>17. ~WritesOf(c)' /\ ~Judging(c)' /\ ~Sending(c)'
  BY <1>12 DEF WritesOf, Free, Judging, JudgeAt, CalcAt, Sending
<1>18. OnceInv(c)'
  BY <1>11, <1>12, <1>17 DEF OnceInv, Judging, JudgeAt, CalcAt, StreamAt, IoAt
<1>19. TurnInv(c)' /\ ReplyInv(c)'
  BY <1>1, <1>17 DEF TurnInv, ReplyInv, Rows
<1>20. UploadInv(c)'
  BY <1>1, <1>12, <1>17 DEF UploadInv, Ready, Judging, JudgeAt, CalcAt
<1>21. Sent(c, n, z)'
  <2>1. Len(body[c]) \in Nat /\ Len(body[c]) <= z
    <3>1. body[c] \in Seq(Replying)
      BY <1>1 DEF TypeInv
    <3>2. Len(body[c]) \in Nat
      BY <3>1, LenProperties
    <3>3. QED
      BY <3>2 DEF Sent
  <2>2. z \in 0..(Size[n] + 1)
    BY SizeType
  <2>3. Len(body[c]) = 0 => body[c] = <<>>
    BY <1>1, EmptySeq DEF TypeInv
  <2>4. QED
    BY <1>7, <2>1, <2>2, <2>3 DEF Sent, OnItsWay
<1>22. DownloadInv(c)'
  <2>1. ASSUME NEW i \in 1..Len(ioQueue'[l]), StreamAt(c, i)'
        PROVE  /\ ioQueue'[l][i].name = n /\ ioQueue'[l][i].index = z
               /\ z < Size[n] /\ Opened(c, n)'
    <3>1. i \in Nat
      OBVIOUS
    <3>2. p # <<>> /\ ioQueue'[l][i] = Stream(c, n, z)
      BY <1>11, <2>1, <3>1
    <3>3. QED
      BY SMTT(30), <3>2 DEF Stream, Opened
  <2>2. \A i \in 1..Len(ioQueue'[Home[c]]) : StreamAt(c, i)' =>
          /\ ioQueue'[Home[c]][i].name = n /\ ioQueue'[Home[c]][i].index = z
          /\ z < Size[n] /\ Opened(c, n)'
    BY <2>1
  <2>3. request'[c] = None
    OBVIOUS
  <2>4. \E m \in Names : \E y \in Nat :
          /\ Sent(c, m, y)'
          /\ \A i \in 1..Len(ioQueue'[Home[c]]) : StreamAt(c, i)' =>
               /\ ioQueue'[Home[c]][i].name = m /\ ioQueue'[Home[c]][i].index = y
               /\ y < Size[m] /\ Opened(c, m)'
    BY <1>21, <2>2
  <2>5. QED
    BY <2>3, <2>4 DEF DownloadInv
<1>23. ClientInv(c)'
  BY <1>15, <1>16, <1>18, <1>19, <1>20, <1>22 DEF ClientInv
<1>24. \A d \in Clients \ {c} : Untouched(d)
  BY <1>6, <1>7, <1>13 DEF Untouched, SamePage, SameFiles, SameRows
<1>25. QED
  BY <1>8, <1>23, <1>24, ActorMoves

LEMMA StreamSendPreserves ==
  ASSUME ServerInv, NEW l \in IoLoops, StreamSend(l)
  PROVE  ServerInv'
<1>1. /\ TypeInv /\ ioQueue[l] # <<>>
      /\ UNCHANGED <<pageVars, up, fileVars, calcQueue, databaseVars, serverVars>>
  BY DEF StreamSend, ServerInv
<1>2. PICK f : f = Head(ioQueue[l])
  OBVIOUS
<1>3. f = ioQueue[l][1] /\ f \in IoFunctors /\ Len(ioQueue[l]) \in Nat \ {0}
  <2>1. ioQueue[l] \in Seq(IoFunctors)
    BY <1>1 DEF TypeInv
  <2>2. QED
    BY <1>1, <1>2, <2>1, HeadTail
<1>4. f.fn = "streamSend"
  BY <1>2 DEF StreamSend
<1>5. PICK c \in Clients, n \in Names, e \in Nat :
        f.client = c /\ f.name = n /\ f.index = e
  BY <1>3, <1>4 DEF IoFunctors
<1>6. ClientInv(c)
  BY DEF ServerInv
<1>7. l = Home[c]
  BY <1>3, <1>5, <1>6 DEF ClientInv, IoInv
<1>8. CASE memo[c][n] = 0
  <2>1. ioQueue' = [ioQueue EXCEPT ![l] = Tail(@)] /\ UNCHANGED reply
    BY <1>2, <1>5, <1>8 DEF StreamSend
  <2>2. ~up[c]
    <3> SUFFICES ASSUME up[c] PROVE FALSE
      OBVIOUS
    <3>1. StreamAt(c, 1)
      BY <1>3, <1>4, <1>5, <1>7 DEF StreamAt, IoAt
    <3>2. Streaming(c)
      BY <1>3, <1>7, <3>1 DEF Streaming
    <3>3. Opened(c, n)
      BY <1>3, <1>5, <1>6, <1>7, <3>1, <3>2 DEF ClientInv, TurnInv, DownloadInv
    <3>4. QED
      BY <1>8, <3>3 DEF Opened
  <2>3. QED
    BY <1>1, <1>3, <1>5, <2>1, <2>2, StreamDroppedPreserves
<1>9. CASE memo[c][n] # 0
  <2>1. /\ up[c] /\ OnceInv(c) /\ TurnInv(c) /\ ReplyInv(c) /\ DownloadInv(c)
        /\ FileInv(c) /\ IoInv(c)
    BY <1>1, <1>6, <1>9 DEF ClientInv, DownInv, TypeInv
  <2>2. StreamAt(c, 1) /\ Streaming(c)
    BY <1>3, <1>4, <1>5, <1>7 DEF StreamAt, IoAt, Streaming
  <2>3. page[c].doing = "download"
    BY <2>1, <2>2 DEF TurnInv
  <2>4. /\ request[c] = None /\ ~WritesOf(c) /\ ~Judging(c) /\ ~Sending(c)
    BY <2>1, <2>2, <2>3 DEF TurnInv
  <2>5. Sent(c, n, e) /\ e < Size[n] /\ Opened(c, n)
    <3>1. PICK m \in Names, y \in Nat :
            /\ Sent(c, m, y)
            /\ \A i \in 1..Len(ioQueue[Home[c]]) : StreamAt(c, i) =>
                 /\ ioQueue[Home[c]][i].name = m /\ ioQueue[Home[c]][i].index = y
                 /\ y < Size[m] /\ Opened(c, m)
      BY <2>1, <2>2, <2>3 DEF DownloadInv
    <3>2. m = n /\ y = e /\ y < Size[m] /\ Opened(c, m)
      BY <1>3, <1>5, <1>7, <2>2, <3>1
    <3>3. QED
      BY <3>1, <3>2
  <2>6. PICK file : file = files[c][memo[c][n]]
    OBVIOUS
  <2>7. file.name = n /\ file.mode = "read" /\ file.full = Chunks(n)
    <3>1. memo[c][n] \in 1..Len(files[c])
      <4>1. Len(files[c]) \in Nat
        BY <1>1, LenProperties DEF TypeInv
      <4>2. QED
        BY <1>9, <2>1, <4>1 DEF FileInv
    <3>2. QED
      BY <2>1, <2>5, <2>6, <3>1 DEF FileInv, Opened, Whole
  <2>8. PICK s \in Nat : s = Size[n] /\ Cardinality(file.full) = s /\ e < s
    BY <2>5, <2>7, HowMany, SizeType
  <2>9. Read(f, file) = e
    <3>1. n \in Rows(c)
      BY <2>1, <2>5 DEF ReplyInv, Sent
    <3>2. OnDisk(n) = Chunks(n)
      BY <1>1, <2>1, <3>1, RowOnDisk
    <3>3. e \in Chunks(n)
      BY <2>8 DEF Chunks
    <3>4. QED
      BY <1>5, <2>7, <3>2, <3>3 DEF Read
  <2>10. PICK b \in Nat, r \in Seq(Replying) :
           b = Len(body[c]) /\ b <= e /\ r = reply[c] /\ OnItsWay(r, n, b, e)
    <3>1. body[c] \in Seq(Replying) /\ reply[c] \in Seq(Replying)
      BY <1>1 DEF TypeInv
    <3>2. Len(body[c]) \in Nat
      BY <3>1, LenProperties
    <3>3. body[c] = <<>> => Len(body[c]) = 0
      BY EmptySeq
    <3>4. QED
      BY <2>5, <3>1, <3>2, <3>3 DEF Sent, OnItsWay
  <2>11. PICK r1 \in Seq(Replying) : r1 = r \o <<Piece(n, e)>> /\ OnItsWay(r1, n, b, e + 1) /\ r1 # <<>>
    <3>1. r \o <<Piece(n, e)>> \in Seq(Replying) /\ OnItsWay(r \o <<Piece(n, e)>>, n, b, e + 1)
      BY <2>10, OneMore
    <3>2. r \o <<Piece(n, e)>> # <<>>
      <4>1. PICK x \in Replying : x = Piece(n, e)
        BY PieceType
      <4>2. Append(r, x) # <<>> /\ Append(r, x) = r \o <<x>>
        BY AppendProperties, AppendIsConcat
      <4>3. QED
        BY <4>1, <4>2
    <3>3. QED
      BY <3>1, <3>2
  <2>12. /\ ioQueue' = [ioQueue EXCEPT ![l] = Tail(@) \o Streamed(f, s)]
         /\ reply' = [reply EXCEPT ![c] =
              r1 \o (IF Streamed(f, s) = <<>> THEN <<Answer("end", {})>> ELSE <<>>)]
    <3>1. /\ ioQueue' = [ioQueue EXCEPT ![l] = Tail(@) \o Streamed(f, s)]
          /\ reply' = [reply EXCEPT ![c] =
               @ \o (IF e < s THEN <<Answer("data", Read(f, file))>> ELSE <<Answer("end", {})>>)
                 \o (IF Streamed(f, s) = <<>> THEN <<Answer("end", {})>> ELSE <<>>)]
      BY ZenonT(60), <1>2, <1>5, <1>9, <2>6, <2>8 DEF StreamSend
    <3>2. Piece(n, e) = Answer("data", e)
      BY <2>8 DEF Piece
    <3>3. reply \in [Clients -> Seq(Replying)]
      BY <1>1 DEF TypeInv
    <3>4. QED
      BY <2>8, <2>9, <2>10, <2>11, <3>1, <3>2, <3>3
  <2>13. CASE e + 1 >= s
    <3>1. Streamed(f, s) = <<>>
      BY <1>5, <2>13 DEF Streamed
    <3>2. PICK z \in Nat : z = e + 1 /\ z = s
      BY <2>8, <2>13
    <3>3. Piece(n, z) = Answer("end", {})
      BY <2>8, <3>2 DEF Piece
    <3>4. PICK r2 \in Seq(Replying) : r2 = r1 \o <<Answer("end", {})>> /\ OnItsWay(r2, n, b, z + 1)
      <4>1. b <= z /\ OnItsWay(r1, n, b, z)
        BY <2>8, <2>10, <2>11, <3>2
      <4>2. /\ r1 \o <<Piece(n, z)>> \in Seq(Replying)
            /\ OnItsWay(r1 \o <<Piece(n, z)>>, n, b, z + 1)
        BY <4>1, OneMore
      <4>3. QED
        BY <3>3, <4>2
    <3>5. PICK y \in Nat : y = z + 1 /\ y \in (e + 1)..(Size[n] + 1)
      BY <2>8, <3>2
    <3>6. PICK p \in Seq(IoFunctors) : p = <<>> /\ p \in {<<>>, <<Stream(c, n, y)>>}
      BY EmptySeq
    <3>7. ioQueue' = [ioQueue EXCEPT ![l] = Tail(@) \o p]
      BY <2>12, <3>1, <3>6
    <3>8. reply' = [reply EXCEPT ![c] = r2]
      BY <2>12, <3>1, <3>4
    <3>9. r2 # <<>>
      <4>1. Answer("end", {}) \in Replying
        BY DEF Answer, Replying, Statuses, Contents
      <4>2. QED
        BY <3>4, <4>1, AppendProperties, AppendIsConcat
    <3>10. OnItsWay(r2, n, Len(body[c]), y)
      BY <2>10, <3>4, <3>5
    <3>11. QED
      BY <1>1, <1>3, <1>4, <1>5, <1>7, <2>1, <2>3, <2>4, <2>5, <3>5, <3>6, <3>7, <3>8, <3>9, <3>10, StreamMoves
  <2>14. CASE ~(e + 1 >= s)
    <3>1. PICK z \in Nat : z = e + 1 /\ z < s
      BY <2>8, <2>14
    <3>2. Streamed(f, s) = <<Stream(c, n, z)>>
      BY <1>5, <2>14, <3>1 DEF Streamed
    <3>3. Stream(c, n, z) \in IoFunctors
      BY DEF Stream, IoFunctors
    <3>4. PICK p \in Seq(IoFunctors) : p = <<Stream(c, n, z)>> /\ p \in {<<>>, <<Stream(c, n, z)>>}
      <4>1. PICK x \in IoFunctors : x = Stream(c, n, z)
        BY <3>3
      <4>2. <<x>> \in Seq(IoFunctors)
        OBVIOUS
      <4>3. QED
        BY <4>1, <4>2
    <3>5. ioQueue' = [ioQueue EXCEPT ![l] = Tail(@) \o p]
      BY <2>12, <3>2, <3>4
    <3>6. reply' = [reply EXCEPT ![c] = r1]
      <4>1. Streamed(f, s) # <<>>
        BY <3>2
      <4>2. r1 \o <<>> = r1
        OBVIOUS
      <4>3. QED
        BY <2>12, <4>1, <4>2
    <3>7. z \in (e + 1)..(Size[n] + 1) /\ z < Size[n]
      BY <2>8, <3>1
    <3>8. OnItsWay(r1, n, Len(body[c]), z)
      BY <2>10, <2>11, <3>1
    <3>9. QED
      BY <1>1, <1>3, <1>4, <1>5, <1>7, <2>1, <2>3, <2>4, <2>5, <2>11, <3>4, <3>5, <3>6, <3>7, <3>8, StreamMoves
  <2>15. QED
    BY <2>13, <2>14
<1>10. QED
  BY <1>8, <1>9

(***************************************************************************)
(* FileServer::download                                                    *)
(***************************************************************************)
LEMMA IoPushed ==
  ASSUME TypeInv, NEW l \in IoLoops, NEW f \in IoFunctors, ioQueue' = [ioQueue EXCEPT ![l] = Append(@, f)]
  PROVE  /\ ioQueue' \in [IoLoops -> Seq(IoFunctors)]
         /\ \A d : d # f.client => SameIo(d)
         /\ Len(ioQueue[l]) \in Nat /\ Len(ioQueue'[l]) = Len(ioQueue[l]) + 1
         /\ \A i \in 1..Len(ioQueue[l]) : ioQueue'[l][i] = ioQueue[l][i]
         /\ ioQueue'[l][Len(ioQueue[l]) + 1] = f
         /\ \A m \in IoLoops \ {l} : ioQueue'[m] = ioQueue[m]
<1>1. ioQueue \in [IoLoops -> Seq(IoFunctors)]
  BY DEF TypeInv
<1>2. PICK q \in Seq(IoFunctors) : q = ioQueue[l]
  BY <1>1
<1>3. /\ Append(q, f) \in Seq(IoFunctors) /\ Len(Append(q, f)) = Len(q) + 1 /\ Len(q) \in Nat
      /\ \A i \in 1..Len(q) : Append(q, f)[i] = q[i]
      /\ Append(q, f)[Len(q) + 1] = f
      /\ Append(q, f) = q \o <<f>>
  BY AppendProperties, AppendIsConcat, LenProperties
<1>4. /\ ioQueue'[l] = Append(q, f) /\ ioQueue' \in [IoLoops -> Seq(IoFunctors)]
      /\ \A m \in IoLoops \ {l} : ioQueue'[m] = ioQueue[m]
  BY <1>1, <1>2, <1>3
<1>5. ASSUME NEW d, d # f.client PROVE SameIo(d)
  <2>1. PICK p \in Seq(IoFunctors) : p = <<f>> /\ \A i \in 1..Len(p) : p[i].client # d
    <3>1. <<f>> \in Seq(IoFunctors) /\ Len(<<f>>) = 1 /\ <<f>>[1] = f
      OBVIOUS
    <3>2. PICK p \in Seq(IoFunctors) : p = <<f>> /\ Len(p) = 1 /\ p[1] = f
      BY <3>1
    <3>3. \A i \in 1..Len(p) : p[i].client # d
      BY <1>5, <3>2
    <3>4. QED
      BY <3>2, <3>3
  <2>2. SameFor(d, q, q \o p)
    BY <2>1, SameBehind
  <2>3. \A m \in IoLoops \ {l} : SameFor(d, ioQueue[m], ioQueue'[m])
    BY <1>1, <1>4, SameItself
  <2>4. QED
    BY <1>2, <1>3, <1>4, <2>1, <2>2, <2>3 DEF SameIo
<1>6. QED
  BY <1>2, <1>3, <1>4, <1>5

LEMMA NoPiece ==
  ASSUME NEW n \in Names
  PROVE  Pieces(n, 0, 0) = <<>>
<1>1. PICK z \in Nat : z = 0
  OBVIOUS
<1>2. Pieces(n, z, z) \in Seq(Replying) /\ Len(Pieces(n, z, z)) = z - z
  BY PiecesProperties
<1>3. Len(Pieces(n, z, z)) = 0
  BY <1>1, <1>2
<1>4. QED
  BY <1>1, <1>2, <1>3, EmptySeq

LEMMA DownloadStarts ==
  ASSUME ServerInv, NEW c \in Clients, NEW n \in Names, Arrived(c, "download"), request[c].name = n,
         Size[n] # 0, n \in listed[c],
         Handled(c, <<Answer("ok", {})>>), Push(c, Stream(c, n, 0)), UNCHANGED verified,
         files' \in [Clients -> Seq(Files)], memo' \in [Clients -> [Names -> Nat]],
         \A d \in Clients \ {c} : files'[d] = files[d] /\ memo'[d] = memo[d],
         FileInv(c)', CalcInv(c)', FilesKept(c), Opened(c, n)'
  PROVE  ServerInv'
<1> USE DEF databaseVars
<1>1. /\ TypeInv /\ ClientInv(c) /\ up[c]
      /\ OnceInv(c) /\ TurnInv(c) /\ ReplyInv(c) /\ UploadInv(c) /\ DownloadInv(c)
      /\ NothingOwed(c) /\ reply[c] = <<>> /\ page[c] \in Pages /\ page[c].doing = "download"
      /\ request[c] \in Requests /\ request[c] # None /\ Home[c] \in IoLoops /\ Free(Home[c])
  BY RequestArrived
<1>2. /\ request'[c] = None /\ reply'[c] = <<Answer("ok", {})>>
      /\ \A d \in Clients \ {c} : request'[d] = request[d] /\ reply'[d] = reply[d]
      /\ UNCHANGED <<page, left, told, up, writing, calcQueue, database, lost, listed, body, verified>>
  <2>1. request'[c] = None /\ reply'[c] = reply[c] \o <<Answer("ok", {})>>
        /\ \A d \in Clients \ {c} : request'[d] = request[d] /\ reply'[d] = reply[d]
    BY <1>1 DEF Handled, Answered, TypeInv
  <2>2. <<>> \o <<Answer("ok", {})>> = <<Answer("ok", {})>>
    OBVIOUS
  <2>3. QED
    BY <1>1, <2>1, <2>2 DEF Handled
<1>3. PICK l \in IoLoops : l = Home[c]
  BY <1>1
<1>4. PICK f \in IoFunctors : f = Stream(c, n, 0) /\ f.client = c /\ f.fn = "streamSend" /\ f.name = n /\ f.index = 0
  <2>1. Stream(c, n, 0) \in IoFunctors
    BY DEF IoFunctors, Stream
  <2>2. PICK f \in IoFunctors : f = Stream(c, n, 0)
    BY <2>1
  <2>3. f.client = c /\ f.fn = "streamSend" /\ f.name = n /\ f.index = 0
    BY <2>2 DEF Stream
  <2>4. QED
    BY <2>2, <2>3
<1>5. PICK s \in Nat :
        /\ s = Len(ioQueue[l]) /\ Len(ioQueue'[l]) = s + 1 /\ ioQueue'[l][s + 1] = f
        /\ ioQueue' \in [IoLoops -> Seq(IoFunctors)]
        /\ \A d : d # c => SameIo(d)
        /\ \A i \in 1..s : ioQueue'[l][i] = ioQueue[l][i]
        /\ \A m \in IoLoops \ {l} : ioQueue'[m] = ioQueue[m]
  <2>1. ioQueue' = [ioQueue EXCEPT ![l] = Append(@, f)]
    BY <1>3, <1>4 DEF Push
  <2>2. TypeInv
    BY <1>1
  <2>3. /\ ioQueue' \in [IoLoops -> Seq(IoFunctors)]
        /\ \A d : d # f.client => SameIo(d)
        /\ Len(ioQueue[l]) \in Nat /\ Len(ioQueue'[l]) = Len(ioQueue[l]) + 1
        /\ \A i \in 1..Len(ioQueue[l]) : ioQueue'[l][i] = ioQueue[l][i]
        /\ ioQueue'[l][Len(ioQueue[l]) + 1] = f
        /\ \A m \in IoLoops \ {l} : ioQueue'[m] = ioQueue[m]
    BY <2>1, <2>2, IoPushed
  <2>4. QED
    BY <1>4, <2>3
<1>6. \A i \in 1..Len(ioQueue'[l]) :
        \/ i \in 1..Len(ioQueue[l]) /\ ioQueue'[l][i] = ioQueue[l][i]
        \/ i = s + 1 /\ ioQueue'[l][i] = f
  BY <1>5
<1>7. TypeInv'
  <2>1. <<Answer("ok", {})>> \in Seq(Replying)
    BY DEF Answer, Replying, Statuses, Contents
  <2>2. reply' \in [Clients -> Seq(Replying)] /\ request' \in [Clients -> Requests \cup {None}]
    BY <1>1, <1>2, <2>1 DEF Handled, Answered, TypeInv
  <2>3. QED
    BY <1>1, <1>2, <1>5, <2>2 DEF TypeInv
<1>8. \A i \in Nat : StreamAt(c, i)' => i = s + 1 /\ ioQueue'[l][i] = f
  <2> SUFFICES ASSUME NEW i \in Nat, StreamAt(c, i)', ~(i = s + 1 /\ ioQueue'[l][i] = f) PROVE FALSE
    OBVIOUS
  <2>1. StreamAt(c, i) /\ i \in 1..Len(ioQueue[l])
    BY <1>3, <1>6 DEF StreamAt, IoAt
  <2>2. QED
    BY <1>1, <1>3, <2>1 DEF NothingOwed, Streaming
<1>9. \A i : ~SendAt(c, i)'
  <2> SUFFICES ASSUME NEW i, SendAt(c, i)' PROVE FALSE
    OBVIOUS
  <2>1. SendAt(c, i) /\ i \in 1..Len(ioQueue[l])
    BY <1>3, <1>4, <1>6 DEF SendAt, IoAt
  <2>2. QED
    BY <1>1, <1>3, <2>1 DEF NothingOwed, Sending
<1>10. IoInv(c)'
  <2>1. ASSUME NEW m \in IoLoops, NEW i \in 1..Len(ioQueue'[m]), ioQueue'[m][i].client = c
        PROVE  \/ \E j \in 1..Len(ioQueue[m]) : ioQueue[m][j] = ioQueue'[m][i]
               \/ m = Home[c] /\ (ioQueue'[m][i].fn = "updateDataBase" => Uploaded(c, ioQueue[m][i].file)')
    <3>1. CASE m = l
      BY <1>3, <1>4, <1>6, <3>1
    <3>2. CASE m # l
      BY <1>5, <3>2
    <3>3. QED
      BY <3>1, <3>2
  <2>2. IoInv(c)
    BY <1>1 DEF ClientInv
  <2>3. \A k \in IoLoops : ~Free(k)' /\ writing'[k].client = c => k = Home[c]
    BY <1>2, <2>2 DEF IoInv, Free
  <2>4. \A m \in Names : <<c, m>> \in database' => <<c, m>> \in database
    BY <1>2
  <2>5. QED
    BY <2>1, <2>2, <2>3, <2>4, IoKept
<1>11. ~WritesOf(c)' /\ ~Judging(c)' /\ ~Sending(c)'
  BY <1>1, <1>2, <1>9 DEF NothingOwed, WritesOf, Free, Judging, JudgeAt, CalcAt, Sending
<1>12. OnceInv(c)'
  BY <1>8, <1>9, <1>11 DEF OnceInv, Judging, JudgeAt, CalcAt, StreamAt, IoAt
<1>13. TurnInv(c)' /\ ReplyInv(c)'
  BY <1>1, <1>2, <1>11 DEF TurnInv, ReplyInv, Rows
<1>14. UploadInv(c)'
  BY <1>1, <1>2, <1>9, <1>11 DEF UploadInv, Ready, Judging, JudgeAt, CalcAt
<1>15. Sent(c, n, 0)'
  <2>1. body'[c] = <<>>
    BY <1>1, <1>2 DEF DownloadInv
  <2>2. <<Answer("ok", {})>> \o <<>> = <<Answer("ok", {})>> /\ Len(<<>>) = 0
    OBVIOUS
  <2>3. 0 \in 0..(Size[n] + 1)
    BY SizeType
  <2>4. QED
    BY <1>2, <2>1, <2>2, <2>3, NoPiece DEF Sent
<1>16. DownloadInv(c)'
  <2>1. \A i \in 1..Len(ioQueue'[Home[c]]) : StreamAt(c, i)' =>
          /\ ioQueue'[Home[c]][i].name = n /\ ioQueue'[Home[c]][i].index = 0
          /\ 0 < Size[n] /\ Opened(c, n)'
    BY <1>3, <1>4, <1>8, SizeType
  <2>2. PICK z \in Nat : z = 0
    OBVIOUS
  <2>3. \E m \in Names : \E y \in Nat :
          /\ Sent(c, m, y)'
          /\ \A i \in 1..Len(ioQueue'[Home[c]]) : StreamAt(c, i)' =>
               /\ ioQueue'[Home[c]][i].name = m /\ ioQueue'[Home[c]][i].index = y
               /\ y < Size[m] /\ Opened(c, m)'
    BY <1>15, <2>1, <2>2
  <2>4. QED
    BY <1>2, <2>3 DEF DownloadInv
<1>17. DownInv(c)' /\ ToldInv(c)' /\ BodyInv(c)'
  BY <1>1, <1>2 DEF ClientInv, DownInv, ToldInv, BodyInv, Recorded, WholeDownload
<1>18. ClientInv(c)'
  BY <1>10, <1>12, <1>13, <1>14, <1>16, <1>17 DEF ClientInv
<1>19. \A d \in Clients \ {c} : Untouched(d)
  BY <1>1, <1>2, <1>5, CalcRests DEF Untouched, SamePage, SameFiles, SameWrite, SameRows, Free
<1>20. QED
  BY <1>7, <1>18, <1>19, ActorMoves

LEMMA DownloadRefusedPreserves ==
  ASSUME ServerInv, NEW c \in Clients, Arrived(c, "download"), Handled(c, <<Answer("bad", {})>>),
         UNCHANGED <<files, memo, ioQueue, verified>>
  PROVE  ServerInv'
<1> USE DEF databaseVars
<1>1. /\ TypeInv /\ ClientInv(c) /\ up[c]
      /\ OnceInv(c) /\ TurnInv(c) /\ ReplyInv(c) /\ UploadInv(c) /\ DownloadInv(c)
      /\ NothingOwed(c) /\ reply[c] = <<>> /\ page[c] \in Pages /\ page[c].doing = "download"
      /\ request[c] \in Requests /\ request[c] # None
  BY RequestArrived
<1>2. /\ request'[c] = None /\ reply'[c] = <<Answer("bad", {})>>
      /\ \A d \in Clients \ {c} : request'[d] = request[d] /\ reply'[d] = reply[d]
      /\ UNCHANGED <<page, left, told, up, files, memo, writing, ioQueue, calcQueue, database, lost, listed, body,
                     verified>>
  <2>1. request'[c] = None /\ reply'[c] = reply[c] \o <<Answer("bad", {})>>
        /\ \A d \in Clients \ {c} : request'[d] = request[d] /\ reply'[d] = reply[d]
    BY <1>1 DEF Handled, Answered, TypeInv
  <2>2. <<>> \o <<Answer("bad", {})>> = <<Answer("bad", {})>>
    OBVIOUS
  <2>3. QED
    BY <1>1, <2>1, <2>2 DEF Handled
<1>3. TypeInv'
  <2>1. <<Answer("bad", {})>> \in Seq(Replying)
    BY DEF Answer, Replying, Statuses, Contents
  <2>2. reply' \in [Clients -> Seq(Replying)] /\ request' \in [Clients -> Requests \cup {None}]
    BY <1>1, <1>2, <2>1 DEF Handled, Answered, TypeInv
  <2>3. QED
    BY <1>1, <1>2, <2>2 DEF TypeInv
<1>4. NothingOwed(c)'
  BY <1>1, <1>2, FunctorsRest
<1>5. TurnInv(c)' /\ ReplyInv(c)'
  BY <1>1, <1>2, <1>4 DEF TurnInv, NothingOwed, ReplyInv, Rows
<1>6. UploadInv(c)'
  BY <1>1, <1>2, <1>3, <1>4, UploadRests
<1>7. DownloadInv(c)'
  <2>1. body'[c] = <<>> /\ ~Streaming(c)'
    BY <1>1, <1>2, <1>4 DEF DownloadInv, NothingOwed
  <2>2. QED
    BY <1>2, <2>1 DEF DownloadInv
<1>8. ToldInv(c)' /\ BodyInv(c)'
  BY <1>1, <1>2 DEF ClientInv, ToldInv, BodyInv, Recorded, WholeDownload
<1>9. \A d \in Clients \ {c} : SamePage(d) /\ \A n \in Names : <<d, n>> \in told' => <<d, n>> \in told
  BY <1>2 DEF SamePage
<1>10. QED
  BY <1>1, <1>2, <1>3, <1>5, <1>6, <1>7, <1>8, <1>9, PageMoves

LEMMA DownloadHandlerPreserves ==
  ASSUME ServerInv, NEW c \in Clients, DownloadHandler(c)
  PROVE  ServerInv'
<1>1. Arrived(c, "download") /\ UNCHANGED verified
  BY DEF DownloadHandler
<1>2. /\ TypeInv /\ ClientInv(c) /\ up[c]
      /\ OnceInv(c) /\ TurnInv(c) /\ ReplyInv(c) /\ UploadInv(c) /\ DownloadInv(c)
      /\ NothingOwed(c) /\ reply[c] = <<>> /\ page[c] \in Pages /\ page[c].doing = "download"
      /\ request[c] \in Requests /\ request[c] # None
  BY <1>1, RequestArrived
<1>3. FileInv(c) /\ CalcInv(c) /\ IoInv(c)
  BY <1>2 DEF ClientInv
<1>4. PICK n : n = request[c].name
  OBVIOUS
<1>5. n \in listed[c] /\ n \in Rows(c) /\ ~Unfinished(c, n)
  BY <1>2, <1>4 DEF DownloadInv, ReplyInv
<1>6. n \in Names /\ OnDisk(n) = Chunks(n) /\ Size[n] # 0
  BY <1>2, <1>3, <1>5, RowOnDisk
<1>7. files[c] \in Seq(Files) /\ Len(files[c]) \in Nat /\ memo[c] \in [Names -> Nat]
  BY <1>2, LenProperties DEF TypeInv
<1>8. CASE /\ memo[c][n] # 0
           /\ UNCHANGED <<files, memo>>
           /\ Handled(c, <<Answer("ok", {})>>) /\ Push(c, Stream(c, n, 0))
  <2>1. Opened(c, n)'
    <3>1. memo[c][n] \in 1..Len(files[c])
      BY <1>3, <1>6, <1>7, <1>8 DEF FileInv
    <3>2. files[c][memo[c][n]] \in Files
      BY <1>7, <3>1, ElementOfSeq
    <3>3. files[c][memo[c][n]].mode \in {"write", "read"}
      BY <3>2 DEF Files
    <3>4. QED
      BY <1>5, <1>8, <3>3 DEF Opened, Unfinished
  <2>2. calcQueue' = calcQueue
    BY <1>8 DEF Handled
  <2>3. FilesKept(c) /\ FileInv(c)'
    BY <1>3, <1>8, FilesStay DEF FilesKept, Whole
  <2>4. CalcInv(c)'
    <3>1. NoMoreCalc(c)
      BY <1>2, <2>2, CalcRests
    <3>2. QED
      BY <1>2, <1>3, <1>8, <3>1, CalcStays
  <2>5. files' \in [Clients -> Seq(Files)] /\ memo' \in [Clients -> [Names -> Nat]]
    BY <1>2, <1>8 DEF TypeInv
  <2>6. QED
    BY <1>1, <1>4, <1>5, <1>6, <1>8, <2>1, <2>3, <2>4, <2>5, DownloadStarts
<1>9. CASE /\ memo[c][n] = 0
           /\ files' = [files EXCEPT ![c] = Append(@, OpenedFile(n))]
           /\ memo' = [memo EXCEPT ![c][n] = Len(files[c]) + 1]
           /\ Handled(c, <<Answer("ok", {})>>) /\ Push(c, Stream(c, n, 0))
  <2>1. PICK f \in Files :
          /\ f = OpenedFile(n) /\ f.name = n /\ f.mode = "read" /\ f.full = Chunks(n)
          /\ f.digest = <<>> /\ f.calcIndex = 0 /\ f.verdict = "none"
    <3>1. PICK X \in SUBSET Nat : X = {i \in Chunks(n) : \E j \in OnDisk(n) : i <= j} /\ X = Chunks(n)
      <4>1. Chunks(n) \subseteq Nat
        BY DEF Chunks
      <4>2. {i \in Chunks(n) : \E j \in OnDisk(n) : i <= j} = Chunks(n)
        BY <1>6, <4>1
      <4>3. QED
        BY <4>1, <4>2
    <3>2. OpenedFile(n) =
            [name |-> n, mode |-> "read", status |-> "waiting", present |-> {}, full |-> X,
             calcIndex |-> 0, digest |-> <<>>, owner |-> None, verdict |-> "none"]
      <4>1. OpenedFile(n) = [NewFile(n) EXCEPT !.mode = "read", !.status = "waiting", !.full = X]
        BY <3>1 DEF OpenedFile
      <4>2. QED
        BY <4>1 DEF NewFile
    <3>3. <<>> \in Seq(Nat)
      BY EmptySeq
    <3>4. OpenedFile(n) \in Files
      BY <1>6, <3>1, <3>2, <3>3 DEF Files
    <3>5. QED
      BY <3>1, <3>2, <3>4
  <2>2. /\ files'[c] = Append(files[c], f) /\ memo'[c] = [memo[c] EXCEPT ![n] = Len(files[c]) + 1]
        /\ \A d \in Clients \ {c} : files'[d] = files[d] /\ memo'[d] = memo[d]
        /\ calcQueue' = calcQueue
    BY <1>2, <1>9, <2>1 DEF TypeInv, Handled
  <2>3. /\ FileInv(c)' /\ CalcInv(c)' /\ FilesKept(c)
        /\ Len(files'[c]) = Len(files[c]) + 1 /\ files'[c][Len(files[c]) + 1] = f
        /\ Len(files[c]) \in Nat /\ memo'[c][n] = Len(files[c]) + 1
    <3>1. /\ f.name = n /\ f.full \subseteq Chunks(n) /\ f.digest = <<>> /\ f.calcIndex = 0
          /\ f.verdict = "none" /\ (f.mode = "read" => f.full = Chunks(n)) /\ n \in Names
      BY <1>6, <2>1
    <3>2. TypeInv /\ FileInv(c) /\ CalcInv(c)
      BY <1>2, <1>3
    <3>3. /\ files'[c] = Append(files[c], f) /\ memo'[c] = [memo[c] EXCEPT ![n] = Len(files[c]) + 1]
          /\ calcQueue' = calcQueue
      BY <2>2
    <3>4. QED
      BY <3>1, <3>2, <3>3, FileAdded
  <2>4. Opened(c, n)'
    <3>1. PICK k \in Nat : k = Len(files[c]) + 1 /\ k # 0
      BY <1>7
    <3>2. QED
      BY <2>1, <2>3, <3>1 DEF Opened
  <2>5. files' \in [Clients -> Seq(Files)] /\ memo' \in [Clients -> [Names -> Nat]]
    <3>1. Append(files[c], f) \in Seq(Files)
      BY <1>7, AppendProperties
    <3>2. PICK k \in Nat : k = Len(files[c]) + 1
      BY <1>7
    <3>3. [memo[c] EXCEPT ![n] = k] \in [Names -> Nat]
      BY <1>7
    <3>4. files \in [Clients -> Seq(Files)] /\ memo \in [Clients -> [Names -> Nat]]
      BY <1>2 DEF TypeInv
    <3>5. files' = [files EXCEPT ![c] = Append(files[c], f)] /\ memo' = [memo EXCEPT ![c] = [memo[c] EXCEPT ![n] = k]]
      BY <1>9, <2>1, <3>2, <3>4
    <3>6. QED
      BY <3>1, <3>3, <3>4, <3>5
  <2>6. QED
    BY <1>1, <1>4, <1>5, <1>6, <1>9, <2>2, <2>3, <2>4, <2>5, DownloadStarts
<1>10. CASE Handled(c, <<Answer("bad", {})>>) /\ UNCHANGED <<files, memo, ioQueue>>
  BY <1>1, <1>10, DownloadRefusedPreserves
<1>11. QED
  BY <1>4, <1>8, <1>9, <1>10 DEF DownloadHandler

-----------------------------------------------------------------------------
(***************************************************************************)
(* The calculation loops.  What is left of a file's functors comes after   *)
(* the one that was taken.                                                 *)
(***************************************************************************)
LEMMA CalcLeft ==
  ASSUME TypeInv, NEW l \in CalcLoops, calcQueue[l] # <<>>,
         calcQueue' = [calcQueue EXCEPT ![l] = Tail(@)],
         NEW c \in Clients, CalcInv(c), calcQueue[l][1].client = c,
         NEW k \in 1..Len(files[c]), calcQueue[l][1].file = k, NEW h,
         Len(files'[c]) = Len(files[c]), files'[c][k] = h,
         \A j \in 1..Len(files[c]) : j # k => files'[c][j] = files[c][j],
         \/ calcQueue[l][1].fn = "judge"
         \/ /\ calcQueue[l][1].fn = "update" /\ calcQueue[l][1].chunk \in Nat
            /\ h.owner = files[c][k].owner /\ h.verdict = files[c][k].verdict /\ h.mode = files[c][k].mode
            /\ h.full = files[c][k].full /\ h.name = files[c][k].name
            /\ h.calcIndex \in Nat /\ h.calcIndex <= calcQueue[l][1].chunk + 1
  PROVE  CalcInv(c)'
<1> SUFFICES ASSUME NEW m \in CalcLoops, NEW i \in 1..Len(calcQueue'[m]), calcQueue'[m][i].client = c
             PROVE  CalcOk(c, m, i)'
  BY DEF CalcInv
<1>1. /\ Len(calcQueue[l]) \in Nat \ {0} /\ Len(calcQueue'[l]) = Len(calcQueue[l]) - 1
      /\ \A j \in 1..(Len(calcQueue[l]) - 1) : calcQueue'[l][j] = calcQueue[l][j + 1]
      /\ \A j \in CalcLoops \ {l} : calcQueue'[j] = calcQueue[j]
  BY CalcTaken
<1>2. Len(calcQueue[m]) \in Nat /\ calcQueue[m] \in Seq(CalcFunctors)
  BY LenProperties DEF TypeInv
<1>3. PICK s \in {0, 1} : s = IF m = l THEN 1 ELSE 0
  OBVIOUS
<1>4. PICK e \in 1..Len(calcQueue[m]) : e = i + s /\ calcQueue'[m][i] = calcQueue[m][e]
  <2>1. CASE m = l
    BY <1>1, <1>3, <2>1
  <2>2. CASE m # l
    BY <1>1, <1>2, <1>3, <2>2
  <2>3. QED
    BY <2>1, <2>2
<1>5. \A j \in 1..(i - 1) : j + s \in 1..(e - 1) /\ calcQueue'[m][j] = calcQueue[m][j + s]
  <2>1. CASE m = l
    BY <1>1, <1>3, <1>4, <2>1
  <2>2. CASE m # l
    BY <1>1, <1>2, <1>3, <1>4, <2>2
  <2>3. QED
    BY <2>1, <2>2
<1>6. PICK f \in CalcFunctors : f = calcQueue[m][e] /\ f = calcQueue'[m][i] /\ f.client = c
  <2>1. calcQueue[m][e] \in CalcFunctors
    BY <1>2, ElementOfSeq
  <2>2. QED
    BY <1>4, <2>1
<1>7. CalcOk(c, m, e)
  BY <1>4, <1>6 DEF CalcInv
<1>8. PICK z \in 1..Len(files[c]) : z = f.file
  BY <1>6, <1>7 DEF CalcOk
<1>9. /\ files[c][z].owner = m /\ files[c][z].verdict = "none" /\ files[c][z].mode = "write"
      /\ f.fn = "update" => f.chunk \in files[c][z].full /\ files[c][z].calcIndex <= f.chunk
      /\ f.fn = "judge" => Whole(c, z) /\ Size[files[c][z].name] # 0
      /\ \A j \in 1..(e - 1) : calcQueue[m][j].client = c /\ calcQueue[m][j].file = z =>
           /\ calcQueue[m][j].fn = "update"
           /\ f.fn = "update" => calcQueue[m][j].chunk < f.chunk
  BY <1>6, <1>7, <1>8 DEF CalcOk
<1>10. \A j \in 1..(i - 1) : calcQueue'[m][j].client = c /\ calcQueue'[m][j].file = z =>
           /\ calcQueue'[m][j].fn = "update"
           /\ f.fn = "update" => calcQueue'[m][j].chunk < f.chunk
  <2> SUFFICES ASSUME NEW j \in 1..(i - 1), calcQueue'[m][j].client = c, calcQueue'[m][j].file = z
               PROVE  /\ calcQueue'[m][j].fn = "update"
                      /\ f.fn = "update" => calcQueue'[m][j].chunk < f.chunk
    OBVIOUS
  <2>1. PICK g \in 1..(e - 1) : calcQueue'[m][j] = calcQueue[m][g]
    BY <1>5
  <2>2. calcQueue[m][g].client = c /\ calcQueue[m][g].file = z
    BY <2>1
  <2>3. calcQueue[m][g].fn = "update" /\ (f.fn = "update" => calcQueue[m][g].chunk < f.chunk)
    BY <1>9, <2>2
  <2>4. QED
    BY <2>1, <2>3
<1>11. /\ files'[c][z].owner = m /\ files'[c][z].verdict = "none" /\ files'[c][z].mode = "write"
       /\ f.fn = "update" => f.chunk \in files'[c][z].full /\ files'[c][z].calcIndex <= f.chunk
       /\ f.fn = "judge" => Whole(c, z)' /\ Size[files'[c][z].name] # 0
  <2>1. CASE z # k
    BY <1>9, <2>1 DEF Whole
  <2>2. CASE z = k
    <3>1. m = l
      <4>1. CalcOk(c, l, 1)
        BY <1>1 DEF CalcInv
      <4>2. files[c][k].owner = l
        BY <4>1 DEF CalcOk
      <4>3. QED
        BY <1>9, <2>2, <4>2
    <3>2. 1 \in 1..(e - 1)
      BY <1>3, <1>4, <3>1
    <3>3. /\ calcQueue[l][1].fn = "update"
          /\ f.fn = "update" => calcQueue[l][1].chunk < f.chunk
      BY <1>9, <2>2, <3>1, <3>2
    <3>4. /\ h.owner = files[c][k].owner /\ h.verdict = files[c][k].verdict /\ h.mode = files[c][k].mode
          /\ h.full = files[c][k].full /\ h.name = files[c][k].name
          /\ h.calcIndex \in Nat /\ h.calcIndex <= calcQueue[l][1].chunk + 1 /\ calcQueue[l][1].chunk \in Nat
      BY <3>3
    <3>5. f.fn = "update" => h.calcIndex <= f.chunk
      <4> SUFFICES ASSUME f.fn = "update" PROVE h.calcIndex <= f.chunk
        OBVIOUS
      <4>1. f.chunk \in Nat
        BY DEF CalcFunctors
      <4>2. QED
        BY SMTT(30), <3>3, <3>4, <4>1
    <3>6. QED
      BY <1>9, <2>2, <3>4, <3>5 DEF Whole
  <2>3. QED
    BY <2>1, <2>2
<1>12. z \in 1..Len(files'[c])
  OBVIOUS
<1>13. QED
  BY ZenonT(60), <1>6, <1>8, <1>10, <1>11, <1>12 DEF CalcOk

LEMMA UploadKept ==
  ASSUME TypeInv, TypeInv', NEW c \in Clients, CalcInv(c), IoInv(c), OnceInv(c), UploadInv(c),
         FilesKept(c), NoMoreCalc(c), UNCHANGED ioQueue, SamePage(c), SameWrite(c), SameRows(c),
         memo'[c] = memo[c], \A X : Awaits(c, X) => Awaits(c, X)'
  PROVE  UploadInv(c)'
<1>1. /\ page'[c] = page[c] /\ request'[c] = request[c] /\ reply'[c] = reply[c]
      /\ Home[c] \in IoLoops
  BY UploadAssumption DEF SamePage
<1>2. \A n \in Names : Recorded(c, n) => Recorded(c, n)'
  BY RowsStay
<1>3. \A n : Recorded(c, n) => n \in Names
  BY DEF Recorded, TypeInv
<1>4. Ready(c)' <=> Ready(c)
  BY <1>1 DEF Ready
<1>5. NoMoreIo(c)
  BY IoRests
<1>6. \A l \in CalcLoops : \A i \in 1..Len(calcQueue'[l]) :
        JudgeAt(c, l, i)' => files'[c][calcQueue'[l][i].file].name = page'[c].name
  <2> SUFFICES ASSUME NEW l \in CalcLoops, NEW i \in 1..Len(calcQueue'[l]), JudgeAt(c, l, i)'
               PROVE  files'[c][calcQueue'[l][i].file].name = page'[c].name
    OBVIOUS
  <2>1. PICK j : JudgeAt(c, l, j) /\ calcQueue[l][j] = calcQueue'[l][i]
    BY <1>5, FunctorsStay
  <2>2. j \in 1..Len(calcQueue[l]) /\ calcQueue[l][j].client = c
    BY <2>1 DEF JudgeAt, CalcAt
  <2>3. files[c][calcQueue[l][j].file].name = page[c].name
    BY <2>1, <2>2 DEF UploadInv
  <2>4. calcQueue[l][j].file \in 1..Len(files[c])
    BY <2>2 DEF CalcInv, CalcOk
  <2>5. QED
    BY <1>1, <2>1, <2>3, <2>4 DEF FilesKept
<1>7. ASSUME NEW i \in 1..Len(ioQueue'[Home[c]]), SendAt(c, i)', ioQueue'[Home[c]][i].status = "ok"
      PROVE  \/ Recorded(c, page[c].name)'
             \/ \E j \in 1..(i - 1) :
                  /\ IoAt(c, j)' /\ ioQueue'[Home[c]][j].fn = "updateDataBase"
                  /\ files'[c][ioQueue'[Home[c]][j].file].name = page'[c].name
  <2>1. SendAt(c, i) /\ i \in 1..Len(ioQueue[Home[c]]) /\ ioQueue[Home[c]][i].status = "ok"
    BY <1>7 DEF SendAt, IoAt
  <2>2. \/ Recorded(c, page[c].name)
        \/ \E j \in 1..(i - 1) :
             /\ IoAt(c, j) /\ ioQueue[Home[c]][j].fn = "updateDataBase"
             /\ files[c][ioQueue[Home[c]][j].file].name = page[c].name
    BY <2>1 DEF UploadInv
  <2>3. CASE Recorded(c, page[c].name)
    <3>1. page[c].name \in Names
      BY <1>3, <2>3
    <3>2. QED
      BY <1>1, <1>2, <2>3, <3>1 DEF Recorded
  <2>4. CASE \E j \in 1..(i - 1) :
               /\ IoAt(c, j) /\ ioQueue[Home[c]][j].fn = "updateDataBase"
               /\ files[c][ioQueue[Home[c]][j].file].name = page[c].name
    <3>1. PICK j \in 1..(i - 1) :
            /\ IoAt(c, j) /\ ioQueue[Home[c]][j].fn = "updateDataBase"
            /\ files[c][ioQueue[Home[c]][j].file].name = page[c].name
      BY <2>4
    <3>2. ioQueue[Home[c]][j].file \in 1..Len(files[c])
      BY <1>1, <3>1 DEF IoInv, IoAt, Uploaded
    <3>3. QED
      BY <1>1, <3>1, <3>2 DEF FilesKept, IoAt
  <2>5. QED
    BY <2>2, <2>3, <2>4
<1>8. WritesOf(c)' => WritesOf(c) /\ writing'[Home[c]] = writing[Home[c]]
  BY WriteStays
<1>9. Ready(c)' =>
       /\ page'[c].left # {} => Awaits(c, page[c].left)'
       /\ page'[c].left = {} /\ Storable(page'[c].name) => Recorded(c, page[c].name)'
  <2> SUFFICES ASSUME Ready(c)
               PROVE  /\ page[c].left # {} => Awaits(c, page[c].left)'
                      /\ page[c].left = {} /\ Storable(page[c].name) => Recorded(c, page[c].name)'
    BY <1>1, <1>4
  <2>1. page[c].left # {} => Awaits(c, page[c].left)'
    <3>1. page[c].left # {} => Awaits(c, page[c].left)
      BY DEF UploadInv
    <3>2. PICK X : X = page[c].left /\ X = page'[c].left
      BY <1>1
    <3>3. Awaits(c, X) => Awaits(c, X)'
      OBVIOUS
    <3>4. QED
      BY <3>1, <3>2, <3>3
  <2>2. page[c].left = {} /\ Storable(page[c].name) => Recorded(c, page[c].name)
    BY DEF UploadInv
  <2>3. PICK n : n = page[c].name /\ n = page'[c].name
    BY <1>1
  <2>4. Recorded(c, n) => Recorded(c, n)'
    BY <1>2, <1>3
  <2>5. QED
    BY <2>1, <2>2, <2>3, <2>4
<1>10. request'[c] # None /\ page'[c].doing = "chunk" => Awaits(c, page[c].left \cup {request[c].chunk})'
  <2>1. request[c] # None /\ page[c].doing = "chunk" => Awaits(c, page[c].left \cup {request[c].chunk})
    BY DEF UploadInv
  <2>2. PICK X : X = page[c].left \cup {request[c].chunk} /\ X = page'[c].left \cup {request'[c].chunk}
    BY <1>1
  <2>3. Awaits(c, X) => Awaits(c, X)'
    OBVIOUS
  <2>4. QED
    BY <1>1, <2>1, <2>2, <2>3
<1>11. WritesOf(c)' => Awaits(c, page[c].left \cup {writing[Home[c]].chunk})'
  <2> SUFFICES ASSUME WritesOf(c), writing'[Home[c]] = writing[Home[c]]
               PROVE  Awaits(c, page[c].left \cup {writing[Home[c]].chunk})'
    BY <1>8
  <2>1. Awaits(c, page[c].left \cup {writing[Home[c]].chunk})
    BY DEF UploadInv
  <2>2. PICK X : X = page[c].left \cup {writing[Home[c]].chunk}
                 /\ X = page'[c].left \cup {writing'[Home[c]].chunk}
    BY <1>1
  <2>3. Awaits(c, X) => Awaits(c, X)'
    OBVIOUS
  <2>4. QED
    BY <2>1, <2>2, <2>3
<1>12. QED
  BY <1>1, <1>6, <1>7, <1>8, <1>9, <1>10, <1>11 DEF UploadInv, IsNext

(***************************************************************************)
(* FileInfo::update: the file counts the chunk, or does not.               *)
(***************************************************************************)
LEMMA Counted ==
  ASSUME TypeInv, NEW c \in Clients, NEW k \in 1..Len(files[c]), NEW y \in Nat, Update(c, k, y),
         FileInv(c), files[c][k].calcIndex <= y, y < Size[files[c][k].name]
  PROVE  \E h \in Files :
           /\ files' \in [Clients -> Seq(Files)] /\ Len(files'[c]) = Len(files[c]) /\ files'[c][k] = h
           /\ \A j \in 1..Len(files[c]) : j # k => files'[c][j] = files[c][j]
           /\ \A d \in Clients \ {c} : files'[d] = files[d]
           /\ h.name = files[c][k].name /\ h.mode = files[c][k].mode /\ h.full = files[c][k].full
           /\ h.status = files[c][k].status /\ h.owner = files[c][k].owner
           /\ h.verdict = files[c][k].verdict
           /\ Len(h.digest) = h.calcIndex /\ h.calcIndex <= y + 1 /\ h.calcIndex <= Size[h.name]
<1>1. files \in [Clients -> Seq(Files)]
  BY DEF TypeInv
<1>2. PICK g \in Files : g = files[c][k]
  BY <1>1, ElementOfSeq
<1>3. Len(g.digest) = g.calcIndex /\ g.calcIndex \in Nat /\ g.digest \in Seq(Nat)
  BY <1>2 DEF FileInv, Files
<1>4. g.calcIndex <= y /\ y < Size[g.name] /\ g.name \in Names /\ Size[g.name] \in Nat
  BY <1>2, SizeType DEF Files
<1>5. CASE files' = files
  BY <1>1, <1>2, <1>3, <1>4, <1>5
<1>6. CASE files' = [files EXCEPT ![c][k].calcIndex = @ + 1, ![c][k].digest = Append(@, y)]
  <2>1. PICK z \in Nat : z = g.calcIndex + 1
    BY <1>3
  <2>2. PICK t \in Seq(Nat) : t = Append(g.digest, y) /\ Len(t) = z
    <3>1. Append(g.digest, y) \in Seq(Nat) /\ Len(Append(g.digest, y)) = Len(g.digest) + 1
      BY <1>3, AppendProperties
    <3>2. QED
      BY <1>3, <2>1, <3>1
  <2>3. PICK h : h = [g EXCEPT !.calcIndex = z, !.digest = t]
    OBVIOUS
  <2>4. /\ h \in Files /\ h.calcIndex = z /\ h.digest = t
        /\ h.name = g.name /\ h.mode = g.mode /\ h.full = g.full
        /\ h.status = g.status /\ h.owner = g.owner /\ h.verdict = g.verdict
    BY <2>3 DEF Files
  <2>5. files' = [files EXCEPT ![c] = [files[c] EXCEPT ![k] = h]]
    <3>1. PICK q \in Seq(Files) : q = files[c]
      BY <1>1
    <3>2. k \in DOMAIN q
      BY <3>1, LenProperties
    <3>3. files' = [files EXCEPT ![c] = [q EXCEPT ![k] = [g EXCEPT !.calcIndex = g.calcIndex + 1, !.digest = Append(g.digest, y)]]]
      BY <1>1, <1>2, <1>6, <3>1, <3>2 DEF Files
    <3>4. QED
      BY <2>1, <2>2, <2>3, <3>1, <3>3
  <2>6. /\ files' \in [Clients -> Seq(Files)] /\ Len(files'[c]) = Len(files[c]) /\ files'[c][k] = h
        /\ \A j \in 1..Len(files[c]) : j # k => files'[c][j] = files[c][j]
        /\ \A d \in Clients \ {c} : files'[d] = files[d]
    BY <2>4, <2>5, FileChanged
  <2>7. h.calcIndex <= y + 1 /\ h.calcIndex <= Size[h.name]
    BY <1>3, <1>4, <2>1, <2>4
  <2>8. QED
    BY <1>2, <2>2, <2>4, <2>6, <2>7
<1>7. QED
  BY <1>5, <1>6 DEF Update

LEMMA UpdatePreserves ==
  ASSUME ServerInv, NEW l \in CalcLoops, calcQueue[l] # <<>>, NEW f, f = Head(calcQueue[l]), f.fn = "update",
         Update(f.client, f.file, f.chunk), calcQueue' = [calcQueue EXCEPT ![l] = Tail(@)],
         UNCHANGED <<page, left, request, told, reply, up, memo, writing, ioQueue, database, lost,
                     verified, listed, body>>
  PROVE  ServerInv'
<1>1. /\ TypeInv
      /\ calcQueue' \in [CalcLoops -> Seq(CalcFunctors)]
      /\ \A d : NoMoreCalc(d)
      /\ \A d : d # calcQueue[l][1].client => SameCalc(d)
      /\ f = calcQueue[l][1] /\ f \in CalcFunctors
      /\ Len(calcQueue[l]) \in Nat \ {0}
  BY CalcTaken DEF ServerInv
<1>2. PICK c \in Clients, k \in Nat, y \in Nat : f.client = c /\ f.file = k /\ f.chunk = y
  BY <1>1 DEF CalcFunctors
<1>3. ClientInv(c) /\ FileInv(c) /\ CalcInv(c) /\ IoInv(c)
  BY DEF ServerInv, ClientInv
<1>4. CalcOk(c, l, 1)
  BY <1>1, <1>2, <1>3 DEF CalcInv
<1>5. k \in 1..Len(files[c]) /\ y \in files[c][k].full /\ files[c][k].calcIndex <= y
  BY <1>1, <1>2, <1>4 DEF CalcOk
<1>6. y < Size[files[c][k].name]
  <2>1. files[c][k] \in Files
    BY <1>1, <1>5, ElementOfSeq DEF TypeInv
  <2>2. files[c][k].name \in Names
    BY <2>1 DEF Files
  <2>3. PICK z \in Nat : z = Size[files[c][k].name]
    BY <2>2, SizeType
  <2>4. y \in 0..(z - 1)
    BY <1>3, <1>5, <2>3 DEF FileInv, Chunks
  <2>5. QED
    BY <2>3, <2>4
<1>7. PICK h \in Files :
        /\ files' \in [Clients -> Seq(Files)] /\ Len(files'[c]) = Len(files[c]) /\ files'[c][k] = h
        /\ \A j \in 1..Len(files[c]) : j # k => files'[c][j] = files[c][j]
        /\ \A d \in Clients \ {c} : files'[d] = files[d]
        /\ h.name = files[c][k].name /\ h.mode = files[c][k].mode /\ h.full = files[c][k].full
        /\ h.status = files[c][k].status /\ h.owner = files[c][k].owner
        /\ h.verdict = files[c][k].verdict
        /\ Len(h.digest) = h.calcIndex /\ h.calcIndex <= y + 1 /\ h.calcIndex <= Size[h.name]
  BY <1>1, <1>2, <1>3, <1>5, <1>6, Counted
<1>8. TypeInv'
  BY <1>1, <1>7 DEF TypeInv
<1>9. files[c][k].verdict = "none" /\ files[c][k].mode = "write" /\ files[c][k].full \subseteq Chunks(files[c][k].name)
      /\ Len(files[c]) \in Nat
  <2>1. files[c][k].verdict = "none" /\ files[c][k].mode = "write"
    BY <1>1, <1>2, <1>4 DEF CalcOk
  <2>2. QED
    BY <1>1, <1>3, <1>5, <2>1, LenProperties DEF FileInv, TypeInv
<1>10. FileInv(c)'
  <2>1. \A n \in Names : memo'[c][n] \in {0, memo[c][n]}
    OBVIOUS
  <2>2. /\ h.name = files[c][k].name /\ h.full \subseteq Chunks(h.name)
        /\ Len(h.digest) = h.calcIndex /\ h.calcIndex <= Size[h.name]
        /\ h.verdict = "none" /\ h.mode = "write"
    BY <1>7, <1>9
  <2>3. QED
    BY <1>3, <1>5, <1>7, <1>9, <2>1, <2>2, FileKept
<1>11. FilesKept(c)
  <2>1. \A j \in 1..Len(files[c]) : j = k \/ files'[c][j] = files[c][j]
    BY <1>7
  <2>2. QED
    BY <1>7, <2>1 DEF FilesKept, Whole
<1>12. CalcInv(c)'
  <2>1. h.calcIndex \in Nat
    BY DEF Files
  <2>2. QED
    <3>1. /\ calcQueue[l][1].fn = "update" /\ calcQueue[l][1].chunk \in Nat
          /\ h.calcIndex <= calcQueue[l][1].chunk + 1
          /\ calcQueue[l][1].client = c /\ calcQueue[l][1].file = k
      BY <1>1, <1>2, <1>7
    <3>2. TypeInv /\ CalcInv(c)
      BY <1>1, <1>3
    <3>3. QED
      BY <1>5, <1>7, <2>1, <3>1, <3>2, CalcLeft
<1>13. SameWrite(c) /\ NoMoreCalc(c) /\ NoMoreIo(c) /\ SamePage(c) /\ SameRows(c)
  BY <1>1, IoRests DEF SameWrite, SamePage, SameRows, Free
<1>14. IoInv(c)'
  BY <1>3, <1>11, IoKept DEF IoInv, Free
<1>15. ToldInv(c)' /\ BodyInv(c)'
  BY <1>3 DEF ClientInv, ToldInv, BodyInv, Recorded, WholeDownload
<1>16. DownInv(c)'
  <2>1. WritesOf(c)' => WritesOf(c)
    BY <1>13, WriteStays
  <2>2. QED
    BY <1>3, <2>1 DEF ClientInv, DownInv
<1>17. \A X : Awaits(c, X) => Awaits(c, X)'
  <2> SUFFICES ASSUME NEW X, Awaits(c, X) PROVE Awaits(c, X)'
    OBVIOUS
  <2>1. PICK n \in Names : n = page[c].name /\ n = page'[c].name
    BY DEF Awaits
  <2>2. PICK m : m = memo[c][n] /\ m = memo'[c][n]
    OBVIOUS
  <2>3. /\ m # 0 /\ files[c][m].mode = "write" /\ files[c][m].status = "uploading"
        /\ files[c][m].verdict = "none" /\ X \subseteq Chunks(n) /\ files[c][m].full = Chunks(n) \ X
        /\ \A x \in X :
             /\ files[c][m].calcIndex <= x
             /\ \A j \in CalcLoops : \A i \in 1..Len(calcQueue[j]) :
                  CalcAt(c, j, i) /\ calcQueue[j][i].file = m /\ calcQueue[j][i].fn = "update" =>
                    calcQueue[j][i].chunk < x
    BY <2>1, <2>2 DEF Awaits
  <2>4. m \in 1..Len(files[c])
    BY <1>3, <1>9, <2>2, <2>3 DEF FileInv
  <2>5. /\ files'[c][m].mode = "write" /\ files'[c][m].status = "uploading"
        /\ files'[c][m].verdict = "none" /\ files'[c][m].full = Chunks(n) \ X
    BY <1>7, <2>3, <2>4
  <2>6. ASSUME NEW x \in X PROVE files'[c][m].calcIndex <= x
    <3>1. CASE m = k
      <4>1. CalcAt(c, l, 1)
        BY <1>1, <1>2 DEF CalcAt
      <4>2. y < x
        BY <1>1, <1>2, <2>3, <3>1, <4>1
      <4>3. x \in Nat
        BY <2>3 DEF Chunks
      <4>4. PICK z \in Nat : z = h.calcIndex
        BY DEF Files
      <4>5. z <= x
        BY <1>7, <4>2, <4>3, <4>4
      <4>6. QED
        BY <1>7, <3>1, <4>4, <4>5
    <3>2. CASE m # k
      BY <1>7, <2>3, <2>4, <3>2
    <3>3. QED
      BY <3>1, <3>2
  <2>7. ASSUME NEW x \in X, NEW j \in CalcLoops, NEW i \in 1..Len(calcQueue'[j]),
               CalcAt(c, j, i)', calcQueue'[j][i].file = m, calcQueue'[j][i].fn = "update"
        PROVE  calcQueue'[j][i].chunk < x
    <3>1. PICK e \in 1..Len(calcQueue[j]) : calcQueue[j][e] = calcQueue'[j][i]
      BY <1>13, <2>7 DEF NoMoreCalc, NoMoreFor, NoneNew, CalcAt
    <3>2. CalcAt(c, j, e)
      BY <2>7, <3>1 DEF CalcAt
    <3>3. QED
      BY <2>3, <2>7, <3>1, <3>2
  <2>8. \A x \in X :
          /\ files'[c][m].calcIndex <= x
          /\ \A j \in CalcLoops : \A i \in 1..Len(calcQueue'[j]) :
               CalcAt(c, j, i)' /\ calcQueue'[j][i].file = m /\ calcQueue'[j][i].fn = "update" =>
                 calcQueue'[j][i].chunk < x
    BY <2>6, <2>7
  <2>9. QED
    BY ZenonT(60), <2>1, <2>2, <2>3, <2>5, <2>8 DEF Awaits
<1>18. ASSUME up[c]
       PROVE  OnceInv(c)' /\ TurnInv(c)' /\ ReplyInv(c)' /\ UploadInv(c)' /\ DownloadInv(c)'
  <2>1. OnceInv(c) /\ TurnInv(c) /\ ReplyInv(c) /\ DownloadInv(c) /\ UploadInv(c)
    BY <1>3, <1>18 DEF ClientInv
  <2>2. OnceInv(c)' /\ TurnInv(c)'
    BY <1>1, <1>13, <2>1, FunctorsStay, TurnStays
  <2>3. ReplyInv(c)'
    BY <1>1, <1>8, <1>13, <2>1, ReplyStays
  <2>4. DownloadInv(c)'
    BY <1>1, <1>3, <1>11, <1>13, <2>1, DownloadStays
  <2>5. UploadInv(c)'
    BY <1>1, <1>3, <1>8, <1>11, <1>13, <1>17, <2>1, UploadKept
  <2>6. QED
    BY <2>2, <2>3, <2>4, <2>5
<1>19. ClientInv(c)'
  BY <1>10, <1>12, <1>14, <1>15, <1>16, <1>18 DEF ClientInv
<1>20. \A d \in Clients \ {c} : Untouched(d)
  <2>1. \A d \in Clients \ {c} : SameIo(d) /\ SameCalc(d)
    BY <1>1, <1>2, IoRests
  <2>2. QED
    BY <1>7, <2>1 DEF Untouched, SamePage, SameFiles, SameWrite, SameRows, Free
<1>21. QED
  BY <1>8, <1>19, <1>20, ActorMoves

(***************************************************************************)
(* FileServer::judgeFileMD5                                                *)
(***************************************************************************)
QueueGrown(l, c, p) ==
  /\ ioQueue' \in [IoLoops -> Seq(IoFunctors)]
  /\ \A d : d # c => SameIo(d)
  /\ Len(ioQueue[l]) \in Nat /\ Len(p) \in Nat /\ Len(ioQueue'[l]) = Len(ioQueue[l]) + Len(p)
  /\ \A i \in 1..Len(ioQueue[l]) : ioQueue'[l][i] = ioQueue[l][i]
  /\ \A i \in 1..Len(ioQueue'[l]) :
       \/ i \in 1..Len(ioQueue[l]) /\ ioQueue'[l][i] = ioQueue[l][i]
       \/ i - Len(ioQueue[l]) \in 1..Len(p) /\ ioQueue'[l][i] = p[i - Len(ioQueue[l])]
  /\ \A i \in 1..Len(p) : ioQueue'[l][Len(ioQueue[l]) + i] = p[i]
  /\ \A m \in IoLoops \ {l} : ioQueue'[m] = ioQueue[m]

LEMMA IoGrown ==
  ASSUME TypeInv, NEW l \in IoLoops, NEW c, NEW p \in Seq(IoFunctors),
         \A i \in 1..Len(p) : p[i].client = c,
         ioQueue' = [ioQueue EXCEPT ![l] = @ \o p]
  PROVE  QueueGrown(l, c, p)
<1>1. ioQueue \in [IoLoops -> Seq(IoFunctors)]
  BY DEF TypeInv
<1>2. PICK q \in Seq(IoFunctors) : q = ioQueue[l]
  BY <1>1
<1>3. /\ q \o p \in Seq(IoFunctors) /\ Len(q \o p) = Len(q) + Len(p)
      /\ \A i \in 1..Len(q) : (q \o p)[i] = q[i]
      /\ \A i \in 1..Len(p) : (q \o p)[Len(q) + i] = p[i]
      /\ \A i \in (Len(q) + 1)..Len(q \o p) : (q \o p)[i] = p[i - Len(q)] /\ i - Len(q) \in 1..Len(p)
      /\ Len(q) \in Nat /\ Len(p) \in Nat
  BY Concat
<1>4. /\ ioQueue'[l] = q \o p /\ ioQueue' \in [IoLoops -> Seq(IoFunctors)]
      /\ \A m \in IoLoops \ {l} : ioQueue'[m] = ioQueue[m]
  BY <1>1, <1>2, <1>3
<1>5. ASSUME NEW d, d # c PROVE SameIo(d)
  <2>1. \A i \in 1..Len(p) : p[i].client # d
    BY <1>5
  <2>2. SameFor(d, q, q \o p)
    BY <2>1, SameBehind
  <2>3. \A m \in IoLoops \ {l} : SameFor(d, ioQueue[m], ioQueue'[m])
    BY <1>1, <1>4, SameItself
  <2>4. QED
    BY <1>2, <1>4, <2>2, <2>3 DEF SameIo
<1>6. \A i \in 1..Len(q \o p) :
        \/ i \in 1..Len(q) /\ (q \o p)[i] = q[i]
        \/ i - Len(q) \in 1..Len(p) /\ (q \o p)[i] = p[i - Len(q)]
  BY <1>3
<1>7. QED
  BY <1>2, <1>3, <1>4, <1>5, <1>6 DEF QueueGrown

(* A reply comes behind its row.                                           *)
RepliesOk(p, ok, c, k) ==
  /\ \A i \in 1..Len(p) :
       /\ p[i].client = c /\ p[i].fn \in {"updateDataBase", "send"}
       /\ p[i].fn = "updateDataBase" => ok /\ p[i].file = k
       /\ p[i].fn = "send" =>
            /\ i = Len(p)
            /\ p[i].status = "ok" =>
                 i = 2 /\ p[1].fn = "updateDataBase" /\ p[1].client = c /\ p[1].file = k

LEMMA RepliesProperties ==
  ASSUME NEW ok \in BOOLEAN, NEW c \in Clients, NEW k \in Nat, up[c] \in BOOLEAN
  PROVE  Replies(ok, c, k) \in Seq(IoFunctors) /\ RepliesOk(Replies(ok, c, k), ok, c, k)
<1>1. PICK u \in IoFunctors : u = [fn |-> "updateDataBase", client |-> c, file |-> k]
  BY DEF IoFunctors
<1>2. PICK s \in IoFunctors : s = [fn |-> "send", client |-> c, status |-> IF ok THEN "ok" ELSE "bad"]
  BY DEF IoFunctors
<1>3. /\ u.fn = "updateDataBase" /\ u.client = c /\ u.file = k
      /\ s.fn = "send" /\ s.client = c /\ (s.status = "ok" => ok)
  BY <1>1, <1>2
<1>4. Replies(ok, c, k) = (IF ok THEN <<u>> ELSE <<>>) \o (IF up[c] THEN <<s>> ELSE <<>>)
  BY <1>1, <1>2 DEF Replies
<1>5. CASE ok /\ up[c]
  <2>1. Replies(ok, c, k) = <<u>> \o <<s>>
    BY <1>4, <1>5
  <2>2. <<u>> \in Seq(IoFunctors) /\ <<s>> \in Seq(IoFunctors)
        /\ Len(<<u>>) = 1 /\ Len(<<s>>) = 1 /\ <<u>>[1] = u /\ <<s>>[1] = s
    OBVIOUS
  <2>3. PICK a \in Seq(IoFunctors), b \in Seq(IoFunctors) :
          a = <<u>> /\ b = <<s>> /\ Len(a) = 1 /\ Len(b) = 1 /\ a[1] = u /\ b[1] = s
    BY <2>2
  <2>4. PICK p \in Seq(IoFunctors) : p = a \o b /\ Len(p) = 2 /\ p[1] = u /\ p[2] = s
    <3>1. /\ a \o b \in Seq(IoFunctors) /\ Len(a \o b) = Len(a) + Len(b)
          /\ \A i \in 1..Len(a) : (a \o b)[i] = a[i]
          /\ \A i \in 1..Len(b) : (a \o b)[Len(a) + i] = b[i]
      BY Concat
    <3>2. /\ 1 \in 1..Len(a) /\ 1 \in 1..Len(b) /\ Len(a) + 1 = 2 /\ Len(a) + Len(b) = 2
      BY <2>3
    <3>3. (a \o b)[1] = u
      BY <2>3, <3>1, <3>2
    <3>4. (a \o b)[2] = s
      BY <2>3, <3>1, <3>2
    <3>5. QED
      BY <3>1, <3>2, <3>3, <3>4
  <2>5. \A i \in 1..2 : i = 1 \/ i = 2
    OBVIOUS
  <2>6. RepliesOk(p, ok, c, k)
    BY <1>3, <1>5, <2>4, <2>5 DEF RepliesOk
  <2>7. QED
    BY <2>1, <2>3, <2>4, <2>6
<1>6. CASE ok /\ ~up[c]
  <2>1. Replies(ok, c, k) = <<u>> \o <<>>
    BY <1>4, <1>6
  <2>2. <<u>> \o <<>> = <<u>>
    OBVIOUS
  <2>3. PICK p : p = <<u>>
    OBVIOUS
  <2>4. p \in Seq(IoFunctors) /\ Len(p) = 1 /\ p[1] = u
    BY <2>3
  <2>5. \A i \in 1..1 : i = 1
    OBVIOUS
  <2>6. RepliesOk(p, ok, c, k)
    BY <1>3, <1>6, <2>4, <2>5 DEF RepliesOk
  <2>7. QED
    BY <2>1, <2>2, <2>3, <2>4, <2>6
<1>7. CASE ~ok /\ up[c]
  <2>1. Replies(ok, c, k) = <<>> \o <<s>>
    BY <1>4, <1>7
  <2>2. <<>> \o <<s>> = <<s>>
    OBVIOUS
  <2>3. PICK p : p = <<s>>
    OBVIOUS
  <2>4. p \in Seq(IoFunctors) /\ Len(p) = 1 /\ p[1] = s
    BY <2>3
  <2>5. \A i \in 1..1 : i = 1
    OBVIOUS
  <2>6. RepliesOk(p, ok, c, k)
    BY <1>3, <1>7, <2>4, <2>5 DEF RepliesOk
  <2>7. QED
    BY <2>1, <2>2, <2>3, <2>4, <2>6
<1>8. CASE ~ok /\ ~up[c]
  <2>1. Replies(ok, c, k) = <<>> \o <<>>
    BY <1>4, <1>8
  <2>2. <<>> \o <<>> = <<>>
    OBVIOUS
  <2>3. PICK p \in Seq(IoFunctors) : p = <<>> /\ Len(p) = 0
    BY EmptySeq
  <2>4. RepliesOk(p, ok, c, k)
    BY <2>3 DEF RepliesOk
  <2>5. QED
    BY <2>1, <2>2, <2>3, <2>4
<1>9. QED
  BY <1>5, <1>6, <1>7, <1>8

(* The file k of c has become h, which is judged.                          *)
JudgedAs(c, k, ok, h) ==
  /\ files' \in [Clients -> Seq(Files)] /\ Len(files'[c]) = Len(files[c]) /\ files'[c][k] = h
  /\ \A j \in 1..Len(files[c]) : j # k => files'[c][j] = files[c][j]
  /\ \A d \in Clients \ {c} : files'[d] = files[d]
  /\ h.name = files[c][k].name /\ h.mode = files[c][k].mode /\ h.full = files[c][k].full
  /\ h.digest = files[c][k].digest /\ h.calcIndex = files[c][k].calcIndex
  /\ h.verdict = IF ok THEN "accepted" ELSE "rejected"

LEMMA Judged ==
  ASSUME TypeInv, NEW c \in Clients, NEW k \in 1..Len(files[c]), NEW ok \in BOOLEAN,
         files' = [files EXCEPT ![c][k].verdict = IF ok THEN "accepted" ELSE "rejected"]
  PROVE  \E h \in Files : JudgedAs(c, k, ok, h)
<1>1. files \in [Clients -> Seq(Files)]
  BY DEF TypeInv
<1>2. PICK g \in Files : g = files[c][k]
  BY <1>1, ElementOfSeq
<1>3. PICK v \in {"accepted", "rejected"} : v = IF ok THEN "accepted" ELSE "rejected"
  OBVIOUS
<1>4. PICK h : h = [g EXCEPT !.verdict = v]
  OBVIOUS
<1>5. /\ h \in Files /\ h.verdict = v /\ h.name = g.name /\ h.mode = g.mode /\ h.full = g.full
      /\ h.digest = g.digest /\ h.calcIndex = g.calcIndex
  BY <1>4 DEF Files
<1>6. files' = [files EXCEPT ![c] = [files[c] EXCEPT ![k] = h]]
  <2>1. PICK q \in Seq(Files) : q = files[c]
    BY <1>1
  <2>2. k \in DOMAIN q
    BY <2>1, LenProperties
  <2>3. files' = [files EXCEPT ![c] = [q EXCEPT ![k] = [g EXCEPT !.verdict = v]]]
    BY <1>1, <1>2, <1>3, <2>1, <2>2 DEF Files
  <2>4. QED
    BY <1>4, <2>1, <2>3
<1>7. /\ files' \in [Clients -> Seq(Files)] /\ Len(files'[c]) = Len(files[c]) /\ files'[c][k] = h
      /\ \A j \in 1..Len(files[c]) : j # k => files'[c][j] = files[c][j]
      /\ \A d \in Clients \ {c} : files'[d] = files[d]
  <2>1. PICK x \in Files : x = h
    BY <1>5
  <2>2. files' = [files EXCEPT ![c] = [files[c] EXCEPT ![k] = x]]
    BY <1>6, <2>1
  <2>3. /\ files' \in [Clients -> Seq(Files)] /\ Len(files'[c]) = Len(files[c]) /\ files'[c][k] = x
        /\ \A j \in 1..Len(files[c]) : j # k => files'[c][j] = files[c][j]
        /\ \A d \in Clients \ {c} : files'[d] = files[d]
    BY <2>2, FileChanged
  <2>4. QED
    BY <2>1, <2>3
<1>8. QED
  BY <1>2, <1>3, <1>5, <1>7 DEF JudgedAs

(* The judgement was the only one of c's, and there is none after it.      *)
LEMMA JudgeGone ==
  ASSUME TypeInv, NEW l \in CalcLoops, calcQueue[l] # <<>>,
         calcQueue' = [calcQueue EXCEPT ![l] = Tail(@)],
         NEW c \in Clients, OnceInv(c), JudgeAt(c, l, 1)
  PROVE  ~Judging(c)'
<1> SUFFICES ASSUME NEW m \in CalcLoops, NEW i, JudgeAt(c, m, i)' PROVE FALSE
  BY DEF Judging
<1>1. /\ Len(calcQueue[l]) \in Nat \ {0} /\ Len(calcQueue'[l]) = Len(calcQueue[l]) - 1
      /\ \A j \in 1..(Len(calcQueue[l]) - 1) : calcQueue'[l][j] = calcQueue[l][j + 1]
      /\ \A j \in CalcLoops \ {l} : calcQueue'[j] = calcQueue[j]
  BY CalcTaken
<1>2. i \in 1..Len(calcQueue'[m]) /\ i \in Nat
  BY DEF JudgeAt, CalcAt
<1>3. CASE m = l
  <2>1. JudgeAt(c, l, i + 1) /\ i + 1 \in Nat /\ i + 1 # 1
    BY <1>1, <1>2, <1>3 DEF JudgeAt, CalcAt
  <2>2. QED
    BY <2>1 DEF OnceInv
<1>4. CASE m # l
  <2>1. JudgeAt(c, m, i)
    BY <1>1, <1>4 DEF JudgeAt, CalcAt
  <2>2. QED
    BY <1>2, <1>4, <2>1 DEF OnceInv
<1>5. QED
  BY <1>3, <1>4

LEMMA JudgePreserves ==
  ASSUME ServerInv, NEW l \in CalcLoops, calcQueue[l] # <<>>, NEW f, f = Head(calcQueue[l]), f.fn = "judge",
         JudgeFileMD5(f.client, f.file), calcQueue' = [calcQueue EXCEPT ![l] = Tail(@)],
         UNCHANGED <<page, left, request, told, reply, up, memo, writing, database, lost,
                     verified, listed, body>>
  PROVE  ServerInv'
<1>1. /\ TypeInv
      /\ calcQueue' \in [CalcLoops -> Seq(CalcFunctors)]
      /\ \A d : NoMoreCalc(d)
      /\ \A d : d # calcQueue[l][1].client => SameCalc(d)
      /\ f = calcQueue[l][1] /\ f \in CalcFunctors
      /\ Len(calcQueue[l]) \in Nat \ {0}
  BY CalcTaken DEF ServerInv
<1>2. PICK c \in Clients, k \in Nat : f.client = c /\ f.file = k
  BY <1>1 DEF CalcFunctors
<1>3. ClientInv(c) /\ FileInv(c) /\ CalcInv(c) /\ IoInv(c)
  BY DEF ServerInv, ClientInv
<1>4. CalcOk(c, l, 1)
  BY <1>1, <1>2, <1>3 DEF CalcInv
<1>5. /\ k \in 1..Len(files[c]) /\ files[c][k].mode = "write" /\ Whole(c, k)
      /\ Size[files[c][k].name] # 0 /\ Len(files[c]) \in Nat /\ up[c] \in BOOLEAN
  <2>1. /\ k \in 1..Len(files[c]) /\ files[c][k].mode = "write" /\ Whole(c, k)
        /\ Size[files[c][k].name] # 0
    BY <1>1, <1>2, <1>4 DEF CalcOk
  <2>2. QED
    BY <1>1, <2>1, LenProperties DEF TypeInv
<1>6. PICK ok \in BOOLEAN : ok = Verify(files[c][k])
  BY DEF Verify
<1>7. /\ files' = [files EXCEPT ![c][k].verdict = IF ok THEN "accepted" ELSE "rejected"]
      /\ ioQueue' = [ioQueue EXCEPT ![Home[c]] = @ \o Replies(ok, c, k)]
  BY <1>2, <1>6 DEF JudgeFileMD5
<1>8. PICK h \in Files :
        /\ files' \in [Clients -> Seq(Files)] /\ Len(files'[c]) = Len(files[c]) /\ files'[c][k] = h
        /\ \A j \in 1..Len(files[c]) : j # k => files'[c][j] = files[c][j]
        /\ \A d \in Clients \ {c} : files'[d] = files[d]
        /\ h.name = files[c][k].name /\ h.mode = files[c][k].mode /\ h.full = files[c][k].full
        /\ h.digest = files[c][k].digest /\ h.calcIndex = files[c][k].calcIndex
        /\ h.verdict = IF ok THEN "accepted" ELSE "rejected"
  <2>1. TypeInv /\ files' = [files EXCEPT ![c][k].verdict = IF ok THEN "accepted" ELSE "rejected"]
    BY <1>1, <1>7
  <2>2. k \in 1..Len(files[c])
    BY <1>5
  <2>3. PICK h \in Files : JudgedAs(c, k, ok, h)
    BY <2>1, <2>2, Judged
  <2>4. QED
    BY <2>3 DEF JudgedAs
<1>9. PICK p \in Seq(IoFunctors) : p = Replies(ok, c, k) /\ RepliesOk(p, ok, c, k)
  BY <1>5, RepliesProperties
<1>10. PICK b \in IoLoops : b = Home[c]
  BY UploadAssumption
<1>11. QueueGrown(b, c, p)
  <2>1. \A i \in 1..Len(p) : p[i].client = c
    BY <1>9 DEF RepliesOk
  <2>2. ioQueue' = [ioQueue EXCEPT ![b] = @ \o p]
    BY <1>7, <1>9, <1>10
  <2>3. QED
    BY <1>1, <2>1, <2>2, IoGrown
<1>12. TypeInv'
  <2>1. ioQueue' \in [IoLoops -> Seq(IoFunctors)]
    BY <1>11 DEF QueueGrown
  <2>2. QED
    BY <1>1, <1>8, <2>1 DEF TypeInv
<1>13. FileInv(c)'
  <2>1. \A n \in Names : memo'[c][n] \in {0, memo[c][n]}
    OBVIOUS
  <2>2. /\ files[c][k].full = Chunks(files[c][k].name) /\ Len(files[c][k].digest) = files[c][k].calcIndex
        /\ files[c][k].calcIndex <= Size[files[c][k].name]
    BY <1>3, <1>5 DEF FileInv, Whole
  <2>3. h.verdict = "accepted" => Verify(h)
    BY <1>6, <1>8 DEF Verify
  <2>4. /\ h.name = files[c][k].name /\ h.full = Chunks(h.name)
        /\ Len(h.digest) = h.calcIndex /\ h.calcIndex <= Size[h.name]
    BY <1>8, <2>2
  <2>5. QED
    BY <1>3, <1>5, <1>8, <2>1, <2>3, <2>4, FileKept
<1>14. FilesKept(c)
  <2>1. \A j \in 1..Len(files[c]) : j = k \/ files'[c][j] = files[c][j]
    BY <1>8
  <2>2. QED
    BY <1>8, <2>1 DEF FilesKept, Whole
<1>15. CalcInv(c)'
  <2>1. calcQueue[l][1].client = c /\ calcQueue[l][1].file = k /\ calcQueue[l][1].fn = "judge"
    BY <1>1, <1>2
  <2>2. TypeInv /\ CalcInv(c)
    BY <1>1, <1>3
  <2>3. QED
    BY <1>5, <1>8, <2>1, <2>2, CalcLeft
<1>16. SameWrite(c) /\ NoMoreCalc(c)
  BY <1>1 DEF SameWrite, Free
<1>17. \A i \in 1..Len(ioQueue'[b]) :
         \/ i \in 1..Len(ioQueue[b]) /\ ioQueue'[b][i] = ioQueue[b][i]
         \/ i - Len(ioQueue[b]) \in 1..Len(p) /\ ioQueue'[b][i] = p[i - Len(ioQueue[b])]
  BY <1>11 DEF QueueGrown
<1>18. Uploaded(c, k)'
  BY <1>5, <1>8, <1>14 DEF Uploaded, FilesKept
<1>19. IoInv(c)'
  <2>1. ASSUME NEW m \in IoLoops, NEW i \in 1..Len(ioQueue'[m]), ioQueue'[m][i].client = c
        PROVE  \/ \E j \in 1..Len(ioQueue[m]) : ioQueue[m][j] = ioQueue'[m][i]
               \/ m = Home[c] /\ (ioQueue'[m][i].fn = "updateDataBase" => Uploaded(c, ioQueue[m][i].file)')
    <3>1. CASE m = b
      <4>1. CASE i \in 1..Len(ioQueue[b]) /\ ioQueue'[b][i] = ioQueue[b][i]
        BY <3>1, <4>1
      <4>2. CASE i - Len(ioQueue[b]) \in 1..Len(p) /\ ioQueue'[b][i] = p[i - Len(ioQueue[b])]
        <5>1. ioQueue'[m][i].fn = "updateDataBase" => ioQueue'[m][i].file = k
          BY <1>9, <3>1, <4>2 DEF RepliesOk
        <5>2. QED
          BY <1>10, <1>18, <3>1, <5>1 DEF Uploaded
      <4>3. QED
        BY <1>17, <3>1, <4>1, <4>2
    <3>2. CASE m # b
      <4>1. ioQueue'[m] = ioQueue[m]
        BY <1>11, <3>2 DEF QueueGrown
      <4>2. QED
        BY <4>1
    <3>3. QED
      BY <3>1, <3>2
  <2>2. \A n \in IoLoops : ~Free(n)' /\ writing'[n].client = c => n = Home[c]
    BY <1>3 DEF IoInv, Free
  <2>3. \A n \in Names : <<c, n>> \in database' => <<c, n>> \in database
    OBVIOUS
  <2>4. QED
    BY <1>3, <1>14, <2>1, <2>2, <2>3, IoKept
<1>20. ToldInv(c)' /\ BodyInv(c)'
  BY <1>3 DEF ClientInv, ToldInv, BodyInv, Recorded, WholeDownload
<1>21. DownInv(c)'
  <2>1. WritesOf(c)' => WritesOf(c)
    BY <1>16, WriteStays
  <2>2. QED
    BY <1>3, <2>1 DEF ClientInv, DownInv
<1>22. ASSUME up[c]
       PROVE  OnceInv(c)' /\ TurnInv(c)' /\ ReplyInv(c)' /\ UploadInv(c)' /\ DownloadInv(c)'
  <2>1. OnceInv(c) /\ TurnInv(c) /\ ReplyInv(c) /\ UploadInv(c)
    BY <1>3, <1>22 DEF ClientInv
  <2>2. JudgeAt(c, l, 1) /\ 1 \in 1..Len(calcQueue[l])
    BY <1>1, <1>2 DEF JudgeAt, CalcAt
  <2>3. Judging(c)
    BY <2>2 DEF Judging
  <2>4. /\ reply[c] = <<>> /\ page[c].doing = "chunk" /\ page[c].left = {} /\ request[c] = None
        /\ ~WritesOf(c) /\ ~Sending(c) /\ ~Streaming(c)
    BY <2>1, <2>3 DEF TurnInv
  <2>5. ~WritesOf(c)' /\ ~Judging(c)'
    BY <1>1, <1>16, <2>1, <2>2, <2>4, JudgeGone, WriteStays
  <2>6. PICK s \in Nat, t \in Nat : s = Len(ioQueue[b]) /\ t = Len(p) /\ Len(ioQueue'[b]) = s + t
    BY <1>11 DEF QueueGrown
  <2>7. \A i \in 1..Len(ioQueue'[b]) : ioQueue'[b][i].client = c /\ ioQueue'[b][i].fn # "updateDataBase" =>
          i - s \in 1..t /\ ioQueue'[b][i] = p[i - s]
    <3> SUFFICES ASSUME NEW i \in 1..Len(ioQueue'[b]),
                        ioQueue'[b][i].client = c, ioQueue'[b][i].fn # "updateDataBase",
                        ~(i - s \in 1..t /\ ioQueue'[b][i] = p[i - s])
                 PROVE  FALSE
      OBVIOUS
    <3>1. i \in 1..Len(ioQueue[b]) /\ ioQueue'[b][i] = ioQueue[b][i]
      BY <1>17, <2>6
    <3>2. ioQueue[b][i] \in IoFunctors
      BY <1>1, <3>1, ElementOfSeq DEF TypeInv
    <3>3. ioQueue[b][i].fn \in {"updateDataBase", "send", "streamSend"}
      BY <3>2 DEF IoFunctors
    <3>4. SendAt(c, i) \/ StreamAt(c, i)
      BY <1>10, <3>1, <3>3 DEF SendAt, StreamAt, IoAt
    <3>5. QED
      BY <1>10, <2>4, <3>1, <3>4 DEF Sending, Streaming
  <2>8. \A i : ~StreamAt(c, i)'
    <3> SUFFICES ASSUME NEW i, StreamAt(c, i)' PROVE FALSE
      OBVIOUS
    <3>1. i \in 1..Len(ioQueue'[b]) /\ ioQueue'[b][i].client = c /\ ioQueue'[b][i].fn = "streamSend"
      BY <1>10 DEF StreamAt, IoAt
    <3>2. i - s \in 1..t /\ ioQueue'[b][i] = p[i - s]
      BY <2>7, <3>1
    <3>3. p[i - s].fn \in {"updateDataBase", "send"}
      BY <1>9, <2>6, <3>2 DEF RepliesOk
    <3>4. QED
      BY <3>1, <3>2, <3>3
  <2>9. ASSUME NEW i, SendAt(c, i)'
        PROVE  /\ i = s + t /\ ioQueue'[b][i] = p[t] /\ t \in 1..t
               /\ p[t].status = "ok" => t = 2 /\ p[1].fn = "updateDataBase" /\ p[1].client = c /\ p[1].file = k
    <3>1. i \in 1..Len(ioQueue'[b]) /\ ioQueue'[b][i].client = c /\ ioQueue'[b][i].fn = "send"
      BY <1>10, <2>9 DEF SendAt, IoAt
    <3>2. i - s \in 1..t /\ ioQueue'[b][i] = p[i - s]
      BY <2>7, <3>1
    <3>3. PICK j \in 1..t : j = i - s
      BY <3>2
    <3>4. p[j].fn = "send" => /\ j = t
                              /\ p[j].status = "ok" =>
                                   j = 2 /\ p[1].fn = "updateDataBase" /\ p[1].client = c /\ p[1].file = k
      BY <1>9, <2>6 DEF RepliesOk
    <3>5. ioQueue'[b][i] = p[j] /\ p[j].fn = "send"
      BY <3>1, <3>2, <3>3
    <3>6. j = t /\ i = s + t
      BY <2>6, <3>1, <3>3, <3>4, <3>5
    <3>7. QED
      BY <3>4, <3>5, <3>6
  <2>10. OnceInv(c)' /\ ~Streaming(c)'
    <3>1. \A i, j \in Nat : SendAt(c, i)' /\ SendAt(c, j)' => i = j
      BY <2>9
    <3>2. QED
      BY <2>5, <2>8, <3>1 DEF OnceInv, Streaming, Judging, JudgeAt, CalcAt
  <2>11. TurnInv(c)' /\ ReplyInv(c)'
    BY <2>1, <2>4, <2>5, <2>10 DEF TurnInv, ReplyInv, Rows
  <2>12. DownloadInv(c)'
    BY <2>4 DEF DownloadInv
  <2>13. ASSUME NEW i \in 1..Len(ioQueue'[b]), SendAt(c, i)', ioQueue'[b][i].status = "ok"
         PROVE  \E j \in 1..(i - 1) :
                  /\ IoAt(c, j)' /\ ioQueue'[b][j].fn = "updateDataBase"
                  /\ files'[c][ioQueue'[b][j].file].name = page'[c].name
    <3>1. i = s + t /\ t = 2 /\ p[1].fn = "updateDataBase" /\ p[1].client = c /\ p[1].file = k
      BY <2>9, <2>13
    <3>2. ioQueue'[b][s + 1] = p[1]
      <4>1. 1 \in 1..Len(p)
        BY <2>6, <3>1
      <4>2. QED
        BY <1>11, <2>6, <4>1 DEF QueueGrown
    <3>3. PICK j \in 1..(i - 1) : j = s + 1 /\ j \in 1..Len(ioQueue'[b])
      BY SMTT(30), <2>6, <3>1
    <3>4. files'[c][k].name = page'[c].name
      <4>1. files[c][k].name = page[c].name
        BY <1>1, <1>2, <2>1, <2>2 DEF UploadInv
      <4>2. QED
        BY <1>8, <4>1
    <3>5. QED
      BY <1>10, <3>1, <3>2, <3>3, <3>4 DEF IoAt
  <2>14. UploadInv(c)'
    <3>1. /\ \A i \in 1..Len(ioQueue'[Home[c]]) :
               SendAt(c, i)' /\ ioQueue'[Home[c]][i].status = "ok" =>
                 \E j \in 1..(i - 1) :
                   /\ IoAt(c, j)' /\ ioQueue'[Home[c]][j].fn = "updateDataBase"
                   /\ files'[c][ioQueue'[Home[c]][j].file].name = page'[c].name
      BY <1>10, <2>13
    <3>2. ~Ready(c)' /\ request'[c] = None /\ page'[c].name \in Names
      BY <2>1, <2>4 DEF Ready, UploadInv
    <3>3. \A m \in CalcLoops : \A i : ~JudgeAt(c, m, i)'
      BY <2>5 DEF Judging, JudgeAt, CalcAt
    <3>4. QED
      BY <2>5, <3>1, <3>2, <3>3 DEF UploadInv
  <2>15. QED
    BY <2>10, <2>11, <2>12, <2>14
<1>23. ClientInv(c)'
  BY <1>13, <1>15, <1>19, <1>20, <1>21, <1>22 DEF ClientInv
<1>24. \A d \in Clients \ {c} : Untouched(d)
  <2>1. \A d \in Clients \ {c} : SameIo(d) /\ SameCalc(d)
    BY <1>1, <1>2, <1>11 DEF QueueGrown
  <2>2. QED
    BY <1>8, <2>1 DEF Untouched, SamePage, SameFiles, SameWrite, SameRows, Free
<1>25. QED
  BY <1>12, <1>23, <1>24, ActorMoves

LEMMA RunCalcFunctorPreserves ==
  ASSUME ServerInv, NEW l \in CalcLoops, RunCalcFunctor(l), UNCHANGED serverVars
  PROVE  ServerInv'
<1> USE DEF pageVars, databaseVars, serverVars
<1>1. PICK f : f = Head(calcQueue[l])
  OBVIOUS
<1>2. /\ calcQueue[l] # <<>> /\ calcQueue' = [calcQueue EXCEPT ![l] = Tail(@)]
      /\ UNCHANGED <<page, left, request, told, reply, up, memo, writing, database, lost, verified, listed, body>>
  BY DEF RunCalcFunctor
<1>3. CASE f.fn = "update" /\ Update(f.client, f.file, f.chunk) /\ UNCHANGED ioQueue
  BY <1>1, <1>2, <1>3, UpdatePreserves
<1>4. CASE f.fn = "judge" /\ JudgeFileMD5(f.client, f.file)
  BY <1>1, <1>2, <1>4, JudgePreserves
<1>5. QED
  BY <1>1, <1>3, <1>4 DEF RunCalcFunctor

-----------------------------------------------------------------------------
(***************************************************************************)
(* The invariant holds at first and after every step.                      *)
(***************************************************************************)
LEMMA InitServerInv ==
  ASSUME Init
  PROVE  ServerInv
<1> USE DEF Init, UploadInit
<1>1. TypeInv
  <2>1. Idle \in Pages
    BY DEF Idle, Pages, Doings
  <2>2. <<>> \in Seq(Replying) /\ <<>> \in Seq(Files) /\ <<>> \in Seq(IoFunctors) /\ <<>> \in Seq(CalcFunctors)
    BY EmptySeq
  <2>3. page \in [Clients -> Pages] /\ left \in [Clients -> Nat] /\ request \in [Clients -> Requests \cup {None}]
    BY <2>1, UploadAssumption
  <2>4. /\ reply \in [Clients -> Seq(Replying)] /\ up \in [Clients -> BOOLEAN]
        /\ files \in [Clients -> Seq(Files)] /\ memo \in [Clients -> [Names -> Nat]]
    BY <2>2
  <2>5. /\ writing \in [IoLoops -> Writes \cup {None}] /\ ioQueue \in [IoLoops -> Seq(IoFunctors)]
        /\ calcQueue \in [CalcLoops -> Seq(CalcFunctors)]
    BY <2>2
  <2>6. /\ database \cup lost \cup told \subseteq Clients \X Names /\ verified \subseteq Clients
        /\ listed \in [Clients -> SUBSET Names] /\ body \in [Clients -> Seq(Replying)]
    BY <2>2
  <2>7. QED
    BY <2>3, <2>4, <2>5, <2>6 DEF TypeInv
<1>2. ASSUME NEW c \in Clients PROVE ClientInv(c)
  <2>1. /\ page[c] = Idle /\ request[c] = None /\ reply[c] = <<>> /\ up[c] /\ files[c] = <<>> /\ Len(files[c]) = 0
        /\ \A n \in Names : memo[c][n] = 0
        /\ listed[c] = {} /\ body[c] = <<>> /\ Len(body[c]) = 0
    BY EmptySeq
  <2>2. /\ \A l \in IoLoops : Free(l) /\ Len(ioQueue[l]) = 0
        /\ \A l \in CalcLoops : Len(calcQueue[l]) = 0
        /\ Home[c] \in IoLoops
    BY EmptySeq, UploadAssumption DEF Free
  <2>3. page[c].doing = "idle"
    BY <2>1 DEF Idle
  <2>4. FileInv(c)
    BY <2>1 DEF FileInv
  <2>5. CalcInv(c) /\ IoInv(c) /\ DownInv(c)
    BY <2>1, <2>2 DEF CalcInv, IoInv, DownInv
  <2>6. NothingOwed(c)
    BY <2>2 DEF NothingOwed, WritesOf, Judging, Sending, Streaming
  <2>7. OnceInv(c)
    BY <2>2 DEF OnceInv, JudgeAt, CalcAt, SendAt, StreamAt, IoAt
  <2>8. TurnInv(c) /\ ReplyInv(c)
    BY <2>1, <2>3, <2>6 DEF TurnInv, NothingOwed, ReplyInv
  <2>9. UploadInv(c)
    BY <2>1, <2>2, <2>3, <2>6 DEF UploadInv, NothingOwed, Ready
  <2>10. DownloadInv(c) /\ ToldInv(c) /\ BodyInv(c)
    BY <2>1, <2>3 DEF DownloadInv, ToldInv, BodyInv
  <2>11. QED
    BY <2>4, <2>5, <2>7, <2>8, <2>9, <2>10 DEF ClientInv
<1>3. QED
  BY <1>1, <1>2 DEF ServerInv

LEMMA StutterServerInv ==
  ASSUME ServerInv, UNCHANGED vars
  PROVE  ServerInv'
<1> USE DEF vars, uploadVars, pageVars, fileVars, databaseVars, serverVars
<1>1. TypeInv'
  BY DEF ServerInv, TypeInv
<1>2. ASSUME NEW c \in Clients PROVE ClientInv(c)'
  <2>1. TypeInv /\ ClientInv(c)
    BY DEF ServerInv
  <2>2. Untouched(c)
    BY <2>1, CalcRests, IoRests DEF Untouched, SamePage, SameFiles, SameWrite, SameRows, Free
  <2>3. QED
    BY <1>1, <2>1, <2>2, OthersStay
<1>3. QED
  BY <1>1, <1>2 DEF ServerInv

LEMMA NextServerInv ==
  ASSUME ServerInv, [Next]_vars
  PROVE  ServerInv'
<1>1. CASE UNCHANGED vars
  BY <1>1, StutterServerInv
<1>2. ASSUME NEW c \in Clients, PageStep(c) PROVE ServerInv'
  <2>1. CASE UploadPageStep(c) /\ UNCHANGED serverVars
    <3>1. CASE Receive(c)
      BY <2>1, <3>1, ReceivePreserves
    <3>2. CASE Succeed(c)
      BY <2>1, <3>2, SucceedPreserves
    <3>3. CASE \E i \in page[c].left : SendChunk(c, i)
      BY <2>1, <3>3, SendChunkPreserves
    <3>4. QED
      BY <2>1, <3>1, <3>2, <3>3 DEF UploadPageStep
  <2>2. CASE ReceiveAnswer(c)
    BY <2>2, ReceiveAnswerPreserves
  <2>3. QED
    BY <1>2, <2>1, <2>2 DEF PageStep
<1>3. ASSUME NEW c \in Clients, UserStep(c) PROVE ServerInv'
  <2>1. CASE LogIn(c)
    BY <2>1, LogInPreserves
  <2>2. CASE \E n \in Names : FollowLink(c, n)
    BY <2>2, FollowLinkPreserves
  <2>3. CASE UNCHANGED serverVars /\ \E n \in Disk[c] : SendFileInfo(c, n)
    <3>1. Disk[c] \subseteq Names
      BY UploadAssumption
    <3>2. QED
      BY <2>3, <3>1, SendFileInfoPreserves
  <2>4. QED
    BY <1>3, <2>1, <2>2, <2>3 DEF UserStep
<1>4. ASSUME NEW c \in Clients, ConnectionDown(c) PROVE ServerInv'
  BY <1>4, ConnectionDownPreserves
<1>5. ASSUME NEW l \in IoLoops, IoStep(l) PROVE ServerInv'
  <2>1. CASE UploadIoStep(l) /\ UNCHANGED serverVars
    <3>1. CASE FailWrite(l)
      BY <2>1, <3>1, FailWritePreserves
    <3>2. CASE FinishWrite(l)
      BY <2>1, <3>2, FinishWritePreserves
    <3>3. CASE RunIoFunctor(l)
      BY <2>1, <3>3, RunIoFunctorPreserves
    <3>4. CASE \E c \in Clients : WaitFileInfo(c) \/ StartWrite(c)
      BY <2>1, <3>4, WaitFileInfoPreserves, StartWritePreserves
    <3>5. QED
      BY <2>1, <3>1, <3>2, <3>3, <3>4 DEF UploadIoStep
  <2>2. CASE StreamSend(l)
    BY <2>2, StreamSendPreserves
  <2>3. CASE \E c \in Clients : LoginHandler(c) \/ ListHandler(c) \/ DownloadHandler(c)
    BY <2>3, LoginHandlerPreserves, ListHandlerPreserves, DownloadHandlerPreserves
  <2>4. QED
    BY <1>5, <2>1, <2>2, <2>3 DEF IoStep
<1>6. ASSUME NEW l \in CalcLoops, CalcStep(l) PROVE ServerInv'
  BY <1>6, RunCalcFunctorPreserves DEF CalcStep
<1>7. QED
  BY <1>1, <1>2, <1>3, <1>4, <1>5, <1>6 DEF Next

LEMMA Invariance == Spec => []ServerInv
<1>1. Init => ServerInv
  BY InitServerInv
<1>2. ServerInv /\ [Next]_vars => ServerInv'
  BY NextServerInv
<1>3. QED
  BY <1>1, <1>2, PTL DEF Spec

-----------------------------------------------------------------------------
(***************************************************************************)
(* What the invariant gives.                                               *)
(***************************************************************************)
LEMMA BodyIsBounded ==
  ASSUME ServerInv, NEW c \in Clients
  PROVE  Len(body[c]) <= Cardinality(UNION {Chunks(n) : n \in Names}) + 1
<1>1. PICK all : all = UNION {Chunks(n) : n \in Names}
  OBVIOUS
<1>2. IsFiniteSet(all)
  <2>1. PICK S : S = {Chunks(n) : n \in Names}
    OBVIOUS
  <2>2. PICK f : f = [n \in Names |-> Chunks(n)]
    OBVIOUS
  <2>3. f \in Surjection(Names, S)
    BY <2>1, <2>2 DEF Surjection
  <2>4. IsFiniteSet(S)
    BY <2>3, UploadAssumption, FS_Surjection
  <2>5. \A T \in S : IsFiniteSet(T)
    BY <2>1, HowMany
  <2>6. IsFiniteSet(UNION S)
    BY <2>4, <2>5, FS_UNION
  <2>7. QED
    BY <1>1, <2>1, <2>6
<1>3. Cardinality(all) \in Nat
  BY <1>2, FS_CardinalityType
<1>4. CASE body[c] = <<>>
  BY <1>1, <1>3, <1>4, EmptySeq
<1>5. CASE body[c] # <<>>
  <2>1. PICK n \in Names : Len(body[c]) <= Size[n] + 1
    BY <1>5 DEF ServerInv, ClientInv, BodyInv
  <2>2. Chunks(n) \in SUBSET all
    BY <1>1
  <2>3. Cardinality(Chunks(n)) <= Cardinality(all) /\ Cardinality(Chunks(n)) = Size[n]
    BY <1>2, <2>2, FS_Subset, HowMany
  <2>4. body[c] \in Seq(Replying)
    BY DEF ServerInv, TypeInv
  <2>5. Len(body[c]) \in Nat /\ Size[n] \in Nat
    BY <2>4, LenProperties, SizeType
  <2>6. Len(body[c]) <= Cardinality(all) + 1
    BY <1>3, <2>1, <2>3, <2>5
  <2>7. QED
    BY <1>1, <2>6
<1>6. QED
  BY <1>4, <1>5

LEMMA Types ==
  ASSUME ServerInv
  PROVE  TypeOK
<1>1. TypeInv
  BY DEF ServerInv
<1>2. UploadTypeOK
  <2>1. ASSUME NEW c \in Clients, NEW k \in 1..Len(files[c])
        PROVE  /\ files[c][k] \in Files
               /\ files[c][k].full \subseteq Chunks(files[c][k].name)
               /\ Len(files[c][k].digest) = files[c][k].calcIndex
               /\ files[c][k].calcIndex <= Size[files[c][k].name]
    <3>1. files[c][k] \in Files
      BY <1>1, ElementOfSeq DEF TypeInv
    <3>2. FileInv(c)
      BY DEF ServerInv, ClientInv
    <3>3. QED
      BY <3>1, <3>2 DEF FileInv
  <2>2. \A c \in Clients, n \in Names : memo[c][n] \in 0..Len(files[c])
    BY DEF ServerInv, ClientInv, FileInv
  <2>3. QED
    BY <1>1, <2>1, <2>2 DEF UploadTypeOK, TypeInv
<1>3. \A c \in Clients : page[c].doing \in Waits \cup {"idle", "ready", "refused", "closed"}
  BY <1>1 DEF TypeInv, Pages, Doings
<1>4. ASSUME NEW c \in Clients, NEW i \in DOMAIN reply[c]
      PROVE  reply[c][i].status \in {"ok", "bad", "redirect", "refused", "data", "end"}
  <2>1. reply[c] \in Seq(Replying)
    BY <1>1 DEF TypeInv
  <2>2. i \in 1..Len(reply[c])
    BY <2>1, LenProperties
  <2>3. reply[c][i] \in Replying
    BY <2>1, <2>2, ElementOfSeq
  <2>4. QED
    BY <2>3 DEF Replying, Statuses
<1>5. QED
  BY <1>1, <1>2, <1>3, <1>4, BodyIsBounded DEF TypeOK, TypeInv

(* At most the first piece of what is on its way is an answer.             *)
LEMMA FirstIsTheAnswer ==
  ASSUME ServerInv, NEW c \in Clients, page[c].doing \notin {"login", "refused"}
  PROVE  Cardinality(Answers(c)) <= 1
<1>1. TypeInv /\ ClientInv(c)
  BY DEF ServerInv
<1>2. reply[c] \in Seq(Replying) /\ body[c] \in Seq(Replying)
  BY <1>1 DEF TypeInv
<1>3. DOMAIN reply[c] = 1..Len(reply[c]) /\ Len(reply[c]) \in Nat /\ Len(body[c]) \in Nat
  BY <1>2, LenProperties
<1>4. SUFFICES ASSUME NEW i \in 1..Len(reply[c]), i # 1, reply[c][i].status \in {"ok", "bad", "redirect"}
               PROVE  FALSE
  <2>1. ASSUME Answers(c) \subseteq {1} PROVE Cardinality(Answers(c)) <= 1
    <3>1. PICK S : S = {1} /\ IsFiniteSet(S) /\ Cardinality(S) = 1
      BY FS_Singleton
    <3>2. Answers(c) \in SUBSET S
      BY <2>1, <3>1
    <3>3. QED
      BY <3>1, <3>2, FS_Subset
  <2>2. QED
    BY <1>3, <2>1 DEF Answers
<1>5. reply[c] # <<>>
  BY <1>4, EmptySeq
<1>6. ReplyInv(c) /\ DownloadInv(c)
  BY <1>1, <1>5, PageIsUp
<1>7. \A a : Len(<<a>>) = 1
  OBVIOUS
<1>8. page[c].doing \in Doings
  BY <1>1 DEF TypeInv, Pages
<1>9. CASE page[c].doing # "download"
  <2>1. page[c].doing \in {"info", "chunk", "list"}
    BY <1>5, <1>6, <1>8, <1>9 DEF ReplyInv, Doings, Waits
  <2>2. \E a : reply[c] = <<a>>
    <3>1. CASE page[c].doing = "info"
      BY <1>5, <1>6, <3>1 DEF ReplyInv
    <3>2. CASE page[c].doing = "chunk"
      BY <1>5, <1>6, <3>2 DEF ReplyInv
    <3>3. CASE page[c].doing = "list"
      BY <1>5, <1>6, <3>3 DEF ReplyInv
    <3>4. QED
      BY <2>1, <3>1, <3>2, <3>3
  <2>3. Len(reply[c]) = 1
    BY <1>7, <2>2
  <2>4. QED
    BY <1>4, <2>3
<1>10. CASE page[c].doing = "download"
  <2>1. CASE reply[c] = <<Answer("bad", {})>>
    <3>1. Len(reply[c]) = 1
      BY <1>7, <2>1
    <3>2. QED
      BY <1>4, <3>1
  <2>2. CASE reply[c] # <<Answer("bad", {})>>
    <3>1. PICK n \in Names, e \in Nat : Sent(c, n, e)
      BY <1>5, <1>6, <1>10, <2>2 DEF DownloadInv
    <3>2. PICK b \in Nat : b = Len(body[c]) /\ b <= e
      BY <1>3, <3>1 DEF Sent
    <3>3. \A j \in Nat : Piece(n, j).status \notin {"ok", "bad", "redirect"}
      BY DEF Piece, Answer
    <3>4. CASE reply[c] = Pieces(n, b, e)
      <4>1. PICK p \in Seq(Replying) : /\ p = Pieces(n, b, e) /\ Len(p) = e - b
                                       /\ \A j \in 1..(e - b) : p[j] = Piece(n, b + j - 1)
        <5>1. /\ Pieces(n, b, e) \in Seq(Replying) /\ Len(Pieces(n, b, e)) = e - b
              /\ \A j \in 1..(e - b) : Pieces(n, b, e)[j] = Piece(n, b + j - 1)
          BY <3>2, PiecesProperties
        <5>2. QED
          BY <5>1
      <4>2. i \in 1..(e - b) /\ reply[c] = p
        BY <3>4, <4>1
      <4>3. reply[c][i] = Piece(n, b + i - 1) /\ b + i - 1 \in Nat
        BY <3>2, <4>1, <4>2
      <4>4. QED
        BY <1>4, <3>3, <4>3
    <3>5. CASE reply[c] = <<Answer("ok", {})>> \o Pieces(n, 0, e)
      <4>1. PICK a \in Seq(Replying) : a = <<Answer("ok", {})>> /\ Len(a) = 1
        <5>1. Answer("ok", {}) \in Replying
          BY DEF Answer, Replying, Statuses, Contents
        <5>2. PICK x \in Replying : x = Answer("ok", {})
          BY <5>1
        <5>3. <<x>> \in Seq(Replying) /\ Len(<<x>>) = 1
          OBVIOUS
        <5>4. QED
          BY <5>2, <5>3
      <4>2. PICK z \in Nat : z = 0 /\ z <= e
        OBVIOUS
      <4>3. PICK p \in Seq(Replying) : /\ p = Pieces(n, z, e) /\ Len(p) = e - z
                                       /\ \A j \in 1..(e - z) : p[j] = Piece(n, z + j - 1)
        <5>1. /\ Pieces(n, z, e) \in Seq(Replying) /\ Len(Pieces(n, z, e)) = e - z
              /\ \A j \in 1..(e - z) : Pieces(n, z, e)[j] = Piece(n, z + j - 1)
          BY <4>2, PiecesProperties
        <5>2. QED
          BY <5>1
      <4>4. \A j \in (Len(a) + 1)..Len(a \o p) : (a \o p)[j] = p[j - Len(a)] /\ j - Len(a) \in 1..Len(p)
        BY Concat
      <4>5. reply[c] = a \o p
        BY <3>5, <4>1, <4>2, <4>3
      <4>6. i \in (Len(a) + 1)..Len(a \o p)
        BY <1>3, <1>4, <4>1, <4>5
      <4>7. PICK j \in 1..(e - z) : reply[c][i] = p[j]
        BY <4>3, <4>4, <4>5, <4>6
      <4>8. reply[c][i] = Piece(n, z + j - 1) /\ z + j - 1 \in Nat
        BY <4>3, <4>7
      <4>9. QED
        BY <1>4, <3>3, <4>8
    <3>6. QED
      BY <3>1, <3>2, <3>4, <3>5 DEF Sent
  <2>3. QED
    BY <2>1, <2>2
<1>11. QED
  BY <1>9, <1>10


(* A chunk on its way to the server is awaited there.                      *)
LEMMA ChunksAreExpected ==
  ASSUME ServerInv
  PROVE  ChunkIsExpected
<1> SUFFICES ASSUME NEW c \in Clients, Post(c)
             PROVE  Expected(c)
  BY DEF ChunkIsExpected
<1>1. TypeInv /\ ClientInv(c)
  BY DEF ServerInv
<1>2. request[c] # None /\ request[c].post = "chunk"
  BY DEF Post
<1>3. up[c]
  BY <1>1, <1>2 DEF TypeInv, ClientInv, DownInv
<1>4. TurnInv(c) /\ UploadInv(c)
  BY <1>1, <1>3 DEF ClientInv
<1>5. page[c].doing = "chunk"
  BY <1>2, <1>4 DEF TurnInv
<1>6. request[c].name = page[c].name /\ Awaits(c, page[c].left \cup {request[c].chunk})
  BY <1>2, <1>4, <1>5 DEF UploadInv
<1>7. QED
  BY <1>6 DEF Awaits, Expected

(* A page that gets answers waits for them.                                *)
LEMMA Steps ==
  ASSUME ServerInv
  PROVE  InStep
<1>1. ASSUME NEW c \in Clients, reply[c] # <<>>
      PROVE  page[c].doing \in Waits \cup {"refused"}
  <2>1. TypeInv /\ ClientInv(c)
    BY DEF ServerInv
  <2>2. ReplyInv(c)
    BY <1>1, <2>1, PageIsUp
  <2>3. page[c].doing \in Doings
    BY <2>1 DEF TypeInv, Pages
  <2>4. QED
    BY <1>1, <2>2, <2>3 DEF ReplyInv, Doings
<1>2. QED
  BY <1>1, ChunksAreExpected, FirstIsTheAnswer DEF InStep

(* What was judged is whole, and so is what was sent to its end.           *)
LEMMA Wholeness ==
  ASSUME ServerInv
  PROVE  FilesAreWhole
<1>1. AcceptedIsWhole
  <2>1. ASSUME NEW c \in Clients, NEW k \in 1..Len(files[c]), files[c][k].verdict = "accepted"
        PROVE  Whole(c, k) /\ Verify(files[c][k])
    BY <2>1 DEF ServerInv, ClientInv, FileInv
  <2>2. QED
    BY <2>1 DEF AcceptedIsWhole, Whole, Verify
<1>2. DownloadIsWhole
  <2>1. ASSUME NEW c \in Clients
        PROVE  BodyInv(c) /\ DOMAIN body[c] = 1..Len(body[c])
    <3>1. body[c] \in Seq(Replying)
      BY DEF ServerInv, TypeInv
    <3>2. QED
      BY <3>1, LenProperties DEF ServerInv, ClientInv
  <2>2. QED
    BY <2>1 DEF BodyInv, WholeDownload, DownloadIsWhole
<1>3. QED
  BY <1>1, <1>2 DEF FilesAreWhole

(* A file a row can be made for has one when the page says so.             *)
LEMMA Rowed ==
  ASSUME ServerInv
  PROVE  ToldIsRecorded
<1>1. told \subseteq Clients \X Names
  BY DEF ServerInv, TypeInv
<1>2. ASSUME NEW c \in Clients, NEW n \in Names, <<c, n>> \in told, Storable(n)
      PROVE  <<c, n>> \in database \cup lost
  BY <1>2 DEF ServerInv, ClientInv, ToldInv, Recorded
<1>3. QED
  BY <1>1, <1>2 DEF ToldIsRecorded

-----------------------------------------------------------------------------
(***************************************************************************)
(* The theorems.                                                           *)
(***************************************************************************)

(***************************************************************************)
(* The pages, the requests and answers, the FileInfo objects and the rows  *)
(* are what they are declared to be: no digest counts more chunks than     *)
(* its file has, and no page receives more than a whole file.              *)
(***************************************************************************)
THEOREM TypeCorrect == Spec => []TypeOK
<1>1. ServerInv => TypeOK
  BY Types
<1>2. QED
  BY <1>1, Invariance, PTL

(***************************************************************************)
(* upload (file-server.cpp:178-185) always finds the object it looks up    *)
(* for a chunk, and still waiting for chunks: no connection's memo loses   *)
(* it while the page has chunks to post.  And a page never gets an answer  *)
(* it did not wait for, nor two to one request: the last chunk of a file   *)
(* is answered by judgeFileMD5 only, every other request by its handler.   *)
(***************************************************************************)
THEOREM StaysInStep == Spec => []InStep
<1>1. ServerInv => InStep
  BY Steps
<1>2. QED
  BY <1>1, Invariance, PTL

(***************************************************************************)
(* A file judgeFileMD5 accepts has every chunk on the disk and was         *)
(* digested in order, and a download that reached its end brought every    *)
(* chunk once and in order, whatever other pages, functors and calculation *)
(* loops did in between, for files of every size.                          *)
(***************************************************************************)
THEOREM FilesStayWhole == Spec => []FilesAreWhole
<1>1. ServerInv => FilesAreWhole
  BY Wholeness
<1>2. QED
  BY <1>1, Invariance, PTL

(***************************************************************************)
(* When the page says that a file of at least one byte and less than 2^32  *)
(* was uploaded, updateDataBase has run for it: the last chunk of such a   *)
(* file, and no other, finds it complete, and its answer follows the row.  *)
(* Nothing is assumed of the sizes: that a file is of such a size is part  *)
(* of the property, and SuccessIsRecorded, without it, is false.           *)
(***************************************************************************)
THEOREM ToldAfterRecorded == Spec => []ToldIsRecorded
<1>1. ServerInv => ToldIsRecorded
  BY Rowed
<1>2. QED
  BY <1>1, Invariance, PTL
=============================================================================
