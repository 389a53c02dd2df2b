---------------------------- MODULE MediaFilesProofs ----------------------------
(***************************************************************************)
(* Out files, for any number of runs, seconds, connections and pieces and  *)
(* any faults of the file system.  A path may be used by a stream of each  *)
(* run, so the invariant says whose a file is: of one stream that has      *)
(* begun, and of the one that is receiving if that path is its own.        *)
(* Under it EverythingSaved is inductive: a stream that is alone in its    *)
(* second has its path to itself.                                          *)
(* Under it, too, every step is one of Recorder or changes no recording.   *)
(***************************************************************************)
EXTENDS MediaFiles, SequenceTheorems, TLAPS

\* Pieces that stream c received, in order, up to the last-th one.
Content(s, c, last) ==
    /\ s \in Seq(Pieces)
    /\ \A i \in 1 .. Len(s) : s[i].of = c /\ s[i].n <= last
    /\ \A i, j \in 1 .. Len(s) : i < j => s[i].n < s[j].n

\* A stream has begun only if its run has, and what has not begun has received
\* nothing; only streams of a run that is up receive.
StreamsBegin ==
    /\ up => run \in Runs
    /\ \A c \in Streams :
          /\ phase[c] # "none" => c[1] <= run
          /\ phase[c] = "none" => received[c] = 0
          /\ phase[c] = "receiving" => up /\ c[1] = run

FilesOwned ==
    \A p \in DOMAIN files :
        files[p] = <<>> \/ \E c \in Streams :
            phase[c] # "none" /\ PathOf(c) = p /\ Content(files[p], c, received[c])

OwnFile ==
    \A c \in Streams :
        phase[c] = "receiving" /\ PathOf(c) \in DOMAIN files => Content(files[PathOf(c)], c, received[c])

MInv == MediaTypeOK /\ StreamsBegin /\ FilesOwned /\ OwnFile

-------------------------------------------------------------------------------
LEMMA EmptyContent ==
  ASSUME NEW c, NEW last
  PROVE  Content(<<>>, c, last) /\ <<>> \in Seq(Pieces)
BY DEF Content

LEMMA PieceNumbers ==
  ASSUME NEW s \in Seq(Pieces)
  PROVE  \A i \in 1 .. Len(s) : s[i] \in Pieces /\ s[i].n \in Nat /\ s[i].n >= 1
<1>1. \A i \in 1 .. Len(s) : s[i] \in Pieces
  OBVIOUS
<1>2. \A k \in Pieces : k.n \in Nat /\ k.n >= 1
  BY DEF Pieces
<1>3. QED BY <1>1, <1>2

LEMMA LongerContent ==
  ASSUME NEW s, NEW c, NEW last \in Nat, NEW later \in Nat, last <= later, Content(s, c, last)
  PROVE  Content(s, c, later)
<1>1. \A i \in 1 .. Len(s) : s[i].n \in Nat
  BY PieceNumbers DEF Content
<1>2. QED BY <1>1 DEF Content

LEMMA NextPiece ==
  ASSUME NEW c \in Streams, NEW last \in Nat, last < MaxReceived, NEW s, Content(s, c, last)
  PROVE  /\ [of |-> c, n |-> last + 1] \in Pieces
         /\ Content(Append(s, [of |-> c, n |-> last + 1]), c, last + 1)
<1> DEFINE k == [of |-> c, n |-> last + 1]
<1>1. k \in Pieces /\ k.of = c /\ k.n = last + 1
  BY MediaFilesAssumption DEF Pieces
<1>2. s \in Seq(Pieces) /\ Len(s) \in Nat
  BY DEF Content
<1> HIDE DEF k
<1>3. /\ Append(s, k) \in Seq(Pieces) /\ Len(Append(s, k)) = Len(s) + 1
      /\ \A i \in 1 .. Len(s) : Append(s, k)[i] = s[i]
      /\ Append(s, k)[Len(s) + 1] = k
  BY <1>1, <1>2, AppendProperties
<1>4. \A i \in 1 .. Len(s) : s[i].n \in Nat
  BY <1>2, PieceNumbers
<1>5. Content(Append(s, k), c, last + 1)
  BY <1>1, <1>2, <1>3, <1>4 DEF Content
<1>6. QED BY <1>1, <1>5 DEF k

\* A stream that has begun keeps its path and never receives less.
LEMMA StreamKept ==
  ASSUME MInv, [MediaNext]_mediaVars, NEW c \in Streams, phase[c] # "none"
  PROVE  /\ PathOf(c)' = PathOf(c) /\ phase'[c] # "none"
         /\ received'[c] \in Nat /\ received[c] \in Nat /\ received[c] <= received'[c]
<1> USE DEF MInv
<1>1. c[1] <= run
  BY DEF StreamsBegin
<1>2. c[1] \in Runs /\ c[2] \in 1 .. MaxConnections /\ run \in Int
  BY DEF Streams, MediaTypeOK
<1>3. received[c] \in Nat
  BY DEF MediaTypeOK
<1> USE DEF PathOf, MakeOutFilePath
<1>4. CASE StartServer
  <2>1. saveDir'[c[1]] = saveDir[c[1]]
    BY <1>1, <1>2, <1>4 DEF StartServer, MediaTypeOK, Runs
  <2>2. QED BY <1>3, <1>4, <2>1 DEF StartServer
<1>5. CASE ServerEnds
  BY <1>3, <1>5 DEF ServerEnds
<1>6. CASE SecondPasses
  BY <1>3, <1>6 DEF SecondPasses
<1>7. ASSUME NEW d \in Streams, NEW e \in Exts, BeginOutFiles(d, e)
      PROVE  ext'[c] = ext[c] /\ phase'[c] # "none" /\ UNCHANGED <<saveDir, received>>
  BY <1>7 DEF BeginOutFiles, MediaTypeOK
<1>8. ASSUME NEW d \in Streams, ReceiveCallback(d)
      PROVE  UNCHANGED <<ext, saveDir, phase>> /\ received'[c] \in {received[c], received[c] + 1}
  BY <1>8 DEF ReceiveCallback, MediaTypeOK
<1>9. ASSUME NEW d \in Streams, Disconnects(d)
      PROVE  UNCHANGED <<ext, saveDir, received>> /\ phase'[c] # "none"
  BY <1>9 DEF Disconnects, MediaTypeOK
<1>10. ASSUME NEW p \in Paths, MediaIsRemoved(p)
       PROVE  UNCHANGED <<ext, saveDir, received, phase>>
  BY <1>10 DEF MediaIsRemoved
<1>11. CASE UNCHANGED mediaVars
  BY <1>3, <1>11 DEF mediaVars
<1>12. QED BY <1>3, <1>4, <1>5, <1>6, <1>7, <1>8, <1>9, <1>10, <1>11 DEF MediaNext

-------------------------------------------------------------------------------
LEMMA MInvInit == MediaInit => MInv
<1> SUFFICES ASSUME MediaInit PROVE MInv
  OBVIOUS
<1> USE DEF MediaInit
<1>1. DOMAIN files = {}
  OBVIOUS
<1>2. MediaTypeOK
  <2>1. saveDir \in [Runs -> Seconds] /\ received \in [Streams -> 0 .. MaxReceived]
        /\ run \in 0 .. MaxRuns
    BY MediaFilesAssumption DEF Seconds
  <2>2. ext \in [Streams -> Exts] /\ phase \in [Streams -> {"none", "receiving", "ended"}]
        /\ up \in BOOLEAN
    BY DEF Exts
  <2>3. QED BY <1>1, <2>1, <2>2 DEF MediaTypeOK
<1>3. StreamsBegin /\ FilesOwned /\ OwnFile
  BY <1>1 DEF StreamsBegin, FilesOwned, OwnFile
<1>4. QED BY <1>2, <1>3 DEF MInv

\* What a step leaves of a file's owner.
LEMMA OwnerKept ==
  ASSUME MInv, [MediaNext]_mediaVars, NEW p, NEW s,
         s = <<>> \/ \E c \in Streams :
            phase[c] # "none" /\ PathOf(c) = p /\ Content(s, c, received[c])
  PROVE  s = <<>> \/ \E c \in Streams :
            phase'[c] # "none" /\ PathOf(c)' = p /\ Content(s, c, received'[c])
<1>1. CASE s = <<>>
  BY <1>1
<1>2. ASSUME NEW c \in Streams, phase[c] # "none" /\ PathOf(c) = p /\ Content(s, c, received[c])
      PROVE  phase'[c] # "none" /\ PathOf(c)' = p /\ Content(s, c, received'[c])
  <2>1. /\ PathOf(c)' = PathOf(c) /\ phase'[c] # "none"
        /\ received'[c] \in Nat /\ received[c] \in Nat /\ received[c] <= received'[c]
    BY <1>2, StreamKept
  <2>2. Content(s, c, received'[c])
    BY <1>2, <2>1, LongerContent
  <2>3. QED BY <1>2, <2>1, <2>2
<1>3. QED BY <1>1, <1>2

\* The steps that make no file and start no stream's receiving.
LEMMA FilesLeftStep ==
  ASSUME MInv, [MediaNext]_mediaVars, DOMAIN files' \subseteq DOMAIN files,
         \A p \in DOMAIN files' : files'[p] = files[p],
         UNCHANGED received,
         \A c \in Streams : phase'[c] = "receiving" => phase[c] = "receiving"
  PROVE  FilesOwned' /\ OwnFile'
<1>1. FilesOwned'
  <2> SUFFICES ASSUME NEW p \in DOMAIN files'
               PROVE  files'[p] = <<>> \/ \E c \in Streams :
                         phase'[c] # "none" /\ PathOf(c)' = p /\ Content(files'[p], c, received'[c])
    BY DEF FilesOwned
  <2>1. p \in DOMAIN files /\ files'[p] = files[p]
    OBVIOUS
  <2>2. files[p] = <<>> \/ \E c \in Streams :
            phase[c] # "none" /\ PathOf(c) = p /\ Content(files[p], c, received[c])
    BY <2>1 DEF MInv, FilesOwned
  <2>3. QED BY <2>1, <2>2, OwnerKept
<1>2. OwnFile'
  <2> SUFFICES ASSUME NEW c \in Streams, phase'[c] = "receiving", PathOf(c)' \in DOMAIN files'
               PROVE  Content(files'[PathOf(c)'], c, received'[c])
    BY DEF OwnFile
  <2>1. phase[c] = "receiving" /\ PathOf(c)' = PathOf(c)
    BY StreamKept
  <2>2. Content(files[PathOf(c)], c, received[c])
    BY <2>1 DEF MInv, OwnFile
  <2>3. QED BY <2>1, <2>2
<1>3. QED BY <1>1, <1>2

\* Two streams of one run never have the same path.
LEMMA PathsOfRun ==
  ASSUME MInv, NEW c \in Streams, NEW d \in Streams, c[1] = d[1], PathOf(c) = PathOf(d)
  PROVE  c = d
BY DEF PathOf, MakeOutFilePath, Streams

\* The accepted connection's file is made, and empty: whatever an earlier run
\* left at its path is gone, and no stream of this run has that path.
LEMMA BeginStep ==
  ASSUME MInv, NEW c \in Streams, NEW e \in Exts, BeginOutFiles(c, e)
  PROVE  MInv'
<1>0. run \in Int
  BY DEF MInv, MediaTypeOK
<1>e. PICK path : path = MakeOutFilePath(c, e)
  OBVIOUS
<1>1. /\ up /\ c[1] = run /\ phase[c] = "none" /\ run \in Int
      /\ ext' = [ext EXCEPT ![c] = e]
      /\ \/ phase' = [phase EXCEPT ![c] = "receiving"] /\ files' = Put(path, <<>>)
         \/ phase' = [phase EXCEPT ![c] = "ended"] /\ UNCHANGED files
      /\ UNCHANGED <<faults, clock, run, up, saveDir, received>>
  BY <1>0, <1>e DEF BeginOutFiles, MakeSaveFile
<1>2. [MediaNext]_mediaVars
  BY DEF MediaNext
<1>3. path \in Paths
  <2>1. saveDir[c[1]] \in Seconds /\ c[2] \in 1 .. MaxConnections
    BY <1>1 DEF MInv, MediaTypeOK, Streams
  <2>2. QED BY <1>e, <2>1 DEF MakeOutFilePath, Paths
<1>a. PathOf(c)' = path
  <2>1. ext'[c] = e /\ saveDir' = saveDir
    BY <1>1 DEF MInv, MediaTypeOK
  <2>2. QED BY <1>e, <2>1 DEF PathOf, MakeOutFilePath
<1>b. /\ \A d \in Streams : d # c => phase'[d] = phase[d] /\ received'[d] = received[d]
      /\ phase'[c] \in {"receiving", "ended"} /\ run' = run /\ up' = up
      /\ phase' \in [Streams -> {"none", "receiving", "ended"}]
      /\ ext' \in [Streams -> Exts]
  <2>1. phase \in [Streams -> {"none", "receiving", "ended"}] /\ ext \in [Streams -> Exts]
    BY DEF MInv, MediaTypeOK
  <2>2. \E f \in {"receiving", "ended"} : phase' = [phase EXCEPT ![c] = f]
    BY <1>1
  <2>3. QED BY <1>1, <2>1, <2>2
<1>4. StreamsBegin'
  <2>1. up' => run' \in Runs
    BY <1>b DEF MInv, StreamsBegin
  <2>2. ASSUME NEW d \in Streams
        PROVE  /\ phase'[d] # "none" => d[1] <= run'
               /\ phase'[d] = "none" => received'[d] = 0
               /\ phase'[d] = "receiving" => up' /\ d[1] = run'
    <3>1. CASE d = c
      BY <1>1, <1>b, <3>1
    <3>2. CASE d # c
      <4>1. /\ phase[d] # "none" => d[1] <= run
            /\ phase[d] = "none" => received[d] = 0
            /\ phase[d] = "receiving" => up /\ d[1] = run
        BY DEF MInv, StreamsBegin
      <4>2. QED BY <1>1, <1>b, <3>2, <4>1
    <3>3. QED BY <3>1, <3>2
  <2>3. QED BY <2>1, <2>2 DEF StreamsBegin
<1>c. ASSUME DOMAIN files' \subseteq Paths, \A p \in DOMAIN files' : files'[p] \in Seq(Pieces)
      PROVE  MediaTypeOK'
  <2>1. UNCHANGED <<faults, clock, run, up, saveDir, received>>
    BY DEF BeginOutFiles
  <2>2. QED BY <1>b, <1>c, <2>1 DEF MInv, MediaTypeOK
<1>5. CASE phase' = [phase EXCEPT ![c] = "receiving"] /\ files' = Put(path, <<>>)
  <2>1. /\ DOMAIN files' = DOMAIN files \cup {path} /\ files'[path] = <<>>
        /\ \A p \in DOMAIN files : p # path => files'[p] = files[p]
    BY <1>5 DEF Put
  <2>2. MediaTypeOK'
    <3>1. DOMAIN files' \subseteq Paths
      BY <1>3, <2>1 DEF MInv, MediaTypeOK
    <3>2. \A p \in DOMAIN files' : files'[p] \in Seq(Pieces)
      BY <2>1, EmptyContent DEF MInv, MediaTypeOK
    <3>3. QED BY <3>1, <3>2, <1>c
  <2>3. FilesOwned'
    <3> SUFFICES ASSUME NEW p \in DOMAIN files', p # path
                 PROVE  files'[p] = <<>> \/ \E d \in Streams :
                           phase'[d] # "none" /\ PathOf(d)' = p /\ Content(files'[p], d, received'[d])
      BY <2>1 DEF FilesOwned
    <3>1. p \in DOMAIN files /\ files'[p] = files[p]
      BY <2>1
    <3>2. files[p] = <<>> \/ \E d \in Streams :
              phase[d] # "none" /\ PathOf(d) = p /\ Content(files[p], d, received[d])
      BY <3>1 DEF MInv, FilesOwned
    <3>3. QED BY <1>2, <3>1, <3>2, OwnerKept
  <2>4. OwnFile'
    <3> SUFFICES ASSUME NEW d \in Streams, phase'[d] = "receiving", PathOf(d)' \in DOMAIN files'
                 PROVE  Content(files'[PathOf(d)'], d, received'[d])
      BY DEF OwnFile
    <3>1. CASE d = c
      BY <1>a, <2>1, <3>1, EmptyContent
    <3>2. CASE d # c
      <4>1. phase[d] = "receiving" /\ received'[d] = received[d]
        BY <1>1, <1>5, <3>2 DEF BeginOutFiles, MInv, MediaTypeOK
      <4>2. d[1] = run /\ d[2] # c[2]
        BY <1>1, <3>2, <4>1 DEF MInv, StreamsBegin, Streams
      <4>3. PathOf(d)' = PathOf(d) /\ PathOf(d) # path
        BY <1>2, <1>e, <4>1, <4>2, <1>1, StreamKept DEF PathOf, MakeOutFilePath
      <4>4. Content(files[PathOf(d)], d, received[d])
        BY <2>1, <4>1, <4>3 DEF MInv, OwnFile
      <4>5. QED BY <2>1, <4>1, <4>3, <4>4
    <3>3. QED BY <3>1, <3>2
  <2>5. QED BY <1>4, <2>2, <2>3, <2>4 DEF MInv
<1>6. CASE phase' = [phase EXCEPT ![c] = "ended"] /\ UNCHANGED files
  <2>1. MediaTypeOK'
    BY <1>6, <1>c DEF MInv, MediaTypeOK
  <2>2. \A d \in Streams : phase'[d] = "receiving" => phase[d] = "receiving"
    BY <1>6 DEF MInv, MediaTypeOK
  <2>3. FilesOwned' /\ OwnFile'
    BY <1>1, <1>2, <1>6, <2>2, FilesLeftStep
  <2>4. QED BY <1>4, <2>1, <2>3 DEF MInv
<1>7. QED BY <1>1, <1>5, <1>6

\* What a received piece leaves in the stream's file, and that no other file
\* changes.
LEMMA Received ==
  ASSUME MInv, NEW c \in Streams, ReceiveCallback(c)
  PROVE  \/ UNCHANGED files
         \/ \E s \in Seq(Pieces) : files' = Put(PathOf(c), s) /\ Content(s, c, received'[c])
<1>1. received[c] \in Nat /\ received[c] < MaxReceived /\ received'[c] = received[c] + 1
  BY DEF ReceiveCallback, MInv, MediaTypeOK
<1>2. ASSUME NEW content \in OpenOutFile(PathOf(c))
      PROVE  Content(content, c, received[c])
  <2>1. PathOf(c) \in DOMAIN files => Content(files[PathOf(c)], c, received[c])
    BY DEF ReceiveCallback, MInv, OwnFile
  <2>2. QED BY <1>2, <2>1, EmptyContent DEF OpenOutFile, MakeSaveFile
<1>3. ASSUME NEW content \in OpenOutFile(PathOf(c))
      PROVE  /\ Content(Append(content, [of |-> c, n |-> received[c] + 1]), c, received'[c])
             /\ Content(content, c, received'[c])
  BY <1>1, <1>2, <1>3, NextPiece, LongerContent
<1>4. QED BY <1>3 DEF ReceiveCallback, Content

LEMMA ReceiveStep ==
  ASSUME MInv, NEW c \in Streams, ReceiveCallback(c)
  PROVE  MInv'
<1>1. [MediaNext]_mediaVars
  BY DEF MediaNext
<1>2. UNCHANGED <<faults, clock, run, up, saveDir, ext, phase>>
  BY DEF ReceiveCallback
<1>3. phase[c] = "receiving" /\ up /\ c[1] = run /\ PathOf(c) \in Paths
  BY DEF ReceiveCallback, MInv, StreamsBegin, MediaTypeOK, PathOf, MakeOutFilePath, Streams, Paths
<1>4. received' \in [Streams -> 0 .. MaxReceived]
  BY MediaFilesAssumption DEF ReceiveCallback, MInv, MediaTypeOK
<1>5. StreamsBegin'
  BY <1>2, <1>3 DEF MInv, StreamsBegin, ReceiveCallback, MediaTypeOK
<1>6. \A d \in Streams : d # c => received'[d] = received[d]
  BY DEF ReceiveCallback, MInv, MediaTypeOK
<1>7. PathOf(c)' = PathOf(c)
  BY <1>2 DEF PathOf, MakeOutFilePath
<1>8. ASSUME UNCHANGED files
      PROVE  FilesOwned' /\ OwnFile' /\ MediaTypeOK'
  <2>1. FilesOwned'
    BY <1>1, <1>8, OwnerKept DEF MInv, FilesOwned
  <2>2. OwnFile'
    <3> SUFFICES ASSUME NEW d \in Streams, phase'[d] = "receiving", PathOf(d)' \in DOMAIN files'
                 PROVE  Content(files'[PathOf(d)'], d, received'[d])
      BY DEF OwnFile
    <3>1. /\ phase[d] = "receiving" /\ PathOf(d)' = PathOf(d)
          /\ received'[d] \in Nat /\ received[d] \in Nat /\ received[d] <= received'[d]
      BY <1>1, <1>2, StreamKept
    <3>2. Content(files[PathOf(d)], d, received[d])
      BY <1>8, <3>1 DEF MInv, OwnFile
    <3>3. QED BY <1>8, <3>1, <3>2, LongerContent
  <2>3. QED BY <1>2, <1>4, <1>8, <2>1, <2>2 DEF MInv, MediaTypeOK
<1>9. ASSUME NEW s \in Seq(Pieces), files' = Put(PathOf(c), s), Content(s, c, received'[c])
      PROVE  FilesOwned' /\ OwnFile' /\ MediaTypeOK'
  <2>1. /\ DOMAIN files' = DOMAIN files \cup {PathOf(c)} /\ files'[PathOf(c)] = s
        /\ \A p \in DOMAIN files : p # PathOf(c) => files'[p] = files[p]
    BY <1>9 DEF Put
  <2>2. FilesOwned'
    <3> SUFFICES ASSUME NEW p \in DOMAIN files'
                 PROVE  files'[p] = <<>> \/ \E d \in Streams :
                           phase'[d] # "none" /\ PathOf(d)' = p /\ Content(files'[p], d, received'[d])
      BY DEF FilesOwned
    <3>1. CASE p = PathOf(c)
      BY <1>2, <1>3, <1>7, <1>9, <2>1, <3>1
    <3>2. CASE p # PathOf(c)
      <4>1. p \in DOMAIN files /\ files'[p] = files[p]
        BY <2>1, <3>2
      <4>2. files[p] = <<>> \/ \E d \in Streams :
                phase[d] # "none" /\ PathOf(d) = p /\ Content(files[p], d, received[d])
        BY <4>1 DEF MInv, FilesOwned
      <4>3. QED BY <1>1, <4>1, <4>2, OwnerKept
    <3>3. QED BY <3>1, <3>2
  <2>3. OwnFile'
    <3> SUFFICES ASSUME NEW d \in Streams, phase'[d] = "receiving", PathOf(d)' \in DOMAIN files'
                 PROVE  Content(files'[PathOf(d)'], d, received'[d])
      BY DEF OwnFile
    <3>1. phase[d] = "receiving" /\ PathOf(d)' = PathOf(d) /\ d[1] = run
      BY <1>1, <1>2, StreamKept DEF MInv, StreamsBegin
    <3>2. CASE d = c
      BY <1>9, <2>1, <3>1, <3>2
    <3>3. CASE d # c
      <4>1. PathOf(d) # PathOf(c)
        BY <1>3, <3>1, <3>3, PathsOfRun
      <4>2. Content(files[PathOf(d)], d, received[d])
        BY <2>1, <3>1, <4>1 DEF MInv, OwnFile
      <4>3. QED BY <1>6, <2>1, <3>1, <3>3, <4>1, <4>2
    <3>4. QED BY <3>2, <3>3
  <2>4. MediaTypeOK'
    <3>1. DOMAIN files' \subseteq Paths
      BY <1>3, <2>1 DEF MInv, MediaTypeOK
    <3>2. \A p \in DOMAIN files' : files'[p] \in Seq(Pieces)
      BY <1>9, <2>1 DEF MInv, MediaTypeOK
    <3>3. QED BY <1>2, <1>4, <3>1, <3>2 DEF MInv, MediaTypeOK
  <2>5. QED BY <2>2, <2>3, <2>4
<1>10. QED BY <1>5, <1>8, <1>9, Received DEF MInv

-------------------------------------------------------------------------------
\* The steps that make no file and accept nothing.
LEMMA OtherStep ==
  ASSUME MInv,
         \/ StartServer \/ ServerEnds \/ SecondPasses
         \/ \E c \in Streams : Disconnects(c)
         \/ \E p \in Paths : MediaIsRemoved(p)
  PROVE  MInv'
<1>1. [MediaNext]_mediaVars
  BY DEF MediaNext
<1>2. received' = received /\ ext' = ext /\ faults' = faults
  BY DEF StartServer, ServerEnds, SecondPasses, Disconnects, MediaIsRemoved
<1>3. DOMAIN files' \subseteq DOMAIN files /\ \A p \in DOMAIN files' : files'[p] = files[p]
  BY DEF StartServer, ServerEnds, SecondPasses, Disconnects, MediaIsRemoved
<1>4. /\ \A c \in Streams : phase'[c] \in {phase[c], "ended"} /\ (phase[c] = "none" => phase'[c] = "none")
      /\ phase' \in [Streams -> {"none", "receiving", "ended"}]
  BY DEF StartServer, ServerEnds, SecondPasses, Disconnects, MediaIsRemoved, MInv, MediaTypeOK
<1>5. FilesOwned' /\ OwnFile'
  BY <1>1, <1>2, <1>3, <1>4, FilesLeftStep
<1>6. MediaTypeOK'
  <2>1. DOMAIN files' \subseteq Paths /\ \A p \in DOMAIN files' : files'[p] \in Seq(Pieces)
    BY <1>3 DEF MInv, MediaTypeOK
  <2>2. /\ clock' = clock \/ (clock < MaxSecond /\ clock' = clock + 1)
        /\ run' = run \/ (run < MaxRuns /\ run' = run + 1)
        /\ up' = up \/ up' = TRUE \/ up' = FALSE
    BY DEF StartServer, ServerEnds, SecondPasses, Disconnects, MediaIsRemoved
  <2>3. saveDir' \in [Runs -> Seconds]
    BY DEF StartServer, ServerEnds, SecondPasses, Disconnects, MediaIsRemoved, MInv, MediaTypeOK
  <2>5. clock' \in Seconds /\ run' \in 0 .. MaxRuns
    BY <2>2, MediaFilesAssumption DEF MInv, MediaTypeOK, Seconds
  <2>6. up' \in BOOLEAN
    BY <2>2 DEF MInv, MediaTypeOK
  <2>4. QED BY <1>2, <1>4, <2>1, <2>2, <2>3, <2>5, <2>6 DEF MInv, MediaTypeOK
<1>7. StreamsBegin'
  <2>1. run \in 0 .. MaxRuns /\ run \in Int
    BY DEF MInv, MediaTypeOK
  <2>2. \A c \in Streams : c[1] \in Int
    BY DEF Streams, Runs
  <2>3. ASSUME NEW c \in Streams
        PROVE  /\ phase[c] # "none" => c[1] <= run
               /\ phase[c] = "none" => received[c] = 0
               /\ phase[c] = "receiving" => up /\ c[1] = run
    BY DEF MInv, StreamsBegin
  <2>4. CASE StartServer
    <3>1. run' = run + 1 /\ run' \in Runs /\ phase' = phase /\ up' /\ ~up
      BY <2>1, <2>4, MediaFilesAssumption DEF StartServer, Runs
    <3>2. ASSUME NEW c \in Streams
          PROVE  phase[c] # "none" => c[1] <= run'
      BY <2>1, <2>2, <2>3, <3>1
    <3>3. QED BY <1>2, <2>3, <3>1, <3>2 DEF StreamsBegin
  <2>5. CASE ServerEnds
    <3>1. ~up' /\ run' = run
      BY <2>5 DEF ServerEnds
    <3>2. \A c \in Streams : phase'[c] # "receiving"
      BY <2>5 DEF ServerEnds
    <3>3. QED BY <1>2, <1>4, <2>3, <3>1, <3>2 DEF StreamsBegin
  <2>6. CASE UNCHANGED <<up, run>>
    <3>1. up' => run' \in Runs
      BY <2>6 DEF MInv, StreamsBegin
    <3>2. \A c \in Streams : phase'[c] = phase[c] \/ (phase'[c] = "ended" /\ phase[c] # "none")
      BY <1>4
    <3>3. QED BY <1>2, <2>3, <2>6, <3>1, <3>2 DEF StreamsBegin
  <2>7. QED BY <2>4, <2>5, <2>6 DEF SecondPasses, Disconnects, MediaIsRemoved
<1>8. QED BY <1>5, <1>6, <1>7 DEF MInv

LEMMA MInvStep == MInv /\ [MediaNext]_mediaVars => MInv'
<1> SUFFICES ASSUME MInv, [MediaNext]_mediaVars PROVE MInv'
  OBVIOUS
<1>1. ASSUME NEW c \in Streams, NEW e \in Exts, BeginOutFiles(c, e) PROVE MInv'
  BY <1>1, BeginStep
<1>2. ASSUME NEW c \in Streams, ReceiveCallback(c) PROVE MInv'
  BY <1>2, ReceiveStep
<1>3. CASE UNCHANGED mediaVars
  BY <1>3 DEF mediaVars, MInv, MediaTypeOK, StreamsBegin, FilesOwned, OwnFile, PathOf, MakeOutFilePath
<1>4. QED BY <1>1, <1>2, <1>3, OtherStep DEF MediaNext

LEMMA MInvAlways == MediaSpec => []MInv
<1>1. QED BY MInvInit, MInvStep, PTL DEF MediaSpec

\* Every variable stays in its range: a file only ever appears at a path that
\* ConnectionBase can build, and holds pieces that were received.
THEOREM MediaTypeCorrectness == MediaSpec => []MediaTypeOK
<1>1. MInv => MediaTypeOK
  BY DEF MInv
<1>2. QED BY <1>1, MInvAlways, PTL

\* No out file ever mixes two connections or repeats or reorders a piece, over
\* any number of runs and whatever the file system does wrong.
THEOREM OneStreamPerFile == MediaSpec => []FileOfOneStream
<1>1. ASSUME MInv PROVE FileOfOneStream
  <2> SUFFICES ASSUME NEW p \in DOMAIN files, NEW i \in DOMAIN files[p], NEW j \in DOMAIN files[p]
               PROVE  /\ files[p][i].of = files[p][j].of
                      /\ PathOf(files[p][i].of) = p
                      /\ i < j => files[p][i].n < files[p][j].n
    BY DEF FileOfOneStream
  <2>1. files[p] \in Seq(Pieces) /\ DOMAIN files[p] = 1 .. Len(files[p])
    BY <1>1 DEF MInv, MediaTypeOK
  <2>2. files[p] # <<>>
    BY <2>1
  <2>3. PICK c \in Streams : PathOf(c) = p /\ Content(files[p], c, received[c])
    BY <1>1, <2>2 DEF MInv, FilesOwned
  <2>4. QED BY <2>1, <2>3 DEF Content
<1>2. QED BY <1>1, MInvAlways, PTL

-------------------------------------------------------------------------------
\* All that stream c received, up to the last-th piece.
All(c, last) == [n \in 1 .. last |-> [of |-> c, n |-> n]]

\* No later run was started in the second of c's run.
AloneInSecond(c) == \A r \in Runs : c[1] < r /\ r <= run => saveDir[r] # saveDir[c[1]]

LEMMA AllGrows ==
  ASSUME NEW c \in Streams, NEW last \in Nat, last < MaxReceived
  PROVE  Append(All(c, last), [of |-> c, n |-> last + 1]) = All(c, last + 1)
<1> DEFINE k == [of |-> c, n |-> last + 1]
<1>1. All(c, last) \in Seq(Pieces) /\ Len(All(c, last)) = last
  <2>1. \A n \in 1 .. last : [of |-> c, n |-> n] \in Pieces
    BY MediaFilesAssumption DEF Pieces
  <2>2. QED BY <2>1 DEF All
<1>2. k \in Pieces
  BY MediaFilesAssumption DEF Pieces
<1>3. /\ Append(All(c, last), k) \in Seq(Pieces) /\ Len(Append(All(c, last), k)) = last + 1
      /\ \A i \in 1 .. last : Append(All(c, last), k)[i] = All(c, last)[i]
      /\ Append(All(c, last), k)[last + 1] = k
  BY <1>1, <1>2, AppendProperties
<1>4. All(c, last + 1) \in Seq(Pieces) /\ Len(All(c, last + 1)) = last + 1
  <2>1. \A n \in 1 .. last + 1 : [of |-> c, n |-> n] \in Pieces
    BY MediaFilesAssumption DEF Pieces
  <2>2. QED BY <2>1 DEF All
<1>5. \A i \in 1 .. last + 1 : Append(All(c, last), k)[i] = All(c, last + 1)[i]
  BY <1>3 DEF All
<1>6. QED BY <1>3, <1>4, <1>5, SeqEqual

LEMMA AllOfNone == \A c : All(c, 0) = <<>>
BY DEF All

\* A stream that is alone in its second keeps its path to itself: the streams
\* of its run have other ids, those of the run that is up another directory.
LEMMA OwnPath ==
  ASSUME MInv, NEW c \in Streams, NEW d \in Streams, NEW e \in Exts, c # d,
         phase[c] # "none", AloneInSecond(c), d[1] = run, up
  PROVE  PathOf(c) # MakeOutFilePath(d, e)
<1>1. c[1] \in Int /\ d[1] \in Runs /\ run \in Int /\ c[1] <= run
  BY DEF Streams, MInv, StreamsBegin, Runs, MediaTypeOK
<1>2. CASE c[1] = run
  BY <1>2 DEF PathOf, MakeOutFilePath, Streams
<1>3. CASE c[1] < run
  BY <1>1, <1>3 DEF AloneInSecond, PathOf, MakeOutFilePath
<1>4. QED BY <1>1, <1>2, <1>3

\* Being alone in the second is only ever lost.
LEMMA AloneBefore ==
  ASSUME MInv, [MediaNext]_mediaVars, NEW c \in Streams, phase[c] # "none", AloneInSecond(c)'
  PROVE  AloneInSecond(c)
<1>1. c[1] \in Runs /\ c[1] <= run /\ run \in 0 .. MaxRuns
  BY DEF Streams, MInv, StreamsBegin, MediaTypeOK, Runs
<1>2. CASE StartServer
  <2>1. run' = run + 1 /\ saveDir' = [saveDir EXCEPT ![run + 1] = clock]
    BY <1>2 DEF StartServer
  <2>2. \A r \in Runs : r <= run => saveDir'[r] = saveDir[r]
    BY <1>1, <2>1 DEF MInv, MediaTypeOK, Runs
  <2>3. \A r \in Runs : r <= run => r <= run'
    BY <1>1, <2>1 DEF Runs
  <2>4. QED BY <1>1, <2>2, <2>3 DEF AloneInSecond
<1>3. CASE UNCHANGED <<run, saveDir>>
  BY <1>3 DEF AloneInSecond
<1>4. QED BY <1>2, <1>3 DEF MediaNext, mediaVars, ServerEnds, SecondPasses, BeginOutFiles,
                            ReceiveCallback, Disconnects, MediaIsRemoved

LEMMA SavedStep ==
  ASSUME MInv, EverythingSaved, [MediaNext]_mediaVars
  PROVE  EverythingSaved'
<1> SUFFICES ASSUME faults' = {}, NEW c \in Streams, phase'[c] # "none", AloneInSecond(c)'
             PROVE  PathOf(c)' \in DOMAIN files' /\ files'[PathOf(c)'] = All(c, received'[c])
  BY DEF EverythingSaved, AloneInSecond, All
<1>1. faults = {}
  BY DEF MediaNext, mediaVars, StartServer, ServerEnds, SecondPasses, BeginOutFiles,
         ReceiveCallback, Disconnects, MediaIsRemoved
<1>2. ASSUME phase[c] # "none"
      PROVE  /\ AloneInSecond(c) /\ PathOf(c)' = PathOf(c)
             /\ PathOf(c) \in DOMAIN files /\ files[PathOf(c)] = All(c, received[c])
  <2>1. AloneInSecond(c) /\ PathOf(c)' = PathOf(c)
    BY <1>2, AloneBefore, StreamKept
  <2>2. QED BY <1>1, <1>2, <2>1 DEF EverythingSaved, AloneInSecond, All
<1>3. ASSUME NEW d \in Streams, NEW e \in Exts, BeginOutFiles(d, e)
      PROVE  PathOf(c)' \in DOMAIN files' /\ files'[PathOf(c)'] = All(c, received'[c])
  <2>1. up /\ d[1] = run /\ phase[d] = "none"
    BY <1>3 DEF BeginOutFiles
  <2>2. /\ files' = Put(MakeOutFilePath(d, e), <<>>)
        /\ phase' = [phase EXCEPT ![d] = "receiving"] /\ ext' = [ext EXCEPT ![d] = e]
        /\ received' = received /\ saveDir' = saveDir
    BY <1>1, <1>3 DEF BeginOutFiles, MakeSaveFile, MayFail
  <2>3. CASE c = d
    <3>1. PathOf(c)' = MakeOutFilePath(d, e)
      <4>1. ext'[c] = e
        BY <2>2, <2>3 DEF MInv, MediaTypeOK
      <4>2. QED BY <2>2, <2>3, <4>1 DEF PathOf, MakeOutFilePath
    <3>2. received'[c] = 0
      BY <2>1, <2>2, <2>3 DEF MInv, StreamsBegin
    <3>3. QED BY <2>2, <3>1, <3>2, AllOfNone DEF Put
  <2>4. CASE c # d
    <3>1. phase[c] # "none"
      BY <2>2, <2>4 DEF MInv, MediaTypeOK
    <3>2. PathOf(c) # MakeOutFilePath(d, e)
      BY <1>2, <2>1, <2>4, <3>1, OwnPath
    <3>3. QED BY <1>2, <2>2, <3>1, <3>2 DEF Put
  <2>5. QED BY <2>3, <2>4
<1>4. ASSUME NEW d \in Streams, ReceiveCallback(d)
      PROVE  PathOf(c)' \in DOMAIN files' /\ files'[PathOf(c)'] = All(c, received'[c])
  <2>1. /\ phase[c] # "none" /\ phase[d] = "receiving" /\ up /\ d[1] = run
        /\ received[d] \in Nat /\ received[d] < MaxReceived
        /\ received' = [received EXCEPT ![d] = received[d] + 1]
    BY <1>4 DEF ReceiveCallback, MInv, StreamsBegin, MediaTypeOK
  <2>2. CASE c = d
    <3>1. OpenOutFile(PathOf(d)) = {files[PathOf(d)]}
      BY <1>1, <1>2, <2>1, <2>2 DEF OpenOutFile
    <3>2. files' = Put(PathOf(d), Append(files[PathOf(d)], [of |-> d, n |-> received[d] + 1]))
      BY <1>1, <1>4, <3>1 DEF ReceiveCallback, MayFail, OpenOutFileThrows
    <3>3. received'[c] = received[c] + 1
      BY <2>1, <2>2 DEF MInv, MediaTypeOK
    <3>4. Append(files[PathOf(d)], [of |-> d, n |-> received[d] + 1]) = All(c, received'[c])
      BY <1>2, <2>1, <2>2, <3>3, AllGrows
    <3>5. QED BY <1>2, <2>1, <2>2, <3>2, <3>4 DEF Put
  <2>3. CASE c # d
    <3>1. PathOf(c) # PathOf(d)
      <4>1. ext[d] \in Exts
        BY DEF MInv, MediaTypeOK
      <4>2. QED BY <1>2, <2>1, <2>3, <4>1, OwnPath DEF PathOf
    <3>2. files' = files \/ \E s : files' = Put(PathOf(d), s)
      BY <1>4 DEF ReceiveCallback
    <3>3. received'[c] = received[c]
      BY <2>1, <2>3 DEF MInv, MediaTypeOK
    <3>4. QED BY <1>2, <2>1, <3>1, <3>2, <3>3 DEF Put
  <2>4. QED BY <2>2, <2>3
<1>5. CASE StartServer \/ ServerEnds \/ SecondPasses \/ (\E d \in Streams : Disconnects(d)) \/ UNCHANGED mediaVars
  <2>1. files' = files /\ received' = received
    BY <1>5 DEF StartServer, ServerEnds, SecondPasses, Disconnects, mediaVars
  <2>2. phase[c] # "none"
    BY <1>5 DEF StartServer, ServerEnds, SecondPasses, Disconnects, mediaVars, MInv, MediaTypeOK
  <2>3. QED BY <1>2, <2>1, <2>2
<1>6. ~ \E p \in Paths : MediaIsRemoved(p)
  BY <1>1 DEF MediaIsRemoved, MayFail
<1>7. QED BY <1>3, <1>4, <1>5, <1>6 DEF MediaNext

\* With a file system that works, what a connection received is in its out
\* file, complete and in order, for good, until a server started within the
\* second of its run takes the path again.
THEOREM NothingReceivedIsLost == MediaSpec => []EverythingSaved
<1>1. MediaInit => EverythingSaved
  BY DEF MediaInit, EverythingSaved
<1>2. MInv /\ EverythingSaved /\ [MediaNext]_mediaVars => EverythingSaved'
  BY SavedStep
<1>3. QED BY <1>1, <1>2, MInvAlways, PTL DEF MediaSpec

-------------------------------------------------------------------------------
(***************************************************************************)
(* The refinement of Recorder.                                             *)
(***************************************************************************)
LEMMA NumbersEmpty == \A c : Numbers(c, <<>>) = <<>>
BY DEF Numbers

\* In the content of another stream there is nothing of c's.
LEMMA NumbersOfOther ==
  ASSUME NEW c, NEW s, s = <<>> \/ \E d, last : d # c /\ Content(s, d, last)
  PROVE  Numbers(c, s) = <<>>
<1>1. CASE s = <<>>
  BY <1>1, NumbersEmpty
<1>2. ASSUME NEW d, NEW last, d # c, Content(s, d, last), s # <<>>
      PROVE  Numbers(c, s) = <<>>
  <2>1. s \in Seq(Pieces) /\ \A i \in 1 .. Len(s) : s[i].of = d
    BY <1>2 DEF Content
  <2>2. 1 \in DOMAIN s /\ s[1].of # c
    <3>1. Len(s) \in Nat \ {0} /\ DOMAIN s = 1 .. Len(s)
      BY <1>2, <2>1, EmptySeq, LenProperties
    <3>2. 1 \in 1 .. Len(s)
      BY <3>1
    <3>3. QED BY <1>2, <2>1, <3>1, <3>2
  <2>3. QED BY <2>2 DEF Numbers
<1>3. QED BY <1>1, <1>2

\* Its own content, and one more piece.
LEMMA NumbersGrow ==
  ASSUME NEW c \in Streams, NEW last, NEW s, Content(s, c, last), NEW n \in 1 .. MaxReceived
  PROVE  Numbers(c, Append(s, [of |-> c, n |-> n])) = Append(Numbers(c, s), n)
<1> DEFINE k == [of |-> c, n |-> n]
           a == Append(s, k)
           m == [i \in 1 .. Len(s) |-> s[i].n]
<1>1. k \in Pieces /\ k.of = c /\ k.n = n /\ n \in Nat
  BY MediaFilesAssumption DEF Pieces
<1>2. s \in Seq(Pieces) /\ Len(s) \in Nat /\ DOMAIN s = 1 .. Len(s) /\ \A i \in 1 .. Len(s) : s[i].of = c
  BY LenProperties DEF Content
<1> HIDE DEF k
<1>3. /\ a \in Seq(Pieces) /\ Len(a) = Len(s) + 1 /\ DOMAIN a = 1 .. Len(s) + 1
      /\ \A i \in 1 .. Len(s) : a[i] = s[i]
      /\ a[Len(s) + 1] = k
  BY <1>1, <1>2, AppendProperties, LenProperties
<1> HIDE DEF a
<1>4. \A i \in 1 .. Len(s) + 1 : i \in 1 .. Len(s) \/ i = Len(s) + 1
  BY <1>2
<1>5. \A i \in DOMAIN a : a[i].of = c
  BY <1>1, <1>2, <1>3, <1>4
<1>6. Numbers(c, a) = [i \in 1 .. Len(s) + 1 |-> a[i].n] /\ Numbers(c, s) = m
  BY <1>2, <1>3, <1>5 DEF Numbers
<1>7. \A i \in 1 .. Len(s) : s[i].n \in Nat
  BY <1>2, PieceNumbers
<1>8. m \in Seq(Nat) /\ Len(m) = Len(s) /\ \A i \in 1 .. Len(s) : m[i] = s[i].n
  BY <1>2, <1>7
<1> HIDE DEF m
<1>9. /\ Append(m, n) \in Seq(Nat) /\ Len(Append(m, n)) = Len(s) + 1
      /\ \A i \in 1 .. Len(s) : Append(m, n)[i] = s[i].n
      /\ Append(m, n)[Len(s) + 1] = n
  BY <1>1, <1>8, AppendProperties
<1> DEFINE b == [i \in 1 .. Len(s) + 1 |-> a[i].n]
<1>10. \A i \in 1 .. Len(s) + 1 : a[i].n \in Nat /\ a[i].n = Append(m, n)[i]
  BY <1>1, <1>3, <1>4, <1>7, <1>9
<1>11. b \in Seq(Nat) /\ Len(b) = Len(s) + 1 /\ \A i \in 1 .. Len(s) + 1 : b[i] = Append(m, n)[i]
  <2>1. PICK N \in Nat : N = Len(s) + 1
    BY <1>2
  <2>2. \A i \in 1 .. N : a[i].n \in Nat
    BY <1>10, <2>1
  <2>3. [i \in 1 .. N |-> a[i].n] \in Seq(Nat) /\ Len([i \in 1 .. N |-> a[i].n]) = N
    BY <2>2
  <2>4. b = [i \in 1 .. N |-> a[i].n]
    BY <2>1
  <2>5. QED BY <1>10, <2>1, <2>3, <2>4
<1> HIDE DEF b
<1>12. b = Append(m, n)
  BY <1>9, <1>11, SeqEqual
<1>13. QED BY <1>6, <1>12 DEF a, b, k

\* A stream that has not begun has recorded nothing.
LEMMA NothingRecorded ==
  ASSUME NEW c \in Streams
  PROVE  /\ MInv /\ phase[c] = "none" => Recording(c) = <<>>
         /\ MInv' /\ phase'[c] = "none" => Recording(c)' = <<>>
<1>1. ASSUME MInv, phase[c] = "none" PROVE Recording(c) = <<>>
  BY <1>1, NumbersOfOther DEF MInv, FilesOwned, Recording
<1>2. ASSUME MInv', phase'[c] = "none" PROVE Recording(c)' = <<>>
  BY <1>2, NumbersOfOther DEF MInv, FilesOwned, Recording
<1>3. QED BY <1>1, <1>2

\* A step that leaves what is at a stream's path leaves its recording.
LEMMA RecordingKept ==
  ASSUME MInv, MInv', [MediaNext]_mediaVars, NEW c \in Streams, phase[c] = "none" => phase'[c] = "none",
         PathOf(c) \in DOMAIN files <=> PathOf(c) \in DOMAIN files',
         PathOf(c) \in DOMAIN files => files'[PathOf(c)] = files[PathOf(c)]
  PROVE  Recording(c)' = Recording(c)
<1>1. CASE phase[c] = "none"
  BY <1>1, NothingRecorded
<1>2. CASE phase[c] # "none"
  <2>1. PathOf(c)' = PathOf(c)
    BY <1>2, StreamKept
  <2>2. QED BY <2>1 DEF Recording, Numbers
<1>3. QED BY <1>1, <1>2

LEMMA RecordingsKept ==
  ASSUME \A c \in Streams : Recording(c)' = Recording(c)
  PROVE  recordingBar' = recordingBar
BY DEF recordingBar

LEMMA OneRecordingChanges ==
  ASSUME NEW d \in Streams, NEW r, Recording(d)' = r,
         \A c \in Streams \ {d} : Recording(c)' = Recording(c)
  PROVE  recordingBar' = [recordingBar EXCEPT ![d] = r]
BY DEF recordingBar

\* A file is one stream's recording only.
LEMMA OneRecordingPerFile ==
  ASSUME MInv, NEW c \in Streams, NEW d \in Streams, c # d, PathOf(c) = PathOf(d), Recording(c) # <<>>
  PROVE  Recording(d) = <<>>
<1>1. PathOf(c) \in DOMAIN files /\ files[PathOf(c)] # <<>>
  BY NumbersEmpty DEF Recording
<1>2. PICK e \in Streams : Content(files[PathOf(c)], e, received[e])
  BY <1>1 DEF MInv, FilesOwned
<1>3. e = c
  BY <1>1, <1>2, NumbersOfOther DEF Recording
<1>4. QED BY <1>1, <1>2, <1>3, NumbersOfOther DEF Recording

-------------------------------------------------------------------------------
LEMMA RecorderInits == MediaInit => R!RecorderInit
<1> SUFFICES ASSUME MediaInit PROVE R!RecorderInit
  OBVIOUS
<1>1. \A c \in Streams : Recording(c) = <<>>
  BY DEF MediaInit, Recording
<1>2. recordingBar = [c \in Streams |-> <<>>]
  BY <1>1 DEF recordingBar
<1>3. QED BY <1>2 DEF MediaInit, R!RecorderInit

\* The steps that change no recording.
LEMMA QuietRefines ==
  ASSUME MInv, MInv', StartServer \/ ServerEnds \/ SecondPasses \/ \E c \in Streams : Disconnects(c)
  PROVE  R!End \/ UNCHANGED R!recorderVars
<1>1. [MediaNext]_mediaVars /\ UNCHANGED <<faults, received, files>>
  BY DEF MediaNext, StartServer, ServerEnds, SecondPasses, Disconnects
<1>2. \A c \in Streams : phase'[c] = phase[c] \/ (phase[c] = "receiving" /\ phase'[c] = "ended")
  BY DEF MInv, MediaTypeOK, StartServer, ServerEnds, SecondPasses, Disconnects
<1>3. recordingBar' = recordingBar
  BY <1>1, <1>2, RecordingKept, RecordingsKept
<1>4. phase' \in [Streams -> R!Stages]
  BY DEF MInv, MediaTypeOK, R!Stages
<1>5. QED BY <1>1, <1>2, <1>3, <1>4 DEF R!End

\* A file that is emptied or removed was at most one stream's recording.
LEMMA FileLost ==
  ASSUME MInv, MInv', [MediaNext]_mediaVars, NEW path, NEW b,
         \A c \in Streams : phase[c] = "none" => phase'[c] = "none" \/ c = b,
         \A p : p # path => /\ p \in DOMAIN files <=> p \in DOMAIN files'
                            /\ p \in DOMAIN files => files'[p] = files[p],
         path \in DOMAIN files' => files'[path] = <<>>,
         b \in Streams => phase[b] = "none" /\ PathOf(b)' = path
  PROVE  \/ recordingBar' = recordingBar
         \/ \E d \in Streams : /\ phase[d] # "none" /\ PathOf(d) = path
                               /\ recordingBar' = [recordingBar EXCEPT ![d] = <<>>]
<1>1. ASSUME NEW c \in Streams, PathOf(c) # path \/ phase[c] = "none" \/ Recording(c) = <<>>
      PROVE  Recording(c)' = Recording(c)
  <2>1. CASE c = b
    <3>1. Recording(c)' = <<>>
      BY <2>1, NumbersEmpty DEF Recording
    <3>2. Recording(c) = <<>>
      BY <2>1, NothingRecorded
    <3>3. QED BY <3>1, <3>2
  <2>2. CASE c # b /\ phase[c] = "none"
    BY <2>2, NothingRecorded
  <2>3. CASE phase[c] # "none" /\ PathOf(c) # path
    BY <2>3, RecordingKept
  <2>4. CASE phase[c] # "none" /\ PathOf(c) = path /\ Recording(c) = <<>>
    <3>1. PathOf(c)' = path
      BY <2>4, StreamKept
    <3>2. QED BY <2>4, <3>1, NumbersEmpty DEF Recording
  <2>5. QED BY <1>1, <2>1, <2>2, <2>3, <2>4
<1>2. CASE \A c \in Streams : PathOf(c) # path \/ phase[c] = "none" \/ Recording(c) = <<>>
  BY <1>1, <1>2, RecordingsKept
<1>3. ASSUME NEW d \in Streams, PathOf(d) = path, phase[d] # "none", Recording(d) # <<>>
      PROVE  recordingBar' = [recordingBar EXCEPT ![d] = <<>>]
  <2>1. PathOf(d)' = path
    BY <1>3, StreamKept
  <2>2. Recording(d)' = <<>>
    BY <2>1, NumbersEmpty DEF Recording
  <2>3. \A c \in Streams \ {d} : Recording(c)' = Recording(c)
    BY <1>1, <1>3, OneRecordingPerFile
  <2>4. QED BY <2>2, <2>3, OneRecordingChanges
<1>4. QED BY <1>2, <1>3

LEMMA BeginRefines ==
  ASSUME MInv, MInv', NEW c \in Streams, NEW e \in Exts, BeginOutFiles(c, e)
  PROVE  R!RecorderNext
<1>1. c[1] = run /\ phase[c] = "none"
  BY DEF BeginOutFiles
<1>2. PICK path : path = MakeOutFilePath(c, e)
  OBVIOUS
<1>3. /\ ext' = [ext EXCEPT ![c] = e]
      /\ \/ phase' = [phase EXCEPT ![c] = "receiving"] /\ files' = Put(path, <<>>)
         \/ "make" \in faults /\ phase' = [phase EXCEPT ![c] = "ended"] /\ UNCHANGED files
      /\ UNCHANGED <<faults, saveDir, received>>
  BY <1>2 DEF BeginOutFiles, MakeSaveFile, MayFail
<1>4. [MediaNext]_mediaVars
  BY DEF MediaNext
<1>5. phase \in [Streams -> {"none", "receiving", "ended"}] /\ ext \in [Streams -> Exts]
  BY DEF MInv, MediaTypeOK
<1>6. PathOf(c)' = path
  BY <1>2, <1>3, <1>5 DEF PathOf, MakeOutFilePath
<1>7. CASE phase' = [phase EXCEPT ![c] = "receiving"] /\ files' = Put(path, <<>>)
  <2>1. /\ DOMAIN files' = DOMAIN files \cup {path} /\ files'[path] = <<>>
        /\ \A p \in DOMAIN files : p # path => files'[p] = files[p]
    BY <1>7 DEF Put
  <2>2. /\ \A p : p # path => /\ p \in DOMAIN files <=> p \in DOMAIN files'
                              /\ p \in DOMAIN files => files'[p] = files[p]
        /\ path \in DOMAIN files' => files'[path] = <<>>
    BY <2>1
  <2>3. \A d \in Streams : phase[d] = "none" => phase'[d] = "none" \/ d = c
    BY <1>5, <1>7
  <2>4. \/ recordingBar' = recordingBar
        \/ \E d \in Streams : /\ phase[d] # "none" /\ PathOf(d) = path
                              /\ recordingBar' = [recordingBar EXCEPT ![d] = <<>>]
    BY <1>4, <1>1, <1>6, <2>2, <2>3, FileLost
  <2>5. ASSUME NEW d \in Streams, phase[d] # "none", PathOf(d) = path
        PROVE  phase[d] = "ended"
    <3>1. d # c
      BY <1>1, <2>5
    <3>2. d[2] = c[2]
      BY <1>2, <2>5 DEF PathOf, MakeOutFilePath
    <3>3. d[1] # run
      BY <1>1, <3>1, <3>2 DEF Streams
    <3>4. phase[d] # "receiving"
      BY <3>3 DEF MInv, StreamsBegin
    <3>5. QED BY <1>5, <2>5, <3>4
  <2>6. R!Begin(c)
    BY <1>3, <1>1, <1>7, <2>4, <2>5 DEF R!Begin
  <2>7. QED BY <2>6 DEF R!RecorderNext
<1>8. CASE "make" \in faults /\ phase' = [phase EXCEPT ![c] = "ended"] /\ UNCHANGED files
  <2>1. \A d \in Streams : d # c /\ phase[d] = "none" => phase'[d] = "none"
    BY <1>5, <1>8
  <2>2. \A d \in Streams : d # c => Recording(d)' = Recording(d)
    BY <1>4, <1>8, <2>1, RecordingKept
  <2>3. Recording(c)' = Recording(c)
    <3>1. Recording(c) = <<>>
      BY <1>1, NothingRecorded
    <3>2. Recording(c)' = <<>>
      <4>1. path \in DOMAIN files => Numbers(c, files[path]) = <<>>
        <5>1. SUFFICES ASSUME path \in DOMAIN files PROVE Numbers(c, files[path]) = <<>>
          OBVIOUS
        <5>2. files[path] = <<>> \/ \E d \in Streams : phase[d] # "none" /\ Content(files[path], d, received[d])
          BY <5>1 DEF MInv, FilesOwned
        <5>3. QED BY <1>1, <5>2, NumbersOfOther
      <4>2. QED BY <1>6, <1>8, <4>1 DEF Recording
    <3>3. QED BY <3>1, <3>2
  <2>4. recordingBar' = recordingBar
    BY <2>2, <2>3, RecordingsKept
  <2>5. R!Begin(c)
    BY <1>3, <1>1, <1>8, <2>4 DEF R!Begin
  <2>6. QED BY <2>5 DEF R!RecorderNext
<1>9. QED BY <1>3, <1>7, <1>8

LEMMA ReceiveRefines ==
  ASSUME MInv, MInv', NEW c \in Streams, ReceiveCallback(c)
  PROVE  R!RecorderNext
<1> DEFINE p == PathOf(c)
           n == received[c] + 1
<1>1. [MediaNext]_mediaVars /\ UNCHANGED <<faults, phase>> /\ PathOf(c)' = p
      /\ phase[c] = "receiving" /\ received' = [received EXCEPT ![c] = @ + 1]
  BY DEF MediaNext, ReceiveCallback, PathOf, MakeOutFilePath
<1>2. n \in 1 .. MaxReceived /\ received'[c] = n
  BY <1>1, MediaFilesAssumption DEF ReceiveCallback, MInv, MediaTypeOK
<1>3. ASSUME NEW content \in OpenOutFile(p)
      PROVE  /\ Content(content, c, received[c])
             /\ Numbers(c, content) \in {Recording(c)} \cup (IF faults = {} THEN {} ELSE {<<>>})
  <2>1. p \in DOMAIN files => Content(files[p], c, received[c])
    BY <1>1 DEF MInv, OwnFile
  <2>2. CASE content = <<>> /\ ("open" \in faults \/ p \notin DOMAIN files)
    BY <2>2, EmptyContent, NumbersEmpty DEF Recording
  <2>3. CASE p \in DOMAIN files /\ content = files[p]
    BY <2>1, <2>3 DEF Recording
  <2>4. QED BY <1>3, <2>2, <2>3 DEF OpenOutFile, MakeSaveFile
<1>4. ASSUME NEW s, files' = Put(p, s) PROVE Recording(c)' = Numbers(c, s)
  BY <1>1, <1>4 DEF Recording, Put
<1>5. ASSUME NEW d \in Streams, d # c PROVE Recording(d)' = Recording(d)
  <2>1. CASE phase[d] = "none"
    BY <1>1, <2>1, NothingRecorded
  <2>2. CASE phase[d] # "none" /\ PathOf(d) # p
    <3>1. /\ PathOf(d) \in DOMAIN files <=> PathOf(d) \in DOMAIN files'
          /\ PathOf(d) \in DOMAIN files => files'[PathOf(d)] = files[PathOf(d)]
      <4>1. UNCHANGED files \/ \E s : files' = Put(p, s)
        BY Received
      <4>2. ASSUME NEW s, files' = Put(p, s)
            PROVE  DOMAIN files' = DOMAIN files \cup {p} /\ \A q \in DOMAIN files : q # p => files'[q] = files[q]
        BY <4>2 DEF Put
      <4>3. QED BY <2>2, <4>1, <4>2
    <3>2. QED BY <1>1, <2>2, <3>1, RecordingKept
  <2>3. CASE phase[d] # "none" /\ PathOf(d) = p
    <3>1. PathOf(d)' = p
      BY <1>1, <2>3, StreamKept
    <3>2. Recording(d) = <<>>
      BY <1>1, <1>5, <2>3, NumbersOfOther DEF Recording, MInv, OwnFile
    <3>3. Recording(d)' = <<>>
      BY <1>1, <1>5, <3>1, NumbersOfOther DEF Recording, MInv, OwnFile
    <3>4. QED BY <3>2, <3>3
  <2>4. QED BY <2>1, <2>2, <2>3
<1>6. Recording(c)' \in (IF faults = {} THEN R!Kept(Recording(c), n) ELSE R!KeptOrLost(Recording(c), n))
  <2>1. ASSUME NEW content \in OpenOutFile(p), files' = Put(p, Append(content, [of |-> c, n |-> n]))
        PROVE  Recording(c)' \in (IF faults = {} THEN R!Kept(Recording(c), n)
                                                 ELSE R!KeptOrLost(Recording(c), n))
    <3>1. Recording(c)' = Append(Numbers(c, content), n)
      BY <1>2, <1>3, <1>4, <2>1, NumbersGrow
    <3>2. CASE Numbers(c, content) = Recording(c)
      BY <3>1, <3>2 DEF R!Kept, R!KeptOrLost
    <3>3. CASE faults # {} /\ Numbers(c, content) = <<>>
      <4>1. Append(<<>>, n) = <<n>>
        OBVIOUS
      <4>2. QED BY <3>1, <3>3, <4>1 DEF R!KeptOrLost
    <3>4. QED BY <1>3, <3>2, <3>3
  <2>2. ASSUME NEW content \in OpenOutFile(p), files' = Put(p, content), faults # {}
        PROVE  Recording(c)' \in R!KeptOrLost(Recording(c), n)
    BY <1>3, <1>4, <2>2 DEF R!KeptOrLost
  <2>3. CASE UNCHANGED files /\ faults # {}
    <3>1. Recording(c)' = Recording(c)
      BY <1>1, <2>3, RecordingKept
    <3>2. QED BY <2>3, <3>1 DEF R!KeptOrLost
  <2>4. QED BY <2>1, <2>2, <2>3 DEF ReceiveCallback, MayFail, OpenOutFileThrows
<1>7. PICK r : /\ r \in (IF faults = {} THEN R!Kept(Recording(c), n) ELSE R!KeptOrLost(Recording(c), n))
               /\ recordingBar' = [recordingBar EXCEPT ![c] = r]
  BY <1>5, <1>6, OneRecordingChanges
<1>8. R!Hear(c)
  <2>1. recordingBar[c] = Recording(c)
    BY DEF recordingBar
  <2>2. QED BY <1>1, <1>7, <2>1 DEF R!Hear
<1>9. QED BY <1>8 DEF R!RecorderNext

LEMMA RemoveRefines ==
  ASSUME MInv, MInv', NEW path \in Paths, MediaIsRemoved(path)
  PROVE  R!RecorderNext \/ UNCHANGED R!recorderVars
<1>1. [MediaNext]_mediaVars /\ UNCHANGED <<faults, phase, received>> /\ faults # {}
  BY DEF MediaNext, MediaIsRemoved, MayFail
<1>2. /\ path \notin DOMAIN files'
      /\ \A p : p # path => /\ p \in DOMAIN files <=> p \in DOMAIN files'
                            /\ p \in DOMAIN files => files'[p] = files[p]
  BY DEF MediaIsRemoved
<1>3. PICK b : b \notin Streams
  <2>1. 0 \notin Runs
    BY DEF Runs
  <2>2. <<0, 0>> \notin Streams
    BY <2>1 DEF Streams
  <2>3. QED BY <2>2
<1>4. \/ recordingBar' = recordingBar
      \/ \E d \in Streams : recordingBar' = [recordingBar EXCEPT ![d] = <<>>]
  BY <1>1, <1>2, <1>3, FileLost
<1>5. CASE recordingBar' = recordingBar
  BY <1>1, <1>5 DEF R!recorderVars
<1>6. ASSUME NEW d \in Streams, recordingBar' = [recordingBar EXCEPT ![d] = <<>>]
      PROVE  R!RecorderNext
  BY <1>1, <1>6 DEF R!Lose, R!RecorderNext
<1>7. QED BY <1>4, <1>5, <1>6

LEMMA RecorderSteps ==
  MInv /\ MInv' /\ [MediaNext]_mediaVars => [R!RecorderNext]_R!recorderVars
<1> SUFFICES ASSUME MInv, MInv', [MediaNext]_mediaVars PROVE [R!RecorderNext]_R!recorderVars
  OBVIOUS
<1>1. CASE StartServer \/ ServerEnds \/ SecondPasses \/ \E c \in Streams : Disconnects(c)
  BY <1>1, QuietRefines DEF R!RecorderNext
<1>2. ASSUME NEW c \in Streams, NEW e \in Exts, BeginOutFiles(c, e) PROVE R!RecorderNext
  BY <1>2, BeginRefines
<1>3. ASSUME NEW c \in Streams, ReceiveCallback(c) PROVE R!RecorderNext
  BY <1>3, ReceiveRefines
<1>4. ASSUME NEW path \in Paths, MediaIsRemoved(path)
      PROVE  R!RecorderNext \/ UNCHANGED R!recorderVars
  BY <1>4, RemoveRefines
<1>5. CASE UNCHANGED mediaVars
  BY <1>5 DEF mediaVars, R!recorderVars, recordingBar, Recording, PathOf, MakeOutFilePath
<1>6. QED BY <1>1, <1>2, <1>3, <1>4, <1>5 DEF MediaNext

\* Out files are a recorder, for any number of runs, seconds, connections and
\* pieces, and any faults of the file system.
THEOREM RecorderImplemented == MediaSpec => ImplementsRecorder
<1>1. MInv /\ [MediaNext]_mediaVars => MInv'
  BY MInvStep
<1>2. QED BY RecorderInits, RecorderSteps, MInvAlways, PTL DEF MediaSpec, ImplementsRecorder, R!RecorderSpec
===============================================================================
