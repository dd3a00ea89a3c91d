-------------------------- MODULE ImageWriteProofs --------------------------
(***************************************************************************)
(* An output is whole and a run starts its own image, for every number of  *)
(* threads and processes, any number of kills and restarts under the same  *)
(* pid and any number of runs.  The argument is ownership: the threads of  *)
(* a process have directories that differ, no inode has two names, and so  *)
(* a thread's write, chmod and rename reach no file of another one; that   *)
(* an output is only ever named by a rename of a filled, executable inode  *)
(* does the rest.                                                          *)
(***************************************************************************)
EXTENDS ImageWrite, SequenceTheorems, TLAPS

Pcs == {"new", "write", "fill", "chmod", "rename", "spawn", "gone"}
Numbered == Pids \X Nat                      \* {pid}-{n}
Names == {IMAGE_NAME} \cup Numbered
Images == Threads \X Nat \X Nat
Inode == [bytes : {None} \cup Images, exec : BOOLEAN, executed : BOOLEAN]

TypeOK ==
    /\ runnerId \in [Pids -> Nat] /\ counter \in [Pids -> Nat] /\ life \in [Pids -> Nat]
    /\ at \in [Threads -> Pcs] /\ runs \in [Threads -> Nat] /\ fd \in [Threads -> Nat]
    /\ dir \in [Threads -> {None} \cup Numbered] /\ tmp \in [Threads -> {None} \cup Numbered]
    /\ DOMAIN entries \subseteq Numbered \X Names
    /\ entries \in [DOMAIN entries -> 1..Len(inodes)]
    /\ inodes \in Seq(Inode)

\* No inode has two names: a rename moves the one it has.
OneName == \A d, e \in DOMAIN entries : entries[d] = entries[e] => d = e

\* The directories of the Runners of one life of a process differ.
OwnDirs ==
    /\ \A t \in Threads : at[t] # "new" =>
           \E n \in Nat : dir[t] = <<Pid[t], n>> /\ n < runnerId[Pid[t]]
    /\ \A t, u \in Threads : at[t] # "new" /\ at[u] # "new" /\ dir[t] = dir[u] => t = u

TmpFile(t) == <<dir[t], tmp[t]>>
OutFile(t) == <<dir[t], IMAGE_NAME>>

\* What a thread has written so far is where it left it.
Progress(t) ==
    /\ at[t] \in {"fill", "chmod", "rename"} =>
           tmp[t] \in Numbered /\ TmpFile(t) \in DOMAIN entries
    /\ at[t] = "fill" => fd[t] = entries[TmpFile(t)]
    /\ at[t] \in {"chmod", "rename"} => inodes[entries[TmpFile(t)]].bytes = Image(t)
    /\ at[t] = "rename" => inodes[entries[TmpFile(t)]].exec
    /\ at[t] = "spawn" => /\ OutFile(t) \in DOMAIN entries
                          /\ inodes[entries[OutFile(t)]].bytes = Image(t)
                          /\ inodes[entries[OutFile(t)]].exec

\* Only an output has been executed.
OnlyOutputsExecuted ==
    \A e \in DOMAIN entries : inodes[entries[e]].executed => e[2] = IMAGE_NAME

ImageInv ==
    /\ TypeOK /\ OneName /\ OwnDirs
    /\ \A t \in Threads : Progress(t)
    /\ OnlyOutputsExecuted /\ OutputWhole /\ SpawnsItsImage

-----------------------------------------------------------------------------
\* The output's name is none of the numbered temporary names.
LEMMA NamesDiffer == IMAGE_NAME \notin Numbered /\ None \notin Numbered
  BY DEF IMAGE_NAME, None, Numbered

\* What an inode is after one of its fields was written.
LEMMA InodeWritten ==
    ASSUME NEW s \in Seq(Inode), NEW i \in 1..Len(s), NEW v \in Inode
    PROVE  LET w == [s EXCEPT ![i] = v] IN
           /\ w \in Seq(Inode) /\ Len(w) = Len(s)
           /\ \A j \in 1..Len(s) : w[j] = IF j = i THEN v ELSE s[j]
  BY ExceptSeq

\* A thread whose files and registers a step leaves alone is where it was.
LEMMA UntouchedKeeps ==
    ASSUME NEW u \in Threads, Progress(u),
           at'[u] = at[u], dir'[u] = dir[u], tmp'[u] = tmp[u], fd'[u] = fd[u],
           runs'[u] = runs[u], life'[Pid[u]] = life[Pid[u]],
           \A e \in DOMAIN entries : e[1] = dir[u] =>
               /\ e \in DOMAIN entries' /\ entries'[e] = entries[e]
               /\ inodes'[entries[e]].bytes = inodes[entries[e]].bytes
               /\ inodes'[entries[e]].exec = inodes[entries[e]].exec
    PROVE  Progress(u)'
<1>1. TmpFile(u)' = TmpFile(u) /\ OutFile(u)' = OutFile(u) /\ Image(u)' = Image(u)
  BY DEF TmpFile, OutFile, Image
<1>2. TmpFile(u)[1] = dir[u] /\ OutFile(u)[1] = dir[u]
  BY DEF TmpFile, OutFile
<1> QED
  BY <1>1, <1>2 DEF Progress

\* Threads of other directories, in a step of t that touches only its own.
LEMMA OthersKeep ==
    ASSUME ImageInv, NEW t \in Threads, at[t] # "new", 
           \A u \in Threads \ {t} :
               /\ at'[u] = at[u] /\ dir'[u] = dir[u] /\ tmp'[u] = tmp[u]
               /\ fd'[u] = fd[u] /\ runs'[u] = runs[u],
           life' = life,
           \A e \in DOMAIN entries : e[1] # dir[t] =>
               /\ e \in DOMAIN entries' /\ entries'[e] = entries[e]
               /\ inodes'[entries[e]].bytes = inodes[entries[e]].bytes
               /\ inodes'[entries[e]].exec = inodes[entries[e]].exec
    PROVE  \A u \in Threads \ {t} : Progress(u)'
<1> SUFFICES ASSUME NEW u \in Threads \ {t} PROVE Progress(u)'
  OBVIOUS
<1>1. CASE at[u] = "new"
  BY <1>1 DEF Progress
<1>2. CASE at[u] # "new"
  <2>1. dir[u] # dir[t]
    BY <1>2 DEF ImageInv, OwnDirs
  <2>2. Progress(u)
    BY DEF ImageInv
  <2> QED
    BY <2>1, <2>2, UntouchedKeeps
<1> QED
  BY <1>1, <1>2

\* The start of every process (before the first Runner::new).
LEMMA InitImage == ImageInit => ImageInv
<1> SUFFICES ASSUME ImageInit PROVE ImageInv
  OBVIOUS
<1>1. TypeOK
  BY EmptySeq DEF ImageInit, TypeOK, Pids, Pcs, None
<1>2. DOMAIN entries = {} /\ spawned = {} /\ \A t \in Threads : at[t] = "new"
  BY DEF ImageInit
<1> QED
  BY <1>1, <1>2 DEF ImageInv, OneName, OwnDirs, Progress, OnlyOutputsExecuted,
                    OutputWhole, SpawnsItsImage

\* A step that leaves the file system alone keeps what is said of it.
LEMMA SameFiles ==
    ASSUME ImageInv, entries' = entries, inodes' = inodes, spawned' = spawned
    PROVE  OneName' /\ OnlyOutputsExecuted' /\ OutputWhole' /\ SpawnsItsImage'
  BY DEF ImageInv, OneName, OnlyOutputsExecuted, OutputWhole, SpawnsItsImage

\* A step that leaves the directories and the lives alone keeps them apart.
LEMMA SameDirs ==
    ASSUME ImageInv, dir' = dir, runnerId' = runnerId,
           \A t \in Threads : at[t] = "new" => at'[t] = "new"
    PROVE  OwnDirs'
  BY DEF ImageInv, OwnDirs

\* Runner::new: the number is new in this life, so the directory is.
LEMMA NewRunnerKeeps ==
    ASSUME ImageInv, NEW t \in Threads, NewRunner(t)
    PROVE  ImageInv'
<1> USE DEF NewRunner
<1> DEFINE p == Pid[t]
<1>1. p \in Pids /\ runnerId[p] \in Nat /\ dir[t]' = <<p, runnerId[p]>> /\ at'[t] \in {"write", "gone"}
  BY DEF Pids, ImageInv, TypeOK, RunnerDir
<1>2. TypeOK'
  <2>1. at' \in [Threads -> Pcs] /\ runnerId' \in [Pids -> Nat]
    BY <1>1 DEF ImageInv, TypeOK, Pcs
  <2>2. dir' \in [Threads -> {None} \cup Numbered]
    BY <1>1 DEF ImageInv, TypeOK, Numbered, RunnerDir
  <2> QED
    BY <2>1, <2>2 DEF ImageInv, TypeOK
<1>3. OwnDirs'
  <2>1. \A u \in Threads \ {t} : at'[u] = at[u] /\ dir'[u] = dir[u] /\ Pid[u] \in Pids
    BY DEF ImageInv, TypeOK, Pids
  <2>2. \A q \in Pids : runnerId[q] \in Nat /\ runnerId'[q] = IF q = p THEN runnerId[q] + 1 ELSE runnerId[q]
    BY DEF ImageInv, TypeOK
  <2>3. \A u \in Threads : at'[u] # "new" =>
            \E n \in Nat : dir'[u] = <<Pid[u], n>> /\ n < runnerId'[Pid[u]]
    BY <1>1, <2>1, <2>2 DEF ImageInv, OwnDirs
  <2>4. \A u \in Threads \ {t} : at'[u] # "new" => dir'[u] # dir'[t]
    <3> SUFFICES ASSUME NEW u \in Threads \ {t}, at'[u] # "new" PROVE dir'[u] # dir'[t]
      OBVIOUS
    <3>1. PICK n \in Nat : dir[u] = <<Pid[u], n>> /\ n < runnerId[Pid[u]]
      BY <2>1 DEF ImageInv, OwnDirs
    <3> QED
      BY <1>1, <2>1, <2>2, <3>1
  <2>5. \A u, v \in Threads \ {t} : at'[u] # "new" /\ at'[v] # "new" /\ dir'[u] = dir'[v] => u = v
    BY <2>1 DEF ImageInv, OwnDirs
  <2> HIDE DEF NewRunner
  <2> QED
    BY <2>3, <2>4, <2>5, <1>1 DEF OwnDirs
<1>4. \A u \in Threads : Progress(u)'
  <2>1. Progress(t)'
    BY <1>1 DEF Progress
  <2>2. ASSUME NEW u \in Threads \ {t} PROVE Progress(u)'
    <3>1. at'[u] = at[u] /\ dir'[u] = dir[u] /\ Progress(u)
      BY DEF ImageInv, TypeOK
    <3> QED
      BY <3>1, UntouchedKeeps
  <2> QED
    BY <2>1, <2>2
<1> QED
  BY <1>2, <1>3, <1>4, SameFiles DEF ImageInv

\* The open of fs::write.  It empties a leftover of that name, or makes an
\* inode; neither is an output, and nobody else has the name.
LEMMA OpenTmpKeeps ==
    ASSUME ImageInv, NEW t \in Threads, OpenTmp(t)
    PROVE  ImageInv'
<1> DEFINE p == Pid[t]
           file == <<dir[t], TmpName(t)>>
           i == IF file \in DOMAIN entries THEN entries[file] ELSE Len(inodes) + 1
<1>1. /\ p \in Pids /\ counter[p] \in Nat /\ TmpName(t) \in Numbered
      /\ at[t] = "write" /\ at' = [at EXCEPT ![t] = "fill"]
      /\ tmp' = [tmp EXCEPT ![t] = TmpName(t)] /\ counter' = [counter EXCEPT ![p] = @ + 1]
      /\ UNCHANGED <<runnerId, dir, runs, spawned, life>>
  BY DEF OpenTmp, ImageInv, TypeOK, Pids, Numbered, TmpName
<1>2. dir[t] \in Numbered /\ file \in Numbered \X Names /\ file[2] # IMAGE_NAME
  <2>1. PICK n \in Nat : dir[t] = <<Pid[t], n>>
    BY <1>1 DEF ImageInv, OwnDirs
  <2> QED
    BY <1>1, <2>1, NamesDiffer DEF Numbered, Names
<1>3. /\ inodes \in Seq(Inode) /\ Len(inodes) \in Nat
      /\ \A e \in DOMAIN entries : entries[e] \in 1..Len(inodes)
      /\ \A j \in 1..Len(inodes) : inodes[j] \in Inode
      /\ entries \in [DOMAIN entries -> 1..Len(inodes)]
  BY LenProperties, ElementOfSeq DEF ImageInv, TypeOK
<1>4. /\ inodes' \in Seq(Inode) /\ Len(inodes') \in Nat
      /\ i \in 1..Len(inodes') /\ fd' = [fd EXCEPT ![t] = i]
      /\ Len(inodes) <= Len(inodes')
      /\ \A j \in 1..Len(inodes) : j # i => inodes'[j] = inodes[j]
      /\ DOMAIN entries' = DOMAIN entries \cup {file}
      /\ \A e \in DOMAIN entries : entries'[e] = entries[e]
      /\ entries'[file] = i
      /\ entries' \in [DOMAIN entries' -> 1..Len(inodes')]
      /\ inodes'[i].executed => file \in DOMAIN entries /\ inodes[i].executed
  <2>1. CASE file \in DOMAIN entries
    <3> DEFINE v == [inodes[i] EXCEPT !.bytes = None]
    <3>1. /\ i \in 1..Len(inodes) /\ v \in Inode /\ v.executed = inodes[i].executed
      BY <2>1, <1>3 DEF Inode
    <3>2. inodes' = [inodes EXCEPT ![i] = v] /\ fd' = [fd EXCEPT ![t] = i] /\ entries' = entries
      BY <2>1 DEF OpenTmp
    <3> HIDE DEF v, i
    <3>3. /\ inodes' \in Seq(Inode) /\ Len(inodes') = Len(inodes)
          /\ \A j \in 1..Len(inodes) : inodes'[j] = IF j = i THEN v ELSE inodes[j]
      BY <3>1, <3>2, <1>3, InodeWritten
    <3>4. i = entries[file] /\ DOMAIN entries = DOMAIN entries \cup {file}
      BY <2>1 DEF i
    <3> HIDE DEF file
    <3> QED
      BY <2>1, <3>1, <3>2, <3>3, <3>4, <1>3
  <2>2. CASE file \notin DOMAIN entries
    <3> DEFINE v == [bytes |-> None, exec |-> FALSE, executed |-> FALSE]
    <3>1. i = Len(inodes) + 1 /\ v \in Inode /\ ~v.executed
      BY <2>2 DEF Inode
    <3>2. inodes' = Append(inodes, v) /\ fd' = [fd EXCEPT ![t] = i] /\ entries' = Put(entries, file, i)
      BY <2>2, <3>1 DEF OpenTmp
    <3> HIDE DEF v, i
    <3>3. /\ inodes' \in Seq(Inode) /\ Len(inodes') = Len(inodes) + 1
          /\ \A j \in 1..Len(inodes) : inodes'[j] = inodes[j]
          /\ inodes'[Len(inodes) + 1] = v
      BY <3>1, <3>2, <1>3, AppendProperties
    <3>4. /\ DOMAIN entries' = DOMAIN entries \cup {file}
          /\ entries' = [x \in DOMAIN entries \cup {file} |-> IF x = file THEN i ELSE entries[x]]
      BY <3>2 DEF Put
    <3> HIDE DEF file
    <3> QED
      BY <2>2, <3>1, <3>2, <3>3, <3>4, <1>3
  <2> QED
    BY <2>1, <2>2
<1>5. \A e \in DOMAIN entries : e # file => entries[e] # i /\ inodes'[entries[e]] = inodes[entries[e]]
  BY <1>3, <1>4 DEF ImageInv, OneName
<1> HIDE DEF i
<1>6. TypeOK'
  <2>1. at' \in [Threads -> Pcs] /\ counter' \in [Pids -> Nat]
    BY <1>1 DEF ImageInv, TypeOK, Pcs
  <2>2. tmp' \in [Threads -> {None} \cup Numbered] /\ fd' \in [Threads -> Nat]
    BY <1>1, <1>4 DEF ImageInv, TypeOK
  <2>3. DOMAIN entries' \subseteq Numbered \X Names
    BY <1>2, <1>4 DEF ImageInv, TypeOK
  <2> QED
    BY <1>1, <1>4, <2>1, <2>2, <2>3 DEF ImageInv, TypeOK
<1>7. OneName'
  BY <1>4, <1>5 DEF ImageInv, OneName
<1>8. OwnDirs'
  BY <1>1, SameDirs DEF ImageInv, TypeOK
<1>9. \A u \in Threads : Progress(u)'
  <2>1. Progress(t)'
    <3>1. /\ at'[t] = "fill" /\ tmp'[t] = TmpName(t) /\ fd'[t] = i /\ TmpFile(t)' = file
      BY <1>1, <1>4 DEF ImageInv, TypeOK, TmpFile
    <3> QED
      BY <3>1, <1>1, <1>4 DEF Progress
  <2>2. \A u \in Threads \ {t} : Progress(u)'
    <3>1. file[1] = dir[t]
      OBVIOUS
    <3>2. \A e \in DOMAIN entries : e[1] # dir[t] =>
               /\ e \in DOMAIN entries' /\ entries'[e] = entries[e]
               /\ inodes'[entries[e]] = inodes[entries[e]]
      <4> HIDE DEF file
      <4> QED BY <3>1, <1>4, <1>5
    <3>3. \A u \in Threads \ {t} :
               /\ at'[u] = at[u] /\ dir'[u] = dir[u] /\ tmp'[u] = tmp[u]
               /\ fd'[u] = fd[u] /\ runs'[u] = runs[u]
      BY <1>1, <1>4 DEF ImageInv, TypeOK
    <3> QED
      BY <1>1, <3>2, <3>3, OthersKeep
  <2> QED
    BY <2>1, <2>2
<1>10. OnlyOutputsExecuted'
  <2> HIDE DEF file
  <2> QED
    BY <1>4, <1>5 DEF ImageInv, OnlyOutputsExecuted
<1>11. OutputWhole'
  <2> HIDE DEF file
  <2> QED
    BY <1>2, <1>4, <1>5 DEF ImageInv, OutputWhole
<1>12. SpawnsItsImage'
  BY <1>1 DEF ImageInv, SpawnsItsImage
<1> QED
  BY <1>6, <1>7, <1>8, <1>9, <1>10, <1>11, <1>12 DEF ImageInv

\* A thread that writes a field of the inode behind its temporary name
\* (the write of fs::write, and set_executable) touches no other name.
LEMMA TmpInodeWritten ==
    ASSUME ImageInv, NEW t \in Threads, at[t] \in {"fill", "chmod"},
           NEW v \in Inode, v.executed = inodes[entries[TmpFile(t)]].executed,
           inodes' = [inodes EXCEPT ![entries[TmpFile(t)]] = v],
           NEW q \in Pcs, q # "new", at' = [at EXCEPT ![t] = q],
           UNCHANGED <<runnerId, counter, life, dir, tmp, fd, runs, entries, spawned>>,
           Progress(t)'
    PROVE  ImageInv'
<1> DEFINE file == TmpFile(t)
           i == entries[file]
<1>1. file \in DOMAIN entries /\ i \in 1..Len(inodes) /\ file[1] = dir[t] /\ file[2] # IMAGE_NAME
  BY NamesDiffer DEF ImageInv, Progress, TypeOK, TmpFile
<1>2. /\ inodes' \in Seq(Inode) /\ Len(inodes') = Len(inodes)
      /\ \A j \in 1..Len(inodes) : inodes'[j] = IF j = i THEN v ELSE inodes[j]
  BY <1>1, InodeWritten DEF ImageInv, TypeOK
<1>3. \A e \in DOMAIN entries : e # file => entries[e] # i
  BY <1>1 DEF ImageInv, OneName
<1>4. \A e \in DOMAIN entries : entries[e] \in 1..Len(inodes)
  BY DEF ImageInv, TypeOK
<1>5. \A e \in DOMAIN entries : e # file => inodes'[entries[e]] = inodes[entries[e]]
  BY <1>2, <1>3, <1>4
<1>6. inodes'[i].executed = inodes[i].executed
  BY <1>1, <1>2
<1> HIDE DEF file, i
<1>7. TypeOK'
  <2>1. at' \in [Threads -> Pcs]
    BY DEF ImageInv, TypeOK
  <2> QED
    BY <1>2, <2>1 DEF ImageInv, TypeOK
<1>8. OneName' /\ OwnDirs' /\ SpawnsItsImage'
  BY SameDirs DEF ImageInv, OneName, SpawnsItsImage, TypeOK
<1>9. \A u \in Threads : Progress(u)'
  <2>1. \A u \in Threads \ {t} : at'[u] = at[u]
    BY DEF ImageInv, TypeOK
  <2>2. \A u \in Threads \ {t} : Progress(u)'
    BY <1>1, <1>5, <2>1, OthersKeep
  <2> QED
    BY <2>2
<1>10. OnlyOutputsExecuted' /\ OutputWhole'
  BY <1>1, <1>5, <1>6 DEF ImageInv, OnlyOutputsExecuted, OutputWhole, i
<1> QED
  BY <1>7, <1>8, <1>9, <1>10 DEF ImageInv

\* The write of fs::write.
LEMMA FillTmpKeeps ==
    ASSUME ImageInv, NEW t \in Threads, FillTmp(t)
    PROVE  ImageInv'
<1> DEFINE i == entries[TmpFile(t)]
           v == [inodes[i] EXCEPT !.bytes = Image(t)]
<1>1. /\ at[t] = "fill" /\ fd[t] = i /\ TmpFile(t) \in DOMAIN entries /\ tmp[t] \in Numbered
      /\ i \in 1..Len(inodes) /\ inodes[i] \in Inode
  BY ElementOfSeq DEF ImageInv, Progress, FillTmp, TypeOK
<1>2. Image(t) \in Images
  BY DEF Image, Images, ImageInv, TypeOK, Pids
<1>3. v \in Inode /\ v.executed = inodes[i].executed /\ v.bytes = Image(t)
  BY <1>1, <1>2 DEF Inode
<1>4. inodes' = [inodes EXCEPT ![i] = v] /\ at' = [at EXCEPT ![t] = "chmod"]
      /\ UNCHANGED <<runnerId, counter, life, dir, tmp, fd, runs, entries, spawned>>
  BY <1>1 DEF FillTmp, globals
<1> HIDE DEF v, i
<1>5. inodes'[i] = v /\ at'[t] = "chmod"
  BY <1>1, <1>3, <1>4, InodeWritten DEF ImageInv, TypeOK
<1>6. Progress(t)'
  BY <1>1, <1>3, <1>4, <1>5 DEF Progress, TmpFile, Image, i
<1> QED
  BY <1>1, <1>3, <1>4, <1>6, TmpInodeWritten DEF Pcs, i

\* set_executable.
LEMMA ChmodKeeps ==
    ASSUME ImageInv, NEW t \in Threads, Chmod(t)
    PROVE  ImageInv'
<1> DEFINE i == entries[TmpFile(t)]
           v == [inodes[i] EXCEPT !.exec = TRUE]
<1>1. /\ at[t] = "chmod" /\ TmpFile(t) \in DOMAIN entries /\ tmp[t] \in Numbered
      /\ inodes[i].bytes = Image(t) /\ i \in 1..Len(inodes) /\ inodes[i] \in Inode
  BY ElementOfSeq DEF ImageInv, Progress, Chmod, TypeOK
<1>2. v \in Inode /\ v.executed = inodes[i].executed /\ v.bytes = Image(t) /\ v.exec
  BY <1>1 DEF Inode
<1>3. inodes' = [inodes EXCEPT ![i] = v] /\ at' = [at EXCEPT ![t] = "rename"]
      /\ UNCHANGED <<runnerId, counter, life, dir, tmp, fd, runs, entries, spawned>>
  BY DEF Chmod, globals, TmpFile
<1> HIDE DEF v, i
<1>4. inodes'[i] = v /\ at'[t] = "rename"
  BY <1>1, <1>2, <1>3, InodeWritten DEF ImageInv, TypeOK
<1>5. Progress(t)'
  BY <1>1, <1>2, <1>3, <1>4 DEF Progress, TmpFile, Image, i
<1> QED
  BY <1>1, <1>2, <1>3, <1>5, TmpInodeWritten DEF Pcs, i

\* The rename: the filled, executable inode changes its name.
LEMMA RenameKeeps ==
    ASSUME ImageInv, NEW t \in Threads, Rename(t)
    PROVE  ImageInv'
<1> DEFINE from == TmpFile(t)
           out == OutFile(t)
           i == entries[from]
<1>1. /\ at[t] = "rename" /\ from \in DOMAIN entries /\ tmp[t] \in Numbered
      /\ inodes[i].bytes = Image(t) /\ inodes[i].exec
  BY DEF ImageInv, Progress, Rename
<1>2. /\ from[1] = dir[t] /\ out[1] = dir[t] /\ from[2] # IMAGE_NAME /\ out[2] = IMAGE_NAME
      /\ from # out /\ out \in Numbered \X Names
  <2>1. dir[t] \in Numbered
    BY <1>1 DEF ImageInv, TypeOK, TmpFile, Numbered, Names
  <2> QED
    BY <1>1, <2>1, NamesDiffer DEF TmpFile, OutFile, Names
<1>3. /\ at' = [at EXCEPT ![t] = "spawn"]
      /\ UNCHANGED <<runnerId, counter, life, dir, tmp, fd, runs, inodes, spawned>>
      /\ entries' = Put(Without(entries, {from}), out, i)
  BY DEF Rename, globals, TmpFile, OutFile
<1>4. i \in 1..Len(inodes) /\ \A e \in DOMAIN entries : entries[e] \in 1..Len(inodes)
  BY <1>1 DEF ImageInv, TypeOK
<1> HIDE DEF from, out, i
<1>5. /\ DOMAIN entries' = (DOMAIN entries \ {from}) \cup {out}
      /\ entries' = [x \in (DOMAIN entries \ {from}) \cup {out} |-> IF x = out THEN i ELSE entries[x]]
  BY <1>3 DEF Put, Without
<1>6. TypeOK'
  <2>1. at' \in [Threads -> Pcs]
    BY <1>3 DEF ImageInv, TypeOK, Pcs
  <2>2. entries' \in [DOMAIN entries' -> 1..Len(inodes')]
    BY <1>3, <1>4, <1>5
  <2>3. DOMAIN entries' \subseteq Numbered \X Names
    BY <1>2, <1>5 DEF ImageInv, TypeOK
  <2> QED
    BY <1>3, <2>1, <2>2, <2>3 DEF ImageInv, TypeOK
<1>7. OneName'
  <2>1. \A e \in DOMAIN entries : e # from => entries[e] # i
    BY <1>1 DEF ImageInv, OneName, i
  <2> QED
    BY <2>1, <1>5 DEF ImageInv, OneName
<1>8. OwnDirs' /\ SpawnsItsImage'
  BY <1>1, <1>3, SameDirs DEF ImageInv, SpawnsItsImage, TypeOK
<1>9. \A u \in Threads : Progress(u)'
  <2>1. Progress(t)'
    <3>1. at'[t] = "spawn" /\ OutFile(t)' = out /\ Image(t)' = Image(t)
      BY <1>3 DEF ImageInv, TypeOK, OutFile, out, Image
    <3> QED
      BY <3>1, <1>1, <1>3, <1>5 DEF Progress
  <2>2. \A u \in Threads \ {t} : at'[u] = at[u]
    BY <1>3 DEF ImageInv, TypeOK
  <2>3. \A e \in DOMAIN entries : e[1] # dir[t] => e \in DOMAIN entries' /\ entries'[e] = entries[e]
    BY <1>2, <1>5
  <2>4. \A u \in Threads \ {t} : Progress(u)'
    BY <1>1, <1>3, <2>2, <2>3, OthersKeep
  <2> QED
    BY <2>1, <2>4
<1>10. OnlyOutputsExecuted' /\ OutputWhole'
  <2>1. Image(t) # None
    BY DEF Image, None
  <2> QED
    BY <2>1, <1>1, <1>2, <1>3, <1>5 DEF ImageInv, OnlyOutputsExecuted, OutputWhole
<1> QED
  BY <1>6, <1>7, <1>8, <1>9, <1>10 DEF ImageInv

\* An error return leaves the files as they are.
LEMMA RunFailsKeeps ==
    ASSUME ImageInv, NEW t \in Threads, RunFails(t)
    PROVE  ImageInv'
<1> USE DEF RunFails, globals
<1>1. TypeOK'
  BY DEF ImageInv, TypeOK, Pcs
<1>2. OwnDirs'
  BY SameDirs DEF ImageInv, TypeOK
<1>3. at'[t] = "write" /\ at[t] # "new"
      /\ \A u \in Threads \ {t} : at'[u] = at[u] /\ runs'[u] = runs[u]
  BY DEF ImageInv, TypeOK
<1>4. \A u \in Threads : Progress(u)'
  <2>1. Progress(t)'
    BY <1>3 DEF Progress
  <2>2. \A u \in Threads \ {t} : Progress(u)'
    BY <1>3, OthersKeep
  <2> QED
    BY <2>1, <2>2
<1> QED
  BY <1>1, <1>2, <1>4, SameFiles DEF ImageInv

\* The spawn marks the inode; its content is what was written.
LEMMA SpawnKeeps ==
    ASSUME ImageInv, NEW t \in Threads, SpawnImage(t)
    PROVE  ImageInv'
<1> DEFINE out == OutFile(t)
           i == entries[out]
           v == [inodes[i] EXCEPT !.executed = TRUE]
<1>1. /\ at[t] = "spawn" /\ out \in DOMAIN entries /\ out[2] = IMAGE_NAME
      /\ inodes[i].bytes = Image(t) /\ inodes[i].exec
      /\ i \in 1..Len(inodes) /\ inodes[i] \in Inode
  BY ElementOfSeq DEF ImageInv, Progress, SpawnImage, TypeOK, OutFile
<1>2. v \in Inode /\ v.bytes = inodes[i].bytes /\ v.exec = inodes[i].exec
  BY <1>1 DEF Inode
<1>3. /\ inodes' = [inodes EXCEPT ![i] = v]
      /\ spawned' = spawned \cup {[image |-> Image(t), ran |-> inodes[i].bytes, exec |-> inodes[i].exec]}
      /\ at' = [at EXCEPT ![t] = "write"] /\ runs' = [runs EXCEPT ![t] = @ + 1]
      /\ UNCHANGED <<runnerId, counter, life, dir, tmp, fd, entries>>
  BY DEF SpawnImage, globals, OutFile
<1> HIDE DEF out, i, v
<1>4. /\ inodes' \in Seq(Inode) /\ Len(inodes') = Len(inodes)
      /\ \A j \in 1..Len(inodes) : inodes'[j] = IF j = i THEN v ELSE inodes[j]
  BY <1>1, <1>2, <1>3, InodeWritten DEF ImageInv, TypeOK
<1>5. \A e \in DOMAIN entries :
          /\ entries[e] \in 1..Len(inodes)
          /\ inodes'[entries[e]].bytes = inodes[entries[e]].bytes
          /\ inodes'[entries[e]].exec = inodes[entries[e]].exec
  BY <1>1, <1>2, <1>4 DEF ImageInv, TypeOK
<1>6. TypeOK'
  <2>1. at' \in [Threads -> Pcs] /\ runs' \in [Threads -> Nat]
    BY <1>3 DEF ImageInv, TypeOK, Pcs
  <2> QED
    BY <1>3, <1>4, <2>1 DEF ImageInv, TypeOK
<1>7. OneName' /\ OutputWhole'
  BY <1>3, <1>5 DEF ImageInv, OneName, OutputWhole
<1>8. OwnDirs'
  BY <1>3, <1>1, SameDirs DEF ImageInv, TypeOK
<1>9. \A u \in Threads : Progress(u)'
  <2>1. at'[t] = "write" /\ \A u \in Threads \ {t} : at'[u] = at[u] /\ runs'[u] = runs[u]
    BY <1>3 DEF ImageInv, TypeOK
  <2>2. Progress(t)'
    BY <2>1 DEF Progress
  <2>3. \A u \in Threads \ {t} : Progress(u)'
    BY <1>1, <1>3, <1>5, <2>1, OthersKeep
  <2> QED
    BY <2>2, <2>3
<1>10. OnlyOutputsExecuted'
  <2>1. \A e \in DOMAIN entries : e # out => entries[e] # i
    BY <1>1 DEF ImageInv, OneName, i
  <2> QED
    BY <1>1, <1>3, <1>4, <1>5, <2>1 DEF ImageInv, OnlyOutputsExecuted
<1>11. SpawnsItsImage'
  BY <1>1, <1>3 DEF ImageInv, SpawnsItsImage
<1> QED
  BY <1>6, <1>7, <1>8, <1>9, <1>10, <1>11 DEF ImageInv

\* remove_dir_all of the thread's own directory.
LEMMA DropRunnerKeeps ==
    ASSUME ImageInv, NEW t \in Threads, DropRunner(t)
    PROVE  ImageInv'
<1>1. /\ at[t] = "write" /\ at' = [at EXCEPT ![t] = "gone"]
      /\ UNCHANGED <<runnerId, counter, life, dir, tmp, fd, runs, inodes, spawned>>
      /\ entries' = Without(entries, {e \in DOMAIN entries : e[1] = dir[t]})
  BY DEF DropRunner, globals
<1>2. /\ DOMAIN entries' = {e \in DOMAIN entries : e[1] # dir[t]}
      /\ \A e \in DOMAIN entries' : entries'[e] = entries[e]
      /\ entries' \in [DOMAIN entries' -> 1..Len(inodes')]
  BY <1>1 DEF ImageInv, TypeOK, Without
<1>3. TypeOK'
  <2>1. at' \in [Threads -> Pcs]
    BY <1>1 DEF ImageInv, TypeOK, Pcs
  <2> QED
    BY <1>1, <1>2, <2>1 DEF ImageInv, TypeOK
<1>4. OneName' /\ OnlyOutputsExecuted' /\ OutputWhole' /\ SpawnsItsImage'
  BY <1>1, <1>2 DEF ImageInv, OneName, OnlyOutputsExecuted, OutputWhole, SpawnsItsImage
<1>5. OwnDirs'
  BY <1>1, SameDirs DEF ImageInv, TypeOK
<1>6. \A u \in Threads : Progress(u)'
  <2>1. at'[t] = "gone" /\ \A u \in Threads \ {t} : at'[u] = at[u]
    BY <1>1 DEF ImageInv, TypeOK
  <2>2. Progress(t)'
    BY <2>1 DEF Progress
  <2>3. \A u \in Threads \ {t} : Progress(u)'
    BY <1>1, <1>2, <2>1, OthersKeep
  <2> QED
    BY <2>2, <2>3
<1> QED
  BY <1>3, <1>4, <1>5, <1>6 DEF ImageInv

\* A kill: the dead process's threads start afresh over what they left.
LEMMA CrashKeeps ==
    ASSUME ImageInv, NEW p \in Pids, Crash(p)
    PROVE  ImageInv'
<1>1. /\ at' = [t \in Threads |-> IF Pid[t] = p THEN "new" ELSE at[t]]
      /\ runs' = [t \in Threads |-> IF Pid[t] = p THEN 0 ELSE runs[t]]
      /\ runnerId' = [runnerId EXCEPT ![p] = 0] /\ counter' = [counter EXCEPT ![p] = 0]
      /\ life' = [life EXCEPT ![p] = @ + 1]
      /\ UNCHANGED <<dir, tmp, fd, entries, inodes, spawned>>
  BY DEF Crash
<1>2. TypeOK'
  <2>1. at' \in [Threads -> Pcs] /\ runs' \in [Threads -> Nat]
    BY <1>1 DEF ImageInv, TypeOK, Pcs
  <2> QED
    BY <1>1, <2>1 DEF ImageInv, TypeOK
<1>3. \A t \in Threads : /\ Pid[t] = p => at'[t] = "new"
                         /\ Pid[t] # p => /\ at'[t] = at[t] /\ runs'[t] = runs[t]
                                          /\ runnerId'[Pid[t]] = runnerId[Pid[t]]
                                          /\ life'[Pid[t]] = life[Pid[t]]
  BY <1>1 DEF ImageInv, TypeOK, Pids
<1>4. OwnDirs'
  BY <1>1, <1>3 DEF ImageInv, OwnDirs
<1>5. ASSUME NEW u \in Threads PROVE Progress(u)'
  <2>1. CASE Pid[u] = p
    BY <2>1, <1>3 DEF Progress
  <2>2. CASE Pid[u] # p
    BY <2>2, <1>1, <1>3, UntouchedKeeps DEF ImageInv
  <2> QED
    BY <2>1, <2>2
<1> QED
  BY <1>1, <1>2, <1>4, <1>5, SameFiles DEF ImageInv

\* One step of the system, or none.
LEMMA StepImage == ImageInv /\ [ImageNext]_imageVars => ImageInv'
<1> SUFFICES ASSUME ImageInv, [ImageNext]_imageVars PROVE ImageInv'
  OBVIOUS
<1>1. ASSUME NEW t \in Threads, Thread(t) PROVE ImageInv'
  BY <1>1, NewRunnerKeeps, OpenTmpKeeps, FillTmpKeeps, ChmodKeeps, RenameKeeps, RunFailsKeeps,
     SpawnKeeps, DropRunnerKeeps DEF Thread
<1>2. ASSUME NEW p \in Pids, Crash(p) PROVE ImageInv'
  BY <1>2, CrashKeeps
<1>3. CASE UNCHANGED imageVars
  <2> USE <1>3 DEF imageVars
  <2>1. TypeOK' /\ OwnDirs'
    BY DEF ImageInv, TypeOK, OwnDirs
  <2>2. \A u \in Threads : Progress(u)'
    BY DEF ImageInv, Progress, TmpFile, OutFile, Image
  <2> QED
    BY <2>1, <2>2, SameFiles DEF ImageInv
<1> QED
  BY <1>1, <1>2, <1>3 DEF ImageNext

\* The inductive invariant of the image writers.
THEOREM ImageInvariant == ImageSpec => []ImageInv
  BY InitImage, StepImage, PTL DEF ImageSpec

\* write.rs: "Writes bytes to dir/name atomically".  No output is ever half
\* written or not executable, whatever was killed when.
THEOREM OutputsAreWhole == ImageSpec => []OutputWhole
<1>1. ImageInv => OutputWhole
  BY DEF ImageInv
<1> QED
  BY <1>1, ImageInvariant, PTL

\* native.rs, Runner::run: what is spawned is what this call wrote.
THEOREM EveryRunSpawnsItsImage == ImageSpec => []SpawnsItsImage
<1>1. ImageInv => SpawnsItsImage
  BY DEF ImageInv
<1> QED
  BY <1>1, ImageInvariant, PTL

\* No step writes an inode that has been executed: the only inodes a step
\* writes are behind a temporary name, and the executed ones are outputs.
LEMMA StepPatchesNothing ==
    ASSUME ImageInv, ImageNext, NEW i \in DOMAIN inodes, inodes[i].executed
    PROVE  inodes'[i].bytes = inodes[i].bytes
<1>1. /\ inodes \in Seq(Inode) /\ DOMAIN inodes = 1..Len(inodes)
      /\ \A j \in 1..Len(inodes) : inodes[j] \in Inode
      /\ \A e \in DOMAIN entries : entries[e] \in 1..Len(inodes)
  BY LenProperties, ElementOfSeq DEF ImageInv, TypeOK
<1>2. \A e \in DOMAIN entries : e[2] # IMAGE_NAME => entries[e] # i
  BY DEF ImageInv, OnlyOutputsExecuted
<1>3. ASSUME NEW t \in Threads, OpenTmp(t) PROVE inodes'[i].bytes = inodes[i].bytes
  <2> DEFINE file == <<dir[t], TmpName(t)>>
  <2>1. file[2] # IMAGE_NAME
    BY NamesDiffer, <1>3 DEF TmpName, OpenTmp, ImageInv, TypeOK, Numbered, Pids
  <2>2. CASE file \in DOMAIN entries
    <3>1. entries[file] # i
      BY <2>1, <2>2, <1>2
    <3>2. inodes' = [inodes EXCEPT ![entries[file]].bytes = None]
      BY <1>3, <2>2 DEF OpenTmp
    <3> QED
      BY <3>1, <3>2, <1>1
  <2>3. CASE file \notin DOMAIN entries
    <3> DEFINE v == [bytes |-> None, exec |-> FALSE, executed |-> FALSE]
    <3>1. inodes' = Append(inodes, v) /\ v \in Inode
      BY <1>3, <2>3 DEF OpenTmp, Inode
    <3> HIDE DEF v
    <3> QED
      BY <3>1, <1>1, AppendProperties
  <2> QED
    BY <2>2, <2>3
<1>4. ASSUME NEW t \in Threads, FillTmp(t) PROVE inodes'[i].bytes = inodes[i].bytes
  <2>1. TmpFile(t) \in DOMAIN entries /\ fd[t] = entries[TmpFile(t)] /\ TmpFile(t)[2] # IMAGE_NAME
    BY <1>4, NamesDiffer DEF FillTmp, ImageInv, Progress, TmpFile
  <2> QED
    BY <2>1, <1>1, <1>2, <1>4 DEF FillTmp
<1>5. ASSUME NEW t \in Threads, Chmod(t) PROVE inodes'[i].bytes = inodes[i].bytes
  BY <1>5, <1>1 DEF Chmod, Inode
<1>6. ASSUME NEW t \in Threads, SpawnImage(t) PROVE inodes'[i].bytes = inodes[i].bytes
  BY <1>6, <1>1 DEF SpawnImage, Inode
<1>7. ASSUME NEW t \in Threads, NewRunner(t) \/ Rename(t) \/ RunFails(t) \/ DropRunner(t)
      PROVE  inodes'[i].bytes = inodes[i].bytes
  BY <1>7 DEF NewRunner, Rename, RunFails, DropRunner
<1>8. ASSUME NEW p \in Pids, Crash(p) PROVE inodes'[i].bytes = inodes[i].bytes
  BY <1>8 DEF Crash
<1> QED
  BY <1>3, <1>4, <1>5, <1>6, <1>7, <1>8 DEF ImageNext, Thread

\* write.rs: "patching an inode the kernel has already executed is SIGKILLed
\* non-deterministically".  No step does, in any history of kills.
THEOREM ExecutedInodesStay == ImageSpec => ExecutedNeverPatched
<1>1. ImageInv /\ [ImageNext]_imageVars =>
          [\A i \in DOMAIN inodes : inodes[i].executed => inodes'[i].bytes = inodes[i].bytes]_imageVars
  BY StepPatchesNothing
<1> QED
  BY <1>1, ImageInvariant, PTL DEF ImageSpec, ExecutedNeverPatched

=============================================================================
