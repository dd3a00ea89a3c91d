----------------------------- MODULE ImageWrite -----------------------------
(***************************************************************************)
(* How an image reaches the disk and is run (crates/fors-obj, write.rs:    *)
(* write_executable; crates/fors-oracle, native.rs: Runner::new, the start *)
(* of Runner::run, Drop).  The worker threads of several test processes    *)
(* share the temporary directory; each makes itself a scratch directory    *)
(* named by its process and a counter, writes image after image to the     *)
(* same name in it through a temporary file and a rename, and spawns it.   *)
(* A process may be killed anywhere and a later one may be given its pid,  *)
(* so that its counters, and its names, start again over the leftovers.    *)
(*                                                                         *)
(* The file system is modelled from how the code uses it: a directory      *)
(* entry names an inode; fs::write truncates or creates and then fills;    *)
(* rename replaces the entry; a running process keeps its inode.           *)
(***************************************************************************)
EXTENDS Integers, Sequences

CONSTANTS
    Threads,        \* the worker threads
    Pid,            \* thread -> the pid of its process
    MaxRuns,        \* bound on the images one thread runs in one life
    MaxCrashes,     \* bound on the times the process of one pid is killed
    MaxInodes       \* bound on the files created

VARIABLES
    runnerId,   \* pid -> RUNNER_ID
    counter,    \* pid -> COUNTER
    at,         \* thread -> where it is in Runner::run
    dir,        \* thread -> its Runner's directory
    tmp,        \* thread -> the temporary name of the call
    fd,         \* thread -> the inode fs::write has open
    runs,       \* thread -> images run so far; with it, the image's content
    entries,    \* <<directory, name>> -> inode
    inodes,     \* inode -> [bytes, mode, executed]
    spawned,    \* the inodes started, with the image that was meant
    life        \* pid -> which process of this pid is running

imageVars == <<runnerId, counter, at, dir, tmp, fd, runs, entries, inodes, spawned, life>>
globals == <<runnerId, counter, life>>

Pids == {Pid[t] : t \in Threads}
IMAGE_NAME == <<"prog">>
Image(t) == <<t, runs[t], life[Pid[t]]>>       \* what this call writes
None == <<>>

ImageInit ==
    /\ runnerId = [p \in Pids |-> 0]
    /\ counter = [p \in Pids |-> 0]
    /\ at = [t \in Threads |-> "new"]
    /\ dir = [t \in Threads |-> None]
    /\ tmp = [t \in Threads |-> None]
    /\ fd = [t \in Threads |-> 0]
    /\ runs = [t \in Threads |-> 0]
    /\ entries = << >>
    /\ inodes = << >>
    /\ spawned = {}
    /\ life = [p \in Pids |-> 0]

Put(f, k, v) == [x \in DOMAIN f \cup {k} |-> IF x = k THEN v ELSE f[x]]
Without(f, ks) == [x \in DOMAIN f \ ks |-> f[x]]

-----------------------------------------------------------------------------
\* Faulty variant: the directory is named by the process alone.
RunnerDirByPid(t) == <<Pid[t]>>

\* fors-native-{pid}-{n}
RunnerDir(t) == <<Pid[t], runnerId[Pid[t]]>>

\* Runner::new; create_dir_all accepts a directory that is already there, and
\* its failure leaves the thread without a Runner.
NewRunner(t) ==
    /\ at[t] = "new"
    /\ dir' = [dir EXCEPT ![t] = RunnerDir(t)]
    /\ runnerId' = [runnerId EXCEPT ![Pid[t]] = @ + 1]
    /\ \E q \in {"write", "gone"} : at' = [at EXCEPT ![t] = q]
    /\ UNCHANGED <<counter, tmp, fd, runs, entries, inodes, spawned, life>>

\* Faulty variant: the output itself is opened.
TmpNameIsOutput(t) == IMAGE_NAME

\* .{name}.tmp{pid}-{n}
TmpName(t) == <<Pid[t], counter[Pid[t]]>>

\* COUNTER.fetch_add, then the open of fs::write: create, or truncate what is
\* there.  The file is empty until it is filled.
OpenTmp(t) ==
    /\ at[t] = "write" /\ runs[t] < MaxRuns
    /\ tmp' = [tmp EXCEPT ![t] = TmpName(t)]
    /\ counter' = [counter EXCEPT ![Pid[t]] = @ + 1]
    /\ LET file == <<dir[t], TmpName(t)>> IN
       IF file \in DOMAIN entries
       THEN /\ inodes' = [inodes EXCEPT ![entries[file]].bytes = None]
            /\ fd' = [fd EXCEPT ![t] = entries[file]]
            /\ UNCHANGED entries
       ELSE /\ Len(inodes) < MaxInodes
            /\ inodes' = Append(inodes, [bytes |-> None, exec |-> FALSE, executed |-> FALSE])
            /\ entries' = Put(entries, file, Len(inodes) + 1)
            /\ fd' = [fd EXCEPT ![t] = Len(inodes) + 1]
    /\ at' = [at EXCEPT ![t] = "fill"]
    /\ UNCHANGED <<runnerId, dir, runs, spawned, life>>

\* The write of fs::write.
FillTmp(t) ==
    /\ at[t] = "fill"
    /\ inodes' = [inodes EXCEPT ![fd[t]].bytes = Image(t)]
    /\ at' = [at EXCEPT ![t] = "chmod"]
    /\ UNCHANGED <<globals, dir, tmp, fd, runs, entries, spawned>>

\* set_executable.
Chmod(t) ==
    /\ at[t] = "chmod" /\ <<dir[t], tmp[t]>> \in DOMAIN entries
    /\ inodes' = [inodes EXCEPT ![entries[<<dir[t], tmp[t]>>]].exec = TRUE]
    /\ at' = [at EXCEPT ![t] = "rename"]
    /\ UNCHANGED <<globals, dir, tmp, fd, runs, entries, spawned>>

\* Faulty variant: the bytes are copied into the file that is there.
RenameCopies(t) ==
    /\ at[t] = "rename" /\ <<dir[t], tmp[t]>> \in DOMAIN entries
    /\ LET from == <<dir[t], tmp[t]>>  out == <<dir[t], IMAGE_NAME>> IN
       IF out \in DOMAIN entries
       THEN /\ inodes' = [inodes EXCEPT ![entries[out]].bytes = inodes[entries[from]].bytes]
            /\ entries' = Without(entries, {from})
       ELSE /\ entries' = Without(Put(entries, out, entries[from]), {from})
            /\ UNCHANGED inodes
    /\ at' = [at EXCEPT ![t] = "spawn"]
    /\ UNCHANGED <<globals, dir, tmp, fd, runs, spawned>>

\* rename over the output: the old inode is unlinked, not written.
Rename(t) ==
    /\ at[t] = "rename" /\ <<dir[t], tmp[t]>> \in DOMAIN entries
    /\ LET from == <<dir[t], tmp[t]>> IN
       entries' = Put(Without(entries, {from}), <<dir[t], IMAGE_NAME>>, entries[from])
    /\ at' = [at EXCEPT ![t] = "spawn"]
    /\ UNCHANGED <<globals, dir, tmp, fd, runs, inodes, spawned>>

\* An error of the write, the chmod, the rename or the spawn: the run returns
\* it; a temporary file that was opened stays behind.
RunFails(t) ==
    /\ at[t] \in {"fill", "chmod", "rename", "spawn"}
    /\ runs' = [runs EXCEPT ![t] = @ + 1]
    /\ at' = [at EXCEPT ![t] = "write"]
    /\ UNCHANGED <<globals, dir, tmp, fd, entries, inodes, spawned>>

\* Command::new(&path).spawn(): the kernel runs what the path names now.
SpawnImage(t) ==
    /\ at[t] = "spawn" /\ <<dir[t], IMAGE_NAME>> \in DOMAIN entries
    /\ LET i == entries[<<dir[t], IMAGE_NAME>>] IN
       /\ inodes' = [inodes EXCEPT ![i].executed = TRUE]
       /\ spawned' = spawned \cup {[image |-> Image(t), ran |-> inodes[i].bytes, exec |-> inodes[i].exec]}
    /\ runs' = [runs EXCEPT ![t] = @ + 1]
    /\ at' = [at EXCEPT ![t] = "write"]
    /\ UNCHANGED <<globals, dir, tmp, fd, entries>>

\* Drop: remove_dir_all of the scratch directory, between two runs.
DropRunner(t) ==
    /\ at[t] = "write"
    /\ entries' = Without(entries, {e \in DOMAIN entries : e[1] = dir[t]})
    /\ at' = [at EXCEPT ![t] = "gone"]
    /\ UNCHANGED <<globals, dir, tmp, fd, runs, inodes, spawned>>

\* The process of pid p is killed, with no Drop, and another one starts under
\* the same pid: its statics are zero again and its threads begin afresh.
Crash(p) ==
    /\ life[p] < MaxCrashes
    /\ LET dead == {t \in Threads : Pid[t] = p} IN
       /\ at' = [t \in Threads |-> IF t \in dead THEN "new" ELSE at[t]]
       /\ runs' = [t \in Threads |-> IF t \in dead THEN 0 ELSE runs[t]]
    /\ runnerId' = [runnerId EXCEPT ![p] = 0]
    /\ counter' = [counter EXCEPT ![p] = 0]
    /\ life' = [life EXCEPT ![p] = @ + 1]
    /\ UNCHANGED <<dir, tmp, fd, entries, inodes, spawned>>

-----------------------------------------------------------------------------
Thread(t) == \/ NewRunner(t) \/ OpenTmp(t) \/ FillTmp(t) \/ Chmod(t) \/ Rename(t)
             \/ RunFails(t) \/ SpawnImage(t) \/ DropRunner(t)
ImageNext == (\E t \in Threads : Thread(t)) \/ (\E p \in Pids : Crash(p))

ImageSpec == ImageInit /\ [][ImageNext]_imageVars

-----------------------------------------------------------------------------
(***************************************************************************)
(* Properties                                                              *)
(***************************************************************************)

\* A directory never names a half-written or non-executable output: whoever
\* opens dir/name, at any moment and after any crash, finds a whole image
\* ("Writes bytes to dir/name atomically").
OutputWhole ==
    \A e \in DOMAIN entries : e[2] = IMAGE_NAME =>
        inodes[entries[e]].bytes # None /\ inodes[entries[e]].exec

\* Each run starts the image it compiled, whole, although the output has the
\* same name every time and other threads write the same name elsewhere.
SpawnsItsImage == \A s \in spawned : s.ran = s.image /\ s.exec

\* An inode the kernel has executed is never written again ("patching an
\* inode the kernel has already executed is SIGKILLed non-deterministically").
ExecutedNeverPatched ==
    [][\A i \in DOMAIN inodes : inodes[i].executed => inodes'[i].bytes = inodes[i].bytes]_imageVars

=============================================================================
