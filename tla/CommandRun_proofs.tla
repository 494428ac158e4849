--------------------------- MODULE CommandRun_proofs ---------------------------
(***************************************************************************)
(* Proofs that a caller of an external command is woken once, that no      *)
(* callback outlives it, and that it gets the status and the output of the *)
(* command, for every sequence of commands, every output and every size of *)
(* the buffer.                                                             *)
(***************************************************************************)
EXTENDS CommandRun, FoldLemmas, FiniteSetTheorems, SequenceTheorems

----------------------------------------------------------------------------
(* One lemma per action.                                                   *)

\* The command which runs is one of the script.
LEMMA ThisIsACommand ==
    ASSUME TypeOK
    PROVE  This \in Commands
BY ScriptsAssumption DEF TypeOK, This

\* The child starts; nothing is watched yet.
LEMMA SpawnKeeps ==
    ASSUME IInv, Spawn
    PROVE  IInv'
<1> USE ScriptsAssumption DEF Spawn, Started, vars, child, user, io, This, Background,
   Foreground
<1>1. TypeOK'
  <2>1. /\ This.text \in [Streams -> Seq(Byte)]
        /\ cmd' \in [running : BOOLEAN, pipecount : 0 .. 2, exit_status : Int]
    BY ThisIsACommand DEF IInv, Commands, Unset
  <2>2. pipes' \in [Streams -> [data : Seq(Byte), open : BOOLEAN]]
    BY <2>1
  <2> QED
    BY <2>1, <2>2 DEF IInv, TypeOK
<1>2. EndsInv'
  BY DEF IInv, TypeOK, EndsInv, Connected, Active, Over, Returned, WakeInv, AllEnded,
     NothingDangles, Streams
<1>3. WakeInv' /\ WokenOnce'
  BY DEF IInv, TypeOK, EndsInv, Connected, Active, WakeInv, MutexInv, AllEnded,
     NothingDangles, WokenOnce, Streams
<1>4. MutexInv'
  BY DEF IInv, TypeOK, MutexInv, EndsInv, WakeInv, AllEnded, Active, Connected,
     NothingDangles, Streams
<1>5. NothingDangles'
  BY DEF IInv, TypeOK, NothingDangles, MutexInv, WakeInv, EndsInv, AllEnded, Active,
     Connected, Streams
<1> QED
  BY <1>1, <1>2, <1>3, <1>4, <1>5 DEF IInv

\* Without a child nothing is waited for.
LEMMA SpawnFailsKeeps ==
    ASSUME IInv, SpawnFails
    PROVE  IInv'
<1> USE ScriptsAssumption DEF SpawnFails, Started, vars, child, user, io, This,
   Background, Foreground
<1>1. TypeOK'
  <2>1. cmd' \in [running : BOOLEAN, pipecount : 0 .. 2, exit_status : Int]
    <3>1. cmd' = [running |-> TRUE, pipecount |-> 2, exit_status |-> 127]
      BY DEF NotRun
    <3> HIDE DEF SpawnFails
    <3> QED
      BY <3>1
  <2> QED
    BY <2>1 DEF IInv, TypeOK
<1>2. EndsInv'
  BY DEF IInv, TypeOK, EndsInv, Connected, Active, Over, Returned, WakeInv, AllEnded,
     NothingDangles, Streams
<1>3. WakeInv' /\ WokenOnce'
  BY DEF IInv, TypeOK, EndsInv, Connected, Active, WakeInv, MutexInv, AllEnded,
     NothingDangles, WokenOnce, Streams
<1>4. MutexInv'
  BY DEF IInv, TypeOK, MutexInv, EndsInv, WakeInv, AllEnded, Active, Connected,
     NothingDangles, Streams
<1>5. NothingDangles'
  BY DEF IInv, TypeOK, NothingDangles, MutexInv, WakeInv, EndsInv, AllEnded, Active,
     Connected, Streams
<1> QED
  BY <1>1, <1>2, <1>3, <1>4, <1>5 DEF IInv

\* The main loop watches both pipes of a foreground command at once.
LEMMA ConnectKeeps ==
    ASSUME IInv, Connect
    PROVE  IInv'
<1> USE ScriptsAssumption DEF Connect, vars, child, user, io, This, Background, Foreground
<1>1. TypeOK'
  BY DEF IInv, TypeOK, EndsInv, Commands
<1>2. EndsInv'
  BY DEF IInv, TypeOK, EndsInv, Connected, Active, Over, Returned, WakeInv, AllEnded,
     NothingDangles, Streams
<1>3. WakeInv' /\ WokenOnce'
  BY DEF IInv, TypeOK, EndsInv, Connected, Active, WakeInv, MutexInv, AllEnded,
     NothingDangles, WokenOnce, Streams
<1>4. MutexInv'
  BY DEF IInv, TypeOK, MutexInv, EndsInv, WakeInv, AllEnded, Active, Connected,
     NothingDangles, Streams
<1>5. NothingDangles'
  BY DEF IInv, TypeOK, NothingDangles, MutexInv, WakeInv, EndsInv, AllEnded, Active,
     Connected, Streams
<1> QED
  BY <1>1, <1>2, <1>3, <1>4, <1>5 DEF IInv

\* The scanning thread takes the mutex, which nobody else has.
LEMMA LockKeeps ==
    ASSUME IInv, Lock
    PROVE  IInv'
<1> USE ScriptsAssumption DEF Lock, vars, child, user, io, This, Background, Foreground
<1>1. TypeOK'
  BY DEF IInv, TypeOK, EndsInv, Commands
<1>2. EndsInv'
  BY DEF IInv, TypeOK, EndsInv, Connected, Active, Over, Returned, WakeInv, AllEnded,
     NothingDangles, Streams
<1>3. WakeInv' /\ WokenOnce'
  BY DEF IInv, TypeOK, EndsInv, Connected, Active, WakeInv, MutexInv, AllEnded,
     NothingDangles, WokenOnce, Streams
<1>4. MutexInv'
  BY DEF IInv, TypeOK, MutexInv, EndsInv, WakeInv, AllEnded, Active, Connected,
     NothingDangles, Streams
<1>5. NothingDangles'
  BY DEF IInv, TypeOK, NothingDangles, MutexInv, WakeInv, EndsInv, AllEnded, Active,
     Connected, Streams
<1> QED
  BY <1>1, <1>2, <1>3, <1>4, <1>5 DEF IInv

\* The first pipe of a background command is watched.
LEMMA ConnectOutputKeeps ==
    ASSUME IInv, ConnectOutput
    PROVE  IInv'
<1> USE ScriptsAssumption DEF ConnectOutput, ConnectStream, vars, child, user, io, This,
   Background, Foreground
<1>1. TypeOK'
  BY DEF IInv, TypeOK, Streams
<1>2. EndsInv'
  BY DEF IInv, TypeOK, EndsInv, Connected, Active, Over, Returned, WakeInv, AllEnded,
     NothingDangles, Streams
<1>3. WakeInv' /\ WokenOnce'
  BY DEF IInv, TypeOK, EndsInv, Connected, Active, WakeInv, MutexInv, AllEnded,
     NothingDangles, WokenOnce, Streams
<1>4. MutexInv'
  BY DEF IInv, TypeOK, MutexInv, EndsInv, WakeInv, AllEnded, Active, Connected,
     NothingDangles, Streams
<1>5. NothingDangles'
  BY DEF IInv, TypeOK, NothingDangles, MutexInv, WakeInv, EndsInv, AllEnded, Active,
     Connected, Streams
<1> QED
  BY <1>1, <1>2, <1>3, <1>4, <1>5 DEF IInv

\* The second pipe of a background command is watched.
LEMMA ConnectErrorKeeps ==
    ASSUME IInv, ConnectError
    PROVE  IInv'
<1> USE ScriptsAssumption DEF ConnectError, ConnectStream, vars, child, user, io, This,
   Background, Foreground
<1>1. TypeOK'
  BY DEF IInv, TypeOK, Streams
<1>2. EndsInv'
  BY DEF IInv, TypeOK, EndsInv, Connected, Active, Over, Returned, WakeInv, AllEnded,
     NothingDangles, Streams
<1>3. WakeInv' /\ WokenOnce'
  BY DEF IInv, TypeOK, EndsInv, Connected, Active, WakeInv, MutexInv, AllEnded,
     NothingDangles, WokenOnce, Streams
<1>4. MutexInv'
  BY DEF IInv, TypeOK, MutexInv, EndsInv, WakeInv, AllEnded, Active, Connected,
     NothingDangles, Streams
<1>5. NothingDangles'
  BY DEF IInv, TypeOK, NothingDangles, MutexInv, WakeInv, EndsInv, AllEnded, Active,
     Connected, Streams
<1> QED
  BY <1>1, <1>2, <1>3, <1>4, <1>5 DEF IInv

\* The mutex is given back by the wait.
LEMMA WaitKeeps ==
    ASSUME IInv, Wait
    PROVE  IInv'
<1> USE ScriptsAssumption DEF Wait, vars, child, user, io, This, Background, Foreground
<1>1. TypeOK'
  BY DEF IInv, TypeOK, EndsInv, Commands
<1>2. EndsInv'
  BY DEF IInv, TypeOK, EndsInv, Connected, Active, Over, Returned, WakeInv, AllEnded,
     NothingDangles, Streams
<1>3. WakeInv' /\ WokenOnce'
  BY DEF IInv, TypeOK, EndsInv, Connected, Active, WakeInv, MutexInv, AllEnded,
     NothingDangles, WokenOnce, Streams
<1>4. MutexInv'
  BY DEF IInv, TypeOK, MutexInv, EndsInv, WakeInv, AllEnded, Active, Connected,
     NothingDangles, Streams
<1>5. NothingDangles'
  BY DEF IInv, TypeOK, NothingDangles, MutexInv, WakeInv, EndsInv, AllEnded, Active,
     Connected, Streams
<1> QED
  BY <1>1, <1>2, <1>3, <1>4, <1>5 DEF IInv

\* All three ends are in when the nested loop is left.
LEMMA LeaveLoopKeeps ==
    ASSUME IInv, LeaveLoop
    PROVE  IInv'
<1> USE ScriptsAssumption DEF LeaveLoop, vars, child, user, io, This, Background, Foreground
<1>1. TypeOK'
  BY DEF IInv, TypeOK, EndsInv, Commands
<1>2. EndsInv'
  BY DEF IInv, TypeOK, EndsInv, Connected, Active, Over, Returned, WakeInv, AllEnded,
     NothingDangles, Streams
<1>3. WakeInv' /\ WokenOnce'
  BY DEF IInv, TypeOK, EndsInv, Connected, Active, WakeInv, MutexInv, AllEnded,
     NothingDangles, WokenOnce, Streams
<1>4. MutexInv'
  BY DEF IInv, TypeOK, MutexInv, EndsInv, WakeInv, AllEnded, Active, Connected,
     NothingDangles, Streams
<1>5. NothingDangles'
  BY DEF IInv, TypeOK, NothingDangles, MutexInv, WakeInv, EndsInv, AllEnded, Active,
     Connected, Streams
<1> QED
  BY <1>1, <1>2, <1>3, <1>4, <1>5 DEF IInv

\* All three ends are in, and the mutex is free, when the wait ends.
LEMMA WakeUpKeeps ==
    ASSUME IInv, WakeUp
    PROVE  IInv'
<1> USE ScriptsAssumption DEF WakeUp, vars, child, user, io, This, Background, Foreground
<1>1. TypeOK'
  BY DEF IInv, TypeOK, EndsInv, Commands
<1>2. EndsInv'
  BY DEF IInv, TypeOK, EndsInv, Connected, Active, Over, Returned, WakeInv, AllEnded,
     NothingDangles, Streams
<1>3. WakeInv' /\ WokenOnce'
  BY DEF IInv, TypeOK, EndsInv, Connected, Active, WakeInv, MutexInv, AllEnded,
     NothingDangles, WokenOnce, Streams
<1>4. MutexInv'
  BY DEF IInv, TypeOK, MutexInv, EndsInv, WakeInv, AllEnded, Active, Connected,
     NothingDangles, Streams
<1>5. NothingDangles'
  <2>1. woken /\ mutex = "none" /\ Background /\ caller = "waiting"
    OBVIOUS
  <2>2. AllEnded /\ main = "idle"
    BY <2>1 DEF IInv, TypeOK, WakeInv, MutexInv
  <2>3. watching = {} /\ ~child_watch
    BY <2>1, <2>2 DEF IInv, TypeOK, EndsInv, AllEnded, Active, Connected, Streams
  <2>4. ~asking
    BY <2>1 DEF IInv, MutexInv
  <2> QED
    BY <2>1, <2>2, <2>3, <2>4 DEF NothingDangles
<1> QED
  BY <1>1, <1>2, <1>3, <1>4, <1>5 DEF IInv

\* The next command starts with nothing left of the last one.
LEMMA NextCommandKeeps ==
    ASSUME IInv, NextCommand
    PROVE  IInv'
<1> USE ScriptsAssumption DEF NextCommand, vars, child, user, io, This, Background,
   Foreground
<1>1. TypeOK'
  BY DEF IInv, TypeOK, EndsInv, Commands
<1>2. EndsInv'
  BY DEF IInv, TypeOK, EndsInv, Connected, Active, Over, Returned, WakeInv, AllEnded,
     NothingDangles, Streams
<1>3. WakeInv' /\ WokenOnce'
  BY DEF IInv, TypeOK, EndsInv, Connected, Active, WakeInv, MutexInv, AllEnded,
     NothingDangles, WokenOnce, Streams
<1>4. MutexInv'
  BY DEF IInv, TypeOK, MutexInv, EndsInv, WakeInv, AllEnded, Active, Connected,
     NothingDangles, Streams
<1>5. NothingDangles'
  BY DEF IInv, TypeOK, NothingDangles, MutexInv, WakeInv, EndsInv, AllEnded, Active,
     Connected, Streams
<1> QED
  BY <1>1, <1>2, <1>3, <1>4, <1>5 DEF IInv

\* The exit status may be the last of the three ends.
LEMMA store_exit_statusKeeps ==
    ASSUME IInv, store_exit_status
    PROVE  IInv'
<1> USE ScriptsAssumption DEF store_exit_status, Dispatching, Wake, vars, child, user,
   io, This, Background, Foreground
<1>1. TypeOK'
  BY DEF IInv, TypeOK, EndsInv, Commands
<1>2. EndsInv'
  BY DEF IInv, TypeOK, EndsInv, Connected, Active, Over, Returned, WakeInv, AllEnded,
     NothingDangles, Streams
<1>3. WakeInv' /\ WokenOnce'
  BY DEF IInv, TypeOK, EndsInv, Connected, Active, WakeInv, MutexInv, AllEnded,
     NothingDangles, WokenOnce, Streams
<1>4. MutexInv'
  BY DEF IInv, TypeOK, MutexInv, EndsInv, WakeInv, AllEnded, Active, Connected,
     NothingDangles, Streams
<1>5. NothingDangles'
  BY DEF IInv, TypeOK, NothingDangles, MutexInv, WakeInv, EndsInv, AllEnded, Active,
     Connected, Streams
<1> QED
  BY <1>1, <1>2, <1>3, <1>4, <1>5 DEF IInv

\* Reading what is there ends nothing.
LEMMA ReadableKeeps ==
    ASSUME IInv, NEW s \in Streams, Readable(s)
    PROVE  IInv'
<1> USE ScriptsAssumption DEF Readable, Dispatching, vars, child, user, io, This,
   Background, Foreground
<1>1. TypeOK'
  <2>1. PICK n \in 1 .. Len(pipes[s].data) :
            pipes' = [pipes EXCEPT ![s].data = SubSeq(@, n + 1, Len(@))]
    OBVIOUS
  <2>2. pipes[s].data \in Seq(Byte)
    BY DEF IInv, TypeOK
  <2>3. SubSeq(pipes[s].data, n + 1, Len(pipes[s].data)) \in Seq(Byte)
    BY <2>2
  <2>4. pipes' \in [Streams -> [data : Seq(Byte), open : BOOLEAN]]
    <3> DEFINE rest == SubSeq(pipes[s].data, n + 1, Len(pipes[s].data))
    <3>1. pipes' = [pipes EXCEPT ![s].data = rest] /\ rest \in Seq(Byte)
      BY <2>1, <2>3
    <3>2. pipes \in [Streams -> [data : Seq(Byte), open : BOOLEAN]]
      BY DEF IInv, TypeOK
    <3> HIDE DEF rest, Readable
    <3> QED
      BY <3>1, <3>2
  <2> QED
    BY <2>4 DEF IInv, TypeOK
<1>2. EndsInv'
  BY DEF IInv, TypeOK, EndsInv, Connected, Active, Over, Returned, WakeInv, AllEnded,
     NothingDangles, Streams
<1>3. WakeInv' /\ WokenOnce'
  BY DEF IInv, TypeOK, EndsInv, Connected, Active, WakeInv, MutexInv, AllEnded,
     NothingDangles, WokenOnce, Streams
<1>4. MutexInv'
  BY DEF IInv, TypeOK, MutexInv, EndsInv, WakeInv, AllEnded, Active, Connected,
     NothingDangles, Streams
<1>5. NothingDangles'
  BY DEF IInv, TypeOK, NothingDangles, MutexInv, WakeInv, EndsInv, AllEnded, Active,
     Connected, Streams
<1> QED
  BY <1>1, <1>2, <1>3, <1>4, <1>5 DEF IInv

\* The end of a pipe may be the last of the three ends.
LEMMA execute_command_eofKeeps ==
    ASSUME IInv, NEW s \in Streams, execute_command_eof(s)
    PROVE  IInv'
<1> USE ScriptsAssumption DEF execute_command_eof, Dispatching, Wake, vars, child, user,
   io, This, Background, Foreground
<1> DEFINE last == cmd.pipecount = 1 /\ ~cmd.running
<1>a. caller \in {"half", "connected", "waiting"}
  BY DEF IInv, EndsInv, Connected, NothingDangles, TypeOK
<1>b. /\ main = "idle" /\ ~AllEnded /\ ~woken
      /\ cmd \in [running : BOOLEAN, pipecount : 0 .. 2, exit_status : Int]
      /\ cmd.pipecount \in 1 .. 2 /\ s \in Connected /\ s \in watching
      /\ pipes[s] = [data |-> <<>>, open |-> FALSE]
  <2>1. s \in Connected /\ s \in watching
    BY DEF IInv, EndsInv
  <2>2. /\ cmd \in [running : BOOLEAN, pipecount : 0 .. 2, exit_status : Int]
        /\ cmd.pipecount \in 1 .. 2
    BY <1>a, <2>1 DEF IInv, TypeOK, EndsInv, Active, Streams
  <2>3. ~AllEnded
    BY <2>2 DEF AllEnded
  <2>4. pipes[s] = [data |-> <<>>, open |-> FALSE]
    BY DEF IInv, TypeOK
  <2> QED
    BY <2>1, <2>2, <2>3, <2>4 DEF IInv, WakeInv
<1>c. cmd' = [cmd EXCEPT !.pipecount = cmd.pipecount - 1] /\ watching' = watching \ {s}
  OBVIOUS
<1>d. /\ cmd'.pipecount = cmd.pipecount - 1 /\ cmd'.running = cmd.running
      /\ cmd'.exit_status = cmd.exit_status
      /\ cmd' \in [running : BOOLEAN, pipecount : 0 .. 2, exit_status : Int]
  BY <1>b, <1>c
<1>1. TypeOK'
  <2>1. woken' \in BOOLEAN /\ stray' \in BOOLEAN /\ main' \in {"idle", "locking",
     "unlocking"}
    BY <1>b, Zenon DEF IInv, TypeOK
  <2> QED
    BY <1>d, <2>1 DEF IInv, TypeOK
<1>2. EndsInv'
  <2>1. Connected' = Connected /\ Active' /\ Active /\ ~Returned'
    BY <1>a DEF Connected, Active, Returned
  <2>2. /\ watching' \subseteq Connected'
        /\ cmd'.running = child_watch'
        /\ ~child_watch' => process' = "ended" /\ cmd'.exit_status = status'
    BY <1>b, <1>c, <1>d, <2>1 DEF IInv, EndsInv
  <2>3. \A r \in Connected' \ watching' : pipes'[r] = [data |-> <<>>, open |-> FALSE]
    BY <1>b, <1>c, <2>1 DEF IInv, EndsInv
  <2>4. cmd.pipecount = (IF "out" \in Connected \ watching THEN 0 ELSE 1)
                        + (IF "err" \in Connected \ watching THEN 0 ELSE 1)
    BY <2>1 DEF IInv, EndsInv
  <2>5. cmd'.pipecount = (IF "out" \in Connected' \ watching' THEN 0 ELSE 1)
                         + (IF "err" \in Connected' \ watching' THEN 0 ELSE 1)
    <3>1. CASE s = "out"
      BY <3>1, <1>b, <1>c, <1>d, <2>1, <2>4
    <3>2. CASE s = "err"
      BY <3>2, <1>b, <1>c, <1>d, <2>1, <2>4
    <3> QED
      BY <3>1, <3>2 DEF Streams
  <2> QED
    BY <2>1, <2>2, <2>3, <2>5 DEF EndsInv
<1>3. WakeInv' /\ WokenOnce'
  <2>1. AllEnded' <=> last
    BY <1>a, <1>b, <1>d DEF AllEnded, Active
  <2>2. main' = (IF last /\ Background THEN "locking" ELSE main)
        /\ woken' = (woken \/ (last /\ Foreground))
        /\ stray' = (stray \/ (last /\ Foreground /\ woken))
        /\ Background' = Background
    OBVIOUS
  <2> HIDE DEF last
  <2> QED
    BY <1>b, <2>1, <2>2 DEF IInv, WakeInv, WokenOnce, TypeOK
<1>4. MutexInv'
  BY DEF IInv, TypeOK, MutexInv, EndsInv, WakeInv, AllEnded, Active, Connected,
     NothingDangles, Streams
<1>5. NothingDangles'
  BY DEF IInv, TypeOK, NothingDangles, MutexInv, WakeInv, EndsInv, AllEnded, Active,
     Connected, Streams
<1> QED
  BY <1>1, <1>2, <1>3, <1>4, <1>5 DEF IInv

\* The caller waits when it is signalled.
LEMMA SignalKeeps ==
    ASSUME IInv, Signal
    PROVE  IInv'
<1> USE ScriptsAssumption DEF Signal, vars, child, user, io, This, Background, Foreground
<1>1. TypeOK'
  BY DEF IInv, TypeOK, EndsInv, Commands
<1>2. EndsInv'
  BY DEF IInv, TypeOK, EndsInv, Connected, Active, Over, Returned, WakeInv, AllEnded,
     NothingDangles, Streams
<1>3. WakeInv' /\ WokenOnce'
  BY DEF IInv, TypeOK, EndsInv, Connected, Active, WakeInv, MutexInv, AllEnded,
     NothingDangles, WokenOnce, Streams
<1>4. MutexInv'
  BY DEF IInv, TypeOK, MutexInv, EndsInv, WakeInv, AllEnded, Active, Connected,
     NothingDangles, Streams
<1>5. NothingDangles'
  BY DEF IInv, TypeOK, NothingDangles, MutexInv, WakeInv, EndsInv, AllEnded, Active,
     Connected, Streams
<1> QED
  BY <1>1, <1>2, <1>3, <1>4, <1>5 DEF IInv

\* The mutex is free again.
LEMMA UnlockKeeps ==
    ASSUME IInv, Unlock
    PROVE  IInv'
<1> USE ScriptsAssumption DEF Unlock, vars, child, user, io, This, Background, Foreground
<1>1. TypeOK'
  BY DEF IInv, TypeOK, EndsInv, Commands
<1>2. EndsInv'
  BY DEF IInv, TypeOK, EndsInv, Connected, Active, Over, Returned, WakeInv, AllEnded,
     NothingDangles, Streams
<1>3. WakeInv' /\ WokenOnce'
  BY DEF IInv, TypeOK, EndsInv, Connected, Active, WakeInv, MutexInv, AllEnded,
     NothingDangles, WokenOnce, Streams
<1>4. MutexInv'
  BY DEF IInv, TypeOK, MutexInv, EndsInv, WakeInv, AllEnded, Active, Connected,
     NothingDangles, Streams
<1>5. NothingDangles'
  BY DEF IInv, TypeOK, NothingDangles, MutexInv, WakeInv, EndsInv, AllEnded, Active,
     Connected, Streams
<1> QED
  BY <1>1, <1>2, <1>3, <1>4, <1>5 DEF IInv

\* The end of the child changes what is reported later only.
LEMMA ChildEndsKeeps ==
    ASSUME IInv, ChildEnds
    PROVE  IInv'
<1> USE ScriptsAssumption DEF ChildEnds, vars, child, user, io, This, Background, Foreground
<1>1. TypeOK'
  <2>1. status' \in Int
    BY ThisIsACommand DEF IInv, Commands, SIGINT
  <2>2. pipes' \in [Streams -> [data : Seq(Byte), open : BOOLEAN]]
    <3>1. CASE UNCHANGED pipes
      BY <3>1 DEF IInv, TypeOK
    <3>2. CASE pipes' = [s \in Streams |-> [pipes[s] EXCEPT !.data = <<>>]]
      <4>1. \A s \in Streams :
              [pipes[s] EXCEPT !.data = <<>>] \in [data : Seq(Byte), open : BOOLEAN]
        <5>1. pipes \in [Streams -> [data : Seq(Byte),
           open : BOOLEAN]] /\ <<>> \in Seq(Byte)
          BY DEF IInv, TypeOK
        <5> QED
          BY <5>1
      <4> QED
        BY <3>2, <4>1
    <3> QED
      BY <3>1, <3>2
  <2> QED
    BY <2>1, <2>2 DEF IInv, TypeOK
<1>2. EndsInv'
  BY DEF IInv, TypeOK, EndsInv, Connected, Active, Over, Returned, WakeInv, AllEnded,
     NothingDangles, Streams
<1>3. WakeInv' /\ WokenOnce'
  BY DEF IInv, TypeOK, EndsInv, Connected, Active, WakeInv, MutexInv, AllEnded,
     NothingDangles, WokenOnce, Streams
<1>4. MutexInv'
  BY DEF IInv, TypeOK, MutexInv, EndsInv, WakeInv, AllEnded, Active, Connected,
     NothingDangles, Streams
<1>5. NothingDangles'
  BY DEF IInv, TypeOK, NothingDangles, MutexInv, WakeInv, EndsInv, AllEnded, Active,
     Connected, Streams
<1> QED
  BY <1>1, <1>2, <1>3, <1>4, <1>5 DEF IInv

\* A pipe which was still open has not been taken for ended.
LEMMA ClosePipeKeeps ==
    ASSUME IInv, NEW s \in Streams, ClosePipe(s)
    PROVE  IInv'
<1> USE ScriptsAssumption DEF ClosePipe, vars, child, user, io, This, Background, Foreground
<1>1. TypeOK'
  <2>1. pipes' \in [Streams -> [data : Seq(Byte), open : BOOLEAN]]
    BY DEF IInv, TypeOK
  <2> QED
    BY <2>1 DEF IInv, TypeOK
<1>2. EndsInv'
  BY DEF IInv, TypeOK, EndsInv, Connected, Active, Over, Returned, WakeInv, AllEnded,
     NothingDangles, Streams
<1>3. WakeInv' /\ WokenOnce'
  BY DEF IInv, TypeOK, EndsInv, Connected, Active, WakeInv, MutexInv, AllEnded,
     NothingDangles, WokenOnce, Streams
<1>4. MutexInv'
  BY DEF IInv, TypeOK, MutexInv, EndsInv, WakeInv, AllEnded, Active, Connected,
     NothingDangles, Streams
<1>5. NothingDangles'
  BY DEF IInv, TypeOK, NothingDangles, MutexInv, WakeInv, EndsInv, AllEnded, Active,
     Connected, Streams
<1> QED
  BY <1>1, <1>2, <1>3, <1>4, <1>5 DEF IInv

\* A cancel interrupts the child and wakes nobody.
LEMMA PressCancelKeeps ==
    ASSUME IInv, PressCancel
    PROVE  IInv'
<1> USE ScriptsAssumption DEF PressCancel, EmitCancel, InOperation, vars, child, user,
   io, This, Background, Foreground
<1>1. TypeOK'
  BY DEF IInv, TypeOK, EndsInv, Commands
<1>2. EndsInv'
  BY DEF IInv, TypeOK, EndsInv, Connected, Active, Over, Returned, WakeInv, AllEnded,
     NothingDangles, Streams
<1>3. WakeInv' /\ WokenOnce'
  BY DEF IInv, TypeOK, EndsInv, Connected, Active, WakeInv, MutexInv, AllEnded,
     NothingDangles, WokenOnce, Streams
<1>4. MutexInv'
  BY DEF IInv, TypeOK, MutexInv, EndsInv, WakeInv, AllEnded, Active, Connected,
     NothingDangles, Streams
<1>5. NothingDangles'
  BY DEF IInv, TypeOK, NothingDangles, MutexInv, WakeInv, EndsInv, AllEnded, Active,
     Connected, Streams
<1> QED
  BY <1>1, <1>2, <1>3, <1>4, <1>5 DEF IInv

\* The question is asked while the caller waits.
LEMMA PressForceCancelKeeps ==
    ASSUME IInv, PressForceCancel
    PROVE  IInv'
<1> USE ScriptsAssumption DEF PressForceCancel, InOperation, vars, child, user, io, This,
   Background, Foreground
<1>1. TypeOK'
  BY DEF IInv, TypeOK, EndsInv, Commands
<1>2. EndsInv'
  BY DEF IInv, TypeOK, EndsInv, Connected, Active, Over, Returned, WakeInv, AllEnded,
     NothingDangles, Streams
<1>3. WakeInv' /\ WokenOnce'
  BY DEF IInv, TypeOK, EndsInv, Connected, Active, WakeInv, MutexInv, AllEnded,
     NothingDangles, WokenOnce, Streams
<1>4. MutexInv'
  BY DEF IInv, TypeOK, MutexInv, EndsInv, WakeInv, AllEnded, Active, Connected,
     NothingDangles, Streams
<1>5. NothingDangles'
  BY DEF IInv, TypeOK, NothingDangles, MutexInv, WakeInv, EndsInv, AllEnded, Active,
     Connected, Streams
<1> QED
  BY <1>1, <1>2, <1>3, <1>4, <1>5 DEF IInv

\* The answer may interrupt the child, and wakes nobody.
LEMMA AnswerKeeps ==
    ASSUME IInv, Answer
    PROVE  IInv'
<1> USE ScriptsAssumption DEF Answer, EmitCancel, vars, child, user, io, This,
   Background, Foreground
<1>1. TypeOK'
  <2>1. interrupted' \in BOOLEAN
    BY Zenon DEF IInv, TypeOK
  <2>2. cancelflag' \in 0 .. 2
    <3>1. cancelflag' = 2 \/ cancelflag' = cancelflag
      BY Zenon
    <3> QED
      BY <3>1 DEF IInv, TypeOK
  <2> QED
    BY <2>1, <2>2, ZenonT(60) DEF IInv, TypeOK
<1>2. EndsInv'
  BY DEF IInv, TypeOK, EndsInv, Connected, Active, Over, Returned, WakeInv, AllEnded,
     NothingDangles, Streams
<1>3. WakeInv' /\ WokenOnce'
  BY DEF IInv, TypeOK, EndsInv, Connected, Active, WakeInv, MutexInv, AllEnded,
     NothingDangles, WokenOnce, Streams
<1>4. MutexInv'
  BY DEF IInv, TypeOK, MutexInv, EndsInv, WakeInv, AllEnded, Active, Connected,
     NothingDangles, Streams
<1>5. NothingDangles'
  BY DEF IInv, TypeOK, NothingDangles, MutexInv, WakeInv, EndsInv, AllEnded, Active,
     Connected, Streams
<1> QED
  BY <1>1, <1>2, <1>3, <1>4, <1>5 DEF IInv

----------------------------------------------------------------------------
(* The invariant, and what follows from it.                                *)

\* Before the first command nothing is waited for.
LEMMA InitIInv == Init => IInv
<1> SUFFICES ASSUME Init PROVE IInv
  OBVIOUS
<1>1. script \in Seq(Commands) /\ script # <<>>
  BY ScriptsAssumption DEF Init
<1>2. current \in 1 .. Len(script)
  BY <1>1 DEF Init
<1>3. pipes \in [Streams -> [data : Seq(Byte), open : BOOLEAN]]
  BY DEF Init
<1>4. TypeOK
  <2>1. cmd \in [running : BOOLEAN, pipecount : 0 .. 2, exit_status : Int]
    BY DEF Init
  <2> QED
    BY <1>2, <1>3, <2>1 DEF Init, TypeOK
<1> QED
  BY <1>4 DEF Init, IInv, EndsInv, WakeInv, MutexInv, WokenOnce, NothingDangles,
              AllEnded, Active, Connected, Returned

\* No step of any actor breaks the invariant.
LEMMA NextIInv == IInv /\ [Next]_vars => IInv'
<1> SUFFICES ASSUME IInv, [Next]_vars PROVE IInv'
  OBVIOUS
<1>1. CASE Caller
  BY <1>1, SpawnKeeps, SpawnFailsKeeps, ConnectKeeps, LockKeeps, ConnectOutputKeeps,
     ConnectErrorKeeps, WaitKeeps, LeaveLoopKeeps, WakeUpKeeps, NextCommandKeeps
     DEF Caller
<1>2. CASE MainLoop
  BY <1>2, store_exit_statusKeeps, ReadableKeeps, execute_command_eofKeeps,
     SignalKeeps, UnlockKeeps DEF MainLoop
<1>3. CASE User
  BY <1>3, PressCancelKeeps, PressForceCancelKeeps, AnswerKeeps DEF User
<1>4. CASE ChildEnds
  BY <1>4, ChildEndsKeeps
<1>5. CASE \E s \in Streams : ClosePipe(s)
  BY <1>5, ClosePipeKeeps
<1>6. CASE UNCHANGED vars
  BY <1>6 DEF vars, child, user, io, IInv, TypeOK, EndsInv, WakeInv, MutexInv, WokenOnce,
              NothingDangles, AllEnded, Active, Connected, Returned, Over, This,
              Background, Foreground
<1> QED
  BY <1>1, <1>2, <1>3, <1>4, <1>5, <1>6 DEF Next, Ends

\* The invariant holds of every sequence of commands.
THEOREM Invariance == Spec => []IInv
  BY InitIInv, NextIInv, PTL DEF Spec

\* The state of a command and of its caller keeps its types.
THEOREM TypeCorrect == Spec => []TypeOK
<1>1. IInv => TypeOK
  BY DEF IInv
<1> QED
  BY <1>1, Invariance, PTL

\* Whatever the order in which the exit status and the ends of both pipes
\* arrive, one of them wakes the caller, and it waits when it is woken.
THEOREM CallerWokenOnce == Spec => []WokenOnce
<1>1. IInv => WokenOnce
  BY DEF IInv
<1> QED
  BY <1>1, Invariance, PTL

\* No callback and no dialog is left when the call returns, and the mutex of
\* the scanning thread is free when it goes away.
THEOREM NoCallbackDangles == Spec => []NothingDangles
<1>1. IInv => NothingDangles
  BY DEF IInv
<1> QED
  BY <1>1, Invariance, PTL

\* A call returns the status the child has ended with, after all its output has
\* been read.
THEOREM ReturnsWhenOver == Spec => [](Returned => Over)
<1>1. IInv => (Returned => Over)
  BY DEF IInv, EndsInv
<1> QED
  BY <1>1, Invariance, PTL

----------------------------------------------------------------------------
(* The folds of PipeCapture take in one character after the other.         *)

CaptureRecords ==
    [readbuf : Seq(Byte), linevec : Seq(Byte), cursor : Nat,
     capturebuf : Seq(Byte), line_start : Nat, callerbuf : Seq(Byte)]

Captures == {pc \in CaptureRecords : pc.line_start <= Len(pc.capturebuf)}

\* The first elements of a sequence are what they are in it.
LEMMA BeginningIsSeq ==
    ASSUME NEW B, NEW s \in Seq(B), NEW n \in Nat, n <= Len(s)
    PROVE  /\ SubSeq(s, 1, n) \in Seq(B)
           /\ Len(SubSeq(s, 1, n)) = n
           /\ \A i \in 1 .. n : SubSeq(s, 1, n)[i] = s[i]
OBVIOUS

\* The line discipline keeps the types of a capture.
LEMMA PutIsCapture ==
    ASSUME NEW pc \in Captures, NEW c \in Byte
    PROVE  Put(pc, c) \in Captures
<1>0. pc \in CaptureRecords /\ pc.line_start <= Len(pc.capturebuf)
  BY DEF Captures
<1>1. CASE c \in {"backspace", "return", "ctrl"}
  <2>1. PICK k \in Nat : Put(pc, c) = [pc EXCEPT !.cursor = k]
    <3>1. CASE c = "backspace"
      <4>1. Put(pc, c) = [pc EXCEPT !.cursor = IF pc.cursor > 0 THEN pc.cursor - 1 ELSE 0]
        BY <1>0, <3>1 DEF Put
      <4>2. (IF pc.cursor > 0 THEN pc.cursor - 1 ELSE 0) \in Nat
        BY <1>0 DEF CaptureRecords
      <4> QED
        BY <4>1, <4>2
    <3>2. CASE c = "return"
      BY <3>2 DEF Put
    <3>3. CASE c = "ctrl"
      <4>1. Put(pc, c) = [pc EXCEPT !.cursor = pc.cursor] /\ pc.cursor \in Nat
        BY <1>0, <3>3 DEF Put, CaptureRecords
      <4> QED
        BY <4>1
    <3> QED
      BY <1>1, <3>1, <3>2, <3>3
  <2>2. Put(pc, c) \in CaptureRecords
    BY <1>0, <2>1 DEF CaptureRecords
  <2>3. /\ Put(pc, c).line_start = pc.line_start
        /\ Put(pc, c).capturebuf = pc.capturebuf
    BY <1>0, <2>1 DEF CaptureRecords
  <2> QED
    BY <1>0, <2>2, <2>3 DEF Captures
<1>2. CASE c = "newline"
  <2> DEFINE line == Append(pc.linevec, c)
             text == SubSeq(pc.capturebuf, 1, pc.line_start) \o line
  <2>1. Put(pc, c) = [pc EXCEPT !.capturebuf = text, !.line_start = Len(text),
                                !.linevec = <<>>, !.cursor = 0]
    BY <1>0, <1>2 DEF Put, Paste, CaptureRecords
  <2>2. text \in Seq(Byte) /\ Len(text) \in Nat
    BY <1>0, BeginningIsSeq DEF CaptureRecords
  <2> HIDE DEF text
  <2>3. Put(pc, c) \in CaptureRecords
    <3>1. Put(pc, c) = [readbuf |-> pc.readbuf, linevec |-> <<>>, cursor |-> 0,
                        capturebuf |-> text, line_start |-> Len(text),
                        callerbuf |-> pc.callerbuf]
      BY <1>0, <2>1 DEF CaptureRecords
    <3>2. pc.readbuf \in Seq(Byte) /\ pc.callerbuf \in Seq(Byte) /\ <<>> \in Seq(Byte)
      BY <1>0 DEF CaptureRecords
    <3> QED
      BY <2>2, <3>1, <3>2 DEF CaptureRecords
  <2>4. Put(pc, c).line_start = Len(text) /\ Put(pc, c).capturebuf = text
    BY <1>0, <2>1 DEF CaptureRecords
  <2> QED
    BY <2>2, <2>3, <2>4 DEF Captures
<1>3. CASE c \notin {"backspace", "return", "newline", "ctrl"}
  <2> DEFINE line == IF pc.cursor < Len(pc.linevec)
                     THEN [pc.linevec EXCEPT ![pc.cursor + 1] = c]
                     ELSE Append(pc.linevec, c)
  <2>1. Put(pc, c) = [pc EXCEPT !.linevec = line, !.cursor = @ + 1]
    BY <1>0, <1>3 DEF Put, CaptureRecords
  <2>2. line \in Seq(Byte) /\ pc.cursor + 1 \in Nat
    BY <1>0 DEF CaptureRecords
  <2> HIDE DEF line
  <2>3. Put(pc, c) \in CaptureRecords
    BY <1>0, <2>1, <2>2 DEF CaptureRecords
  <2>4. /\ Put(pc, c).line_start = pc.line_start
        /\ Put(pc, c).capturebuf = pc.capturebuf
    BY <1>0, <2>1 DEF CaptureRecords
  <2> QED
    BY <1>0, <2>3, <2>4 DEF Captures
<1> QED
  BY <1>1, <1>2, <1>3

PutBy == [c \in Byte |-> [pc \in Captures |-> Put(pc, c)]]

\* Put() character after character is the result of a table.
LEMMA PutFolds ==
    ASSUME NEW b \in Captures, NEW s \in Seq(Byte)
    PROVE  /\ FoldLeft(Put, b, s) = Result(PutBy, Captures, b, s)
           /\ Result(PutBy, Captures, b, s) \in Captures
<1> DEFINE n == Len(s)
           G == Taking(PutBy, s)
           t == Table(PutBy, Captures, b, s)
           IsIt(u) == u = [S \in SUBSET DOMAIN s |->
                              IF S = {} THEN b ELSE Put(u[S \ {Max(S)}], s[Max(S)])]
           it == CHOOSE u : IsIt(u)
<1>1. PutBy \in [Byte -> [Captures -> Captures]]
  BY PutIsCapture DEF PutBy
<1>2. IsTableIn(t, Captures, n, b, G) /\ n \in Nat /\ DOMAIN s = 1 .. n
  BY <1>1, TableIs
<1>3. \A i \in 1 .. n, a \in Captures : G[i][a] = Put(a, s[i])
  <2>1. \A i \in 1 .. n : s[i] \in Byte /\ G[i] = PutBy[s[i]]
    BY DEF Taking
  <2>2. \A c \in Byte, a \in Captures : PutBy[c][a] = Put(a, c)
    BY DEF PutBy
  <2> HIDE DEF G, n
  <2> QED
    BY <2>1, <2>2
<1> HIDE DEF G, n, t
<1>4. IsIt(t)
  <2>1. ASSUME NEW S \in SUBSET (1 .. n)
        PROVE  t[S] = IF S = {} THEN b ELSE Put(t[S \ {Max(S)}], s[Max(S)])
    <3>1. CASE S = {}
      BY <1>2, <3>1 DEF IsTableIn, IsTable
    <3>2. CASE S # {}
      <4>1. Max(S) \in 1 .. n /\ S \ {Max(S)} \in SUBSET (1 .. n)
        BY <1>2, <3>2, LargestOf
      <4>2. t[S \ {Max(S)}] \in Captures
        BY <1>2, <4>1 DEF IsTableIn
      <4>3. t[S] = G[Max(S)][t[S \ {Max(S)}]]
        BY <1>2, <3>2 DEF IsTableIn, IsTable
      <4> QED
        BY <1>3, <3>2, <4>1, <4>2, <4>3
    <3> QED
      BY <3>1, <3>2
  <2>2. t = [S \in SUBSET (1 .. n) |-> t[S]]
    BY <1>2 DEF IsTableIn
  <2> QED
    BY <1>2, <2>1, <2>2
<1>5. IsIt(it)
  <2> HIDE DEF IsIt
  <2> QED
    BY <1>4, Zenon
<1>6. Follows(it, Captures, n, b, G)
  <2>1. it = [S \in SUBSET (1 .. n) |->
                 IF S = {} THEN b ELSE Put(it[S \ {Max(S)}], s[Max(S)])]
    BY <1>2, <1>5
  <2> HIDE DEF it, IsIt
  <2>2. it[{}] = b
    BY <2>1
  <2>3. ASSUME NEW S \in SUBSET (1 .. n), S # {}, it[S \ {Max(S)}] \in Captures
        PROVE  it[S] = G[Max(S)][it[S \ {Max(S)}]]
    <3>1. Max(S) \in 1 .. n
      BY <1>2, <2>3, LargestOf
    <3>2. it[S] = Put(it[S \ {Max(S)}], s[Max(S)])
      BY <2>1, <2>3
    <3> QED
      BY <1>3, <2>3, <3>1, <3>2
  <2> QED
    BY <2>2, <2>3 DEF Follows
<1>7. FoldLeft(Put, b, s) = it[DOMAIN s]
  BY Zenon DEF FoldLeft, MapThenFoldSet
<1>8. it[1 .. n] = Result(PutBy, Captures, b, s) /\ Result(PutBy, Captures, b, s) \in Captures
  <2> HIDE DEF it
  <2> QED
    BY <1>1, <1>6, ResultIs DEF n, G
<1> QED
  BY <1>2, <1>7, <1>8

\* The last character of a text is put after all before it.
LEMMA PutSteps ==
    ASSUME NEW b \in Captures
    PROVE  /\ FoldLeft(Put, b, <<>>) = b
           /\ \A s \in Seq(Byte) : FoldLeft(Put, b, s) \in Captures
           /\ \A s \in Seq(Byte), c \in Byte :
                  FoldLeft(Put, b, Append(s, c)) = Put(FoldLeft(Put, b, s), c)
<1>1. PutBy \in [Byte -> [Captures -> Captures]] /\ <<>> \in Seq(Byte)
  BY PutIsCapture DEF PutBy
<1>2. \A s \in Seq(Byte) : /\ FoldLeft(Put, b, s) = Result(PutBy, Captures, b, s)
                           /\ Result(PutBy, Captures, b, s) \in Captures
  BY PutFolds
<1>3. ASSUME NEW s \in Seq(Byte), NEW c \in Byte
      PROVE  FoldLeft(Put, b, Append(s, c)) = Put(FoldLeft(Put, b, s), c)
  <2>1. Append(s, c) \in Seq(Byte)
    OBVIOUS
  <2>2. FoldLeft(Put, b, Append(s, c)) = Result(PutBy, Captures, b, Append(s, c))
    BY <1>2, <2>1
  <2>3. Result(PutBy, Captures, b, Append(s, c)) = PutBy[c][Result(PutBy, Captures, b, s)]
    BY <1>1, ResultAppend
  <2> QED
    BY <1>2, <2>2, <2>3 DEF PutBy
<1> QED
  BY <1>1, <1>2, <1>3, ResultEmpty

Texts == Seq(Byte)

\* What stands for a character, or for its absence
Found == Byte \union {"INVALID", "PARTIAL"}

\* The text decoded so far stays one.
LEMMA KeepIsTyped ==
    ASSUME NEW text \in Texts, NEW c \in Found
    PROVE  Keep(text, c) \in Texts
BY DEF Keep, Texts, Found

KeepBy == [c \in Found |-> [pc \in Texts |-> Keep(pc, c)]]

\* Keep() character after character is the result of a table.
LEMMA KeepFolds ==
    ASSUME NEW b \in Texts, NEW s \in Seq(Found)
    PROVE  /\ FoldLeft(Keep, b, s) = Result(KeepBy, Texts, b, s)
           /\ Result(KeepBy, Texts, b, s) \in Texts
<1> DEFINE n == Len(s)
           G == Taking(KeepBy, s)
           t == Table(KeepBy, Texts, b, s)
           IsIt(u) == u = [S \in SUBSET DOMAIN s |->
                              IF S = {} THEN b ELSE Keep(u[S \ {Max(S)}], s[Max(S)])]
           it == CHOOSE u : IsIt(u)
<1>1. KeepBy \in [Found -> [Texts -> Texts]]
  BY KeepIsTyped DEF KeepBy
<1>2. IsTableIn(t, Texts, n, b, G) /\ n \in Nat /\ DOMAIN s = 1 .. n
  BY <1>1, TableIs
<1>3. \A i \in 1 .. n, a \in Texts : G[i][a] = Keep(a, s[i])
  <2>1. \A i \in 1 .. n : s[i] \in Found /\ G[i] = KeepBy[s[i]]
    BY DEF Taking
  <2>2. \A c \in Found, a \in Texts : KeepBy[c][a] = Keep(a, c)
    BY DEF KeepBy
  <2> HIDE DEF G, n
  <2> QED
    BY <2>1, <2>2
<1> HIDE DEF G, n, t
<1>4. IsIt(t)
  <2>1. ASSUME NEW S \in SUBSET (1 .. n)
        PROVE  t[S] = IF S = {} THEN b ELSE Keep(t[S \ {Max(S)}], s[Max(S)])
    <3>1. CASE S = {}
      BY <1>2, <3>1 DEF IsTableIn, IsTable
    <3>2. CASE S # {}
      <4>1. Max(S) \in 1 .. n /\ S \ {Max(S)} \in SUBSET (1 .. n)
        BY <1>2, <3>2, LargestOf
      <4>2. t[S \ {Max(S)}] \in Texts
        BY <1>2, <4>1 DEF IsTableIn
      <4>3. t[S] = G[Max(S)][t[S \ {Max(S)}]]
        BY <1>2, <3>2 DEF IsTableIn, IsTable
      <4> QED
        BY <1>3, <3>2, <4>1, <4>2, <4>3
    <3> QED
      BY <3>1, <3>2
  <2>2. t = [S \in SUBSET (1 .. n) |-> t[S]]
    BY <1>2 DEF IsTableIn
  <2> QED
    BY <1>2, <2>1, <2>2
<1>5. IsIt(it)
  <2> HIDE DEF IsIt
  <2> QED
    BY <1>4, Zenon
<1>6. Follows(it, Texts, n, b, G)
  <2>1. it = [S \in SUBSET (1 .. n) |->
                 IF S = {} THEN b ELSE Keep(it[S \ {Max(S)}], s[Max(S)])]
    BY <1>2, <1>5
  <2> HIDE DEF it, IsIt
  <2>2. it[{}] = b
    BY <2>1
  <2>3. ASSUME NEW S \in SUBSET (1 .. n), S # {}, it[S \ {Max(S)}] \in Texts
        PROVE  it[S] = G[Max(S)][it[S \ {Max(S)}]]
    <3>1. Max(S) \in 1 .. n
      BY <1>2, <2>3, LargestOf
    <3>2. it[S] = Keep(it[S \ {Max(S)}], s[Max(S)])
      BY <2>1, <2>3
    <3> QED
      BY <1>3, <2>3, <3>1, <3>2
  <2> QED
    BY <2>2, <2>3 DEF Follows
<1>7. FoldLeft(Keep, b, s) = it[DOMAIN s]
  BY Zenon DEF FoldLeft, MapThenFoldSet
<1>8. it[1 .. n] = Result(KeepBy, Texts, b, s) /\ Result(KeepBy, Texts, b, s) \in Texts
  <2> HIDE DEF it
  <2> QED
    BY <1>1, <1>6, ResultIs DEF n, G
<1> QED
  BY <1>2, <1>7, <1>8

\* The last character of a text is decoded after all before it.
LEMMA KeepSteps ==
    ASSUME NEW b \in Texts
    PROVE  /\ FoldLeft(Keep, b, <<>>) = b
           /\ \A s \in Seq(Found) : FoldLeft(Keep, b, s) \in Texts
           /\ \A s \in Seq(Found), c \in Found :
                  FoldLeft(Keep, b, Append(s, c)) = Keep(FoldLeft(Keep, b, s), c)
<1>1. KeepBy \in [Found -> [Texts -> Texts]] /\ <<>> \in Seq(Found)
  BY KeepIsTyped DEF KeepBy
<1>2. \A s \in Seq(Found) : /\ FoldLeft(Keep, b, s) = Result(KeepBy, Texts, b, s)
                            /\ Result(KeepBy, Texts, b, s) \in Texts
  BY KeepFolds
<1>3. ASSUME NEW s \in Seq(Found), NEW c \in Found
      PROVE  FoldLeft(Keep, b, Append(s, c)) = Keep(FoldLeft(Keep, b, s), c)
  <2>1. Append(s, c) \in Seq(Found)
    OBVIOUS
  <2>2. FoldLeft(Keep, b, Append(s, c)) = Result(KeepBy, Texts, b, Append(s, c))
    BY <1>2, <2>1
  <2>3. Result(KeepBy, Texts, b, Append(s, c)) = KeepBy[c][Result(KeepBy, Texts, b, s)]
    BY <1>1, ResultAppend
  <2> QED
    BY <1>2, <2>2, <2>3 DEF KeepBy
<1> QED
  BY <1>1, <1>2, <1>3, ResultEmpty

Columns == Nat

\* The cursor stays in a column.
LEMMA MoveIsTyped ==
    ASSUME NEW n \in Columns, NEW c \in Byte
    PROVE  Move(n, c) \in Columns
BY DEF Move, Columns

MoveBy == [c \in Byte |-> [pc \in Columns |-> Move(pc, c)]]

\* Move() character after character is the result of a table.
LEMMA MoveFolds ==
    ASSUME NEW b \in Columns, NEW s \in Seq(Byte)
    PROVE  /\ FoldLeft(Move, b, s) = Result(MoveBy, Columns, b, s)
           /\ Result(MoveBy, Columns, b, s) \in Columns
<1> DEFINE n == Len(s)
           G == Taking(MoveBy, s)
           t == Table(MoveBy, Columns, b, s)
           IsIt(u) == u = [S \in SUBSET DOMAIN s |->
                              IF S = {} THEN b ELSE Move(u[S \ {Max(S)}], s[Max(S)])]
           it == CHOOSE u : IsIt(u)
<1>1. MoveBy \in [Byte -> [Columns -> Columns]]
  BY MoveIsTyped DEF MoveBy
<1>2. IsTableIn(t, Columns, n, b, G) /\ n \in Nat /\ DOMAIN s = 1 .. n
  BY <1>1, TableIs
<1>3. \A i \in 1 .. n, a \in Columns : G[i][a] = Move(a, s[i])
  <2>1. \A i \in 1 .. n : s[i] \in Byte /\ G[i] = MoveBy[s[i]]
    BY DEF Taking
  <2>2. \A c \in Byte, a \in Columns : MoveBy[c][a] = Move(a, c)
    BY DEF MoveBy
  <2> HIDE DEF G, n
  <2> QED
    BY <2>1, <2>2
<1> HIDE DEF G, n, t
<1>4. IsIt(t)
  <2>1. ASSUME NEW S \in SUBSET (1 .. n)
        PROVE  t[S] = IF S = {} THEN b ELSE Move(t[S \ {Max(S)}], s[Max(S)])
    <3>1. CASE S = {}
      BY <1>2, <3>1 DEF IsTableIn, IsTable
    <3>2. CASE S # {}
      <4>1. Max(S) \in 1 .. n /\ S \ {Max(S)} \in SUBSET (1 .. n)
        BY <1>2, <3>2, LargestOf
      <4>2. t[S \ {Max(S)}] \in Columns
        BY <1>2, <4>1 DEF IsTableIn
      <4>3. t[S] = G[Max(S)][t[S \ {Max(S)}]]
        BY <1>2, <3>2 DEF IsTableIn, IsTable
      <4> QED
        BY <1>3, <3>2, <4>1, <4>2, <4>3
    <3> QED
      BY <3>1, <3>2
  <2>2. t = [S \in SUBSET (1 .. n) |-> t[S]]
    BY <1>2 DEF IsTableIn
  <2> QED
    BY <1>2, <2>1, <2>2
<1>5. IsIt(it)
  <2> HIDE DEF IsIt
  <2> QED
    BY <1>4, Zenon
<1>6. Follows(it, Columns, n, b, G)
  <2>1. it = [S \in SUBSET (1 .. n) |->
                 IF S = {} THEN b ELSE Move(it[S \ {Max(S)}], s[Max(S)])]
    BY <1>2, <1>5
  <2> HIDE DEF it, IsIt
  <2>2. it[{}] = b
    BY <2>1
  <2>3. ASSUME NEW S \in SUBSET (1 .. n), S # {}, it[S \ {Max(S)}] \in Columns
        PROVE  it[S] = G[Max(S)][it[S \ {Max(S)}]]
    <3>1. Max(S) \in 1 .. n
      BY <1>2, <2>3, LargestOf
    <3>2. it[S] = Move(it[S \ {Max(S)}], s[Max(S)])
      BY <2>1, <2>3
    <3> QED
      BY <1>3, <2>3, <3>1, <3>2
  <2> QED
    BY <2>2, <2>3 DEF Follows
<1>7. FoldLeft(Move, b, s) = it[DOMAIN s]
  BY Zenon DEF FoldLeft, MapThenFoldSet
<1>8. it[1 .. n] = Result(MoveBy, Columns, b, s) /\ Result(MoveBy, Columns, b, s) \in Columns
  <2> HIDE DEF it
  <2> QED
    BY <1>1, <1>6, ResultIs DEF n, G
<1> QED
  BY <1>2, <1>7, <1>8

\* The last character of a line moves the cursor after all before it.
LEMMA MoveSteps ==
    ASSUME NEW b \in Columns
    PROVE  /\ FoldLeft(Move, b, <<>>) = b
           /\ \A s \in Seq(Byte) : FoldLeft(Move, b, s) \in Columns
           /\ \A s \in Seq(Byte), c \in Byte :
                  FoldLeft(Move, b, Append(s, c)) = Move(FoldLeft(Move, b, s), c)
<1>1. MoveBy \in [Byte -> [Columns -> Columns]] /\ <<>> \in Seq(Byte)
  BY MoveIsTyped DEF MoveBy
<1>2. \A s \in Seq(Byte) : /\ FoldLeft(Move, b, s) = Result(MoveBy, Columns, b, s)
                           /\ Result(MoveBy, Columns, b, s) \in Columns
  BY MoveFolds
<1>3. ASSUME NEW s \in Seq(Byte), NEW c \in Byte
      PROVE  FoldLeft(Move, b, Append(s, c)) = Move(FoldLeft(Move, b, s), c)
  <2>1. Append(s, c) \in Seq(Byte)
    OBVIOUS
  <2>2. FoldLeft(Move, b, Append(s, c)) = Result(MoveBy, Columns, b, Append(s, c))
    BY <1>2, <2>1
  <2>3. Result(MoveBy, Columns, b, Append(s, c)) = MoveBy[c][Result(MoveBy, Columns, b, s)]
    BY <1>1, ResultAppend
  <2> QED
    BY <1>2, <2>2, <2>3 DEF MoveBy
<1> QED
  BY <1>1, <1>2, <1>3, ResultEmpty

----------------------------------------------------------------------------
(* A line.                                                                 *)

\* A line and one character more.
LEMMA AppendIs ==
    ASSUME NEW line \in Seq(Byte), NEW c \in Byte
    PROVE  /\ Append(line, c) \in Seq(Byte) /\ Len(Append(line, c)) = Len(line) + 1
           /\ Append(line, c)[Len(line) + 1] = c
           /\ \A j \in 1 .. Len(line) : Append(line, c)[j] = line[j]
           /\ \A j \in 1 .. Len(line) + 1 :
                  SubSeq(Append(line, c), 1, j - 1) = SubSeq(line, 1, j - 1)
           /\ SubSeq(line, 1, Len(line)) = line
           /\ SubSeq(line, 1, 0) = <<>>
<1>1. /\ Append(line, c) \in Seq(Byte) /\ Len(Append(line, c)) = Len(line) + 1
      /\ Append(line, c)[Len(line) + 1] = c
      /\ \A j \in 1 .. Len(line) : Append(line, c)[j] = line[j]
  OBVIOUS
<1>2. SubSeq(line, 1, Len(line)) = line /\ SubSeq(line, 1, 0) = <<>>
  OBVIOUS
<1>3. ASSUME NEW j \in 1 .. Len(line) + 1
      PROVE  SubSeq(Append(line, c), 1, j - 1) = SubSeq(line, 1, j - 1)
  OBVIOUS
<1> QED
  BY <1>1, <1>2, <1>3

\* A line starts at its first column.
LEMMA ColumnStarts ==
    ASSUME NEW line \in Seq(Byte)
    PROVE  Column(line, 1) = 0
<1>1. SubSeq(line, 1, 1 - 1) = <<>>
  OBVIOUS
<1>2. FoldLeft(Move, 0, <<>>) = 0
  BY MoveSteps DEF Columns
<1> QED
  BY <1>1, <1>2 DEF Column

\* Columns in front of a character do not depend on it.
LEMMA ColumnIs ==
    ASSUME NEW line \in Seq(Byte), NEW c \in Byte
    PROVE  /\ Column(line, 1) = 0
           /\ Column(line, Len(line) + 1) \in Nat
           /\ \A j \in 1 .. Len(line) + 1 : Column(Append(line, c), j) = Column(line, j)
           /\ Column(Append(line, c), Len(line) + 2) = Move(Column(line, Len(line) + 1), c)
<1>1. 0 \in Columns /\ Columns = Nat
  BY DEF Columns
<1>2. Column(line, 1) = 0
  BY ColumnStarts
<1>3. \A j \in 1 .. Len(line) + 1 : Column(Append(line, c), j) = Column(line, j)
  BY AppendIs DEF Column
<1>4. Column(line, Len(line) + 1) = FoldLeft(Move, 0, line)
  <2>1. (Len(line) + 1) - 1 = Len(line)
    OBVIOUS
  <2> QED
    BY <2>1, AppendIs DEF Column
<1>5. Column(Append(line, c), Len(line) + 2) = FoldLeft(Move, 0, Append(line, c))
  <2>1. SubSeq(Append(line, c), 1, (Len(line) + 2) - 1) = Append(line, c)
    BY AppendIs
  <2> QED
    BY <2>1 DEF Column
<1>6. FoldLeft(Move, 0, Append(line, c)) = Move(FoldLeft(Move, 0, line), c)
      /\ FoldLeft(Move, 0, line) \in Columns
  BY <1>1, MoveSteps
<1> QED
  BY <1>1, <1>2, <1>3, <1>4, <1>5, <1>6

Latest(line, j, k) ==
    /\ Column(line, j) = k - 1
    /\ \A i \in Printed(line) : Column(line, i) = k - 1 => i <= j

\* vec is what the line shows, and the cursor is where it left it.
LineShown(line, vec, cursor) ==
    /\ vec \in Seq(Byte) /\ cursor \in 0 .. Len(vec)
    /\ Column(line, Len(line) + 1) = cursor
    /\ \A j \in Printed(line) : Column(line, j) \in 0 .. Len(vec) - 1
    /\ \A k \in 1 .. Len(vec) : \E j \in Printed(line) : Latest(line, j, k) /\ vec[k] = line[j]

Moves == {"backspace", "return", "ctrl"}

\* A character is written at the cursor.
Written(vec, cursor, c) ==
    IF c \in Moves THEN vec
    ELSE IF cursor < Len(vec) THEN [vec EXCEPT ![cursor + 1] = c]
    ELSE Append(vec, c)

\* Which characters of a line are printed.
LEMMA PrintedIs ==
    ASSUME NEW line \in Seq(Byte), NEW c \in Byte
    PROVE  /\ Printed(line) \subseteq 1 .. Len(line)
           /\ Printed(Append(line, c)) = Printed(line) \union
                                         (IF c \in Moves THEN {} ELSE {Len(line) + 1})
BY AppendIs DEF Printed, Moves

\* An empty line shows nothing.
LEMMA EmptyLineShown == LineShown(<<>>, <<>>, 0)
<1>1. <<>> \in Seq(Byte) /\ Len(<<>>) = 0
  OBVIOUS
<1>2. Printed(<<>>) = {}
  BY <1>1 DEF Printed
<1>3. Column(<<>>, 1) = 0
  BY <1>1, ColumnStarts
<1> QED
  BY <1>1, <1>2, <1>3 DEF LineShown

\* A character is written at the cursor, which moves, as a terminal does.
LEMMA LineGrows ==
    ASSUME NEW line \in Seq(Byte), NEW c \in Byte, NEW vec, NEW cursor,
           LineShown(line, vec, cursor)
    PROVE  LineShown(Append(line, c), Written(vec, cursor, c), Move(cursor, c))
<1> DEFINE new == Append(line, c)
           n == Len(line)
           m == Len(vec)
<1>1. /\ n \in Nat /\ m \in Nat /\ vec \in Seq(Byte) /\ cursor \in 0 .. m
      /\ Column(line, n + 1) = cursor
      /\ \A j \in Printed(line) : Column(line, j) \in 0 .. m - 1
      /\ \A k \in 1 .. m : \E j \in Printed(line) : Latest(line, j, k) /\ vec[k] = line[j]
  BY DEF LineShown
<1>2. /\ Printed(line) \subseteq 1 .. n
      /\ Len(new) = n + 1 /\ new[n + 1] = c
      /\ \A j \in Printed(line) : new[j] = line[j] /\ Column(new, j) = Column(line, j)
      /\ Column(new, n + 1) = cursor
      /\ Column(new, n + 2) = Move(cursor, c)
  <2>1. n + 1 \in 1 .. n + 1 /\ \A j \in 1 .. n : j \in 1 .. n + 1
    BY <1>1
  <2> QED
    BY <1>1, <2>1, AppendIs, ColumnIs, PrintedIs
<1> HIDE DEF new, n, m
<1>3. CASE c \in Moves
  <2>1. Printed(new) = Printed(line) /\ Written(vec, cursor, c) = vec
    BY <1>3, PrintedIs DEF new, Written
  <2>2. \A j \in Printed(line), k \in 1 .. m : Latest(line, j, k) => Latest(new, j, k)
    BY <1>2, <2>1 DEF Latest
  <2>3. Move(cursor, c) \in 0 .. m
    BY <1>1, <1>3 DEF Move, Moves
  <2>4. Column(new, Len(new) + 1) = Move(cursor, c)
    BY <1>1, <1>2
  <2>5. \A k \in 1 .. m : \E j \in Printed(new) : Latest(new, j, k) /\ vec[k] = new[j]
    BY <1>1, <1>2, <2>1, <2>2
  <2> QED
    BY <1>1, <1>2, <2>1, <2>3, <2>4, <2>5 DEF LineShown, new, m
<1>4. CASE c \notin Moves
  <2> DEFINE w == Written(vec, cursor, c)
  <2>1. Printed(new) = Printed(line) \union {n + 1}
    BY <1>4, PrintedIs DEF new, n
  <2>2. /\ w \in Seq(Byte) /\ w[cursor + 1] = c /\ Len(w) \in Nat
        /\ Len(w) = IF cursor < m THEN m ELSE m + 1
        /\ \A k \in 1 .. m : k # cursor + 1 => w[k] = vec[k]
    <3>1. CASE cursor < m
      BY <1>1, <1>4, <3>1 DEF Written, m
    <3>2. CASE ~(cursor < m)
      <4>1. w = Append(vec, c) /\ cursor = m /\ m = Len(vec)
        BY <1>1, <1>4, <3>2 DEF Written, m
      <4> HIDE DEF w
      <4>2. w \in Seq(Byte) /\ Len(w) = Len(vec) + 1 /\ w[Len(vec) + 1] = c
        BY <1>1, <4>1
      <4>3. \A k \in 1 .. Len(vec) : w[k] = vec[k]
        BY <1>1, <4>1
      <4> QED
        BY <1>1, <3>2, <4>1, <4>2, <4>3
    <3> QED
      BY <3>1, <3>2
  <2> HIDE DEF w
  <2>3. Move(cursor, c) = cursor + 1 /\ cursor + 1 \in 1 .. Len(w)
    BY <1>1, <1>4, <2>2 DEF Move, Moves
  <2>4. \A j \in Printed(new) : Column(new, j) \in 0 .. Len(w) - 1
    BY <1>1, <1>2, <2>1, <2>2
  <2>5. ASSUME NEW k \in 1 .. Len(w)
        PROVE  \E j \in Printed(new) : Latest(new, j, k) /\ w[k] = new[j]
    <3>1. CASE k = cursor + 1
      <4>1. Latest(new, n + 1, k)
        BY <1>1, <1>2, <2>1, <3>1 DEF Latest
      <4> QED
        BY <1>2, <2>1, <2>2, <3>1, <4>1
    <3>2. CASE k # cursor + 1
      <4>1. k \in 1 .. m
        BY <1>1, <2>2, <3>2
      <4>2. PICK j \in Printed(line) : Latest(line, j, k) /\ vec[k] = line[j]
        BY <1>1, <4>1
      <4>3. Latest(new, j, k)
        BY <1>1, <1>2, <2>1, <3>2, <4>1, <4>2 DEF Latest
      <4> QED
        BY <1>2, <2>1, <2>2, <3>2, <4>1, <4>2, <4>3
    <3> QED
      BY <3>1, <3>2
  <2>6. Column(new, Len(new) + 1) = Move(cursor, c)
    BY <1>1, <1>2
  <2> QED
    <3>1. cursor + 1 \in 0 .. Len(w)
      BY <1>1, <2>2, <2>3
    <3> QED
      BY <2>2, <2>3, <2>4, <2>5, <2>6, <3>1 DEF LineShown, new, w
<1> QED
  BY <1>3, <1>4

\* The latest characters printed at each column are what is shown.
LEMMA ShownIs ==
    ASSUME NEW line \in Seq(Byte), NEW vec, NEW cursor, LineShown(line, vec, cursor)
    PROVE  ShownLine(line) = vec
<1> DEFINE columns == {Column(line, j) : j \in Printed(line)}
           m == Len(vec)
           LastAt(k) == CHOOSE j \in Printed(line) :
                          /\ Column(line, j) = k - 1
                          /\ \A i \in Printed(line) : Column(line, i) = k - 1 => i <= j
<1>1. m \in Nat /\ vec \in Seq(Byte) /\ DOMAIN vec = 1 .. m
  BY DEF LineShown
<1>2. columns = 0 .. m - 1
  <2>1. columns \subseteq 0 .. m - 1
    BY DEF LineShown
  <2>2. \A x \in 0 .. m - 1 : \E j \in Printed(line) : Column(line, j) = x
    <3>1. \A x \in 0 .. m - 1 : x + 1 \in 1 .. m /\ (x + 1) - 1 = x
      BY <1>1
    <3> QED
      BY <3>1 DEF LineShown, Latest
  <2> QED
    BY <2>1, <2>2
<1>3. Cardinality(columns) = m
  <2>1. m - 1 \in Int /\ 0 \in Int
    BY <1>1
  <2>2. Cardinality(0 .. m - 1) = IF 0 > m - 1 THEN 0 ELSE (m - 1) - 0 + 1
    BY <2>1, FS_Interval
  <2> HIDE DEF columns
  <2> QED
    BY <1>1, <1>2, <2>2
<1>4. ASSUME NEW k \in 1 .. m
      PROVE  line[LastAt(k)] = vec[k]
  <2>1. PICK j \in Printed(line) : Latest(line, j, k) /\ vec[k] = line[j]
    BY DEF LineShown
  <2>2. LastAt(k) \in Printed(line) /\ Latest(line, LastAt(k), k)
    BY <2>1 DEF Latest
  <2>3. Printed(line) \subseteq Int
    BY DEF Printed
  <2>4. LastAt(k) = j
    BY <2>1, <2>2, <2>3 DEF Latest
  <2> QED
    BY <2>1, <2>4
<1>5. ShownLine(line) = [k \in 1 .. Cardinality(columns) |-> line[LastAt(k)]]
  BY DEF ShownLine
<1> HIDE DEF columns, Last, m
<1>6. ShownLine(line) = [k \in 1 .. m |-> vec[k]]
  BY <1>3, <1>4, <1>5
<1> QED
  BY <1>1, <1>6

\* Every line is shown as something.
LEMMA EveryLineShown ==
    ASSUME NEW line \in Seq(Byte)
    PROVE  \E vec, cursor : LineShown(line, vec, cursor)
<1> DEFINE P(n) == n <= Len(line) => \E vec, cursor : LineShown(SubSeq(line, 1, n), vec, cursor)
           T == {n \in Nat : P(n)}
<1>1. P(0)
  <2>1. SubSeq(line, 1, 0) = <<>>
    OBVIOUS
  <2> QED
    BY <2>1, EmptyLineShown
<1>2. ASSUME NEW n \in Nat, P(n)
      PROVE  P(n + 1)
  <2>1. ASSUME n + 1 <= Len(line)
        PROVE  \E vec, cursor : LineShown(SubSeq(line, 1, n + 1), vec, cursor)
    <3>1. n <= Len(line) /\ n + 1 \in 1 .. Len(line)
      BY <2>1
    <3>2. PICK vec, cursor : LineShown(SubSeq(line, 1, n), vec, cursor)
      BY <1>2, <3>1
    <3>3. SubSeq(line, 1, n) \in Seq(Byte) /\ line[n + 1] \in Byte
      BY <3>1, BeginningIsSeq
    <3>4. SubSeq(line, 1, n + 1) = Append(SubSeq(line, 1, n), line[n + 1])
      BY <3>1
    <3> QED
      BY <3>2, <3>3, <3>4, LineGrows
  <2> QED
    BY <2>1
<1>3. \A n \in Nat : P(n)
  <2> HIDE DEF P
  <2>1. T \subseteq Nat /\ 0 \in T /\ \A n \in T : n + 1 \in T
    BY <1>1, <1>2
  <2>2. T = Nat
    BY <2>1, Induction
  <2> QED
    BY <2>2
<1>4. Len(line) \in Nat /\ Len(line) <= Len(line) /\ SubSeq(line, 1, Len(line)) = line
  OBVIOUS
<1> QED
  BY <1>3, <1>4

\* What a line shows is text.
LEMMA ShownIsTyped ==
    ASSUME NEW line \in Seq(Byte)
    PROVE  ShownLine(line) \in Seq(Byte)
<1>1. PICK vec, cursor : LineShown(line, vec, cursor)
  BY EveryLineShown
<1> QED
  BY <1>1, ShownIs DEF LineShown

Screens == [above : Seq(Byte), line : Seq(Byte)]

\* A screen with one character more is a screen.
LEMMA ShowIsTyped ==
    ASSUME NEW screen \in Screens, NEW c \in Byte
    PROVE  Show(screen, c) \in Screens
<1>1. screen.above \in Seq(Byte) /\ screen.line \in Seq(Byte)
  BY DEF Screens
<1>2. CASE c = "newline"
  <2>1. ShownLine(screen.line) \in Seq(Byte)
    BY <1>1, ShownIsTyped
  <2> DEFINE text == screen.above \o Append(ShownLine(screen.line), c)
  <2>2. text \in Seq(Byte) /\ <<>> \in Seq(Byte)
    BY <1>1, <2>1
  <2>3. Show(screen, c) = [above |-> text, line |-> <<>>]
    BY <1>2 DEF Show
  <2> HIDE DEF text
  <2> QED
    BY <2>2, <2>3 DEF Screens
<1>3. CASE c # "newline"
  <2>1. Show(screen, c) = [screen EXCEPT !.line = Append(screen.line, c)]
    BY <1>3 DEF Show
  <2>2. Append(screen.line, c) \in Seq(Byte)
    BY <1>1
  <2> QED
    BY <2>1, <2>2 DEF Screens
<1> QED
  BY <1>2, <1>3

ShowBy == [c \in Byte |-> [pc \in Screens |-> Show(pc, c)]]

\* Show() character after character is the result of a table.
LEMMA ShowFolds ==
    ASSUME NEW b \in Screens, NEW s \in Seq(Byte)
    PROVE  /\ FoldLeft(Show, b, s) = Result(ShowBy, Screens, b, s)
           /\ Result(ShowBy, Screens, b, s) \in Screens
<1> DEFINE n == Len(s)
           G == Taking(ShowBy, s)
           t == Table(ShowBy, Screens, b, s)
           IsIt(u) == u = [S \in SUBSET DOMAIN s |->
                              IF S = {} THEN b ELSE Show(u[S \ {Max(S)}], s[Max(S)])]
           it == CHOOSE u : IsIt(u)
<1>1. ShowBy \in [Byte -> [Screens -> Screens]]
  BY ShowIsTyped DEF ShowBy
<1>2. IsTableIn(t, Screens, n, b, G) /\ n \in Nat /\ DOMAIN s = 1 .. n
  BY <1>1, TableIs
<1>3. \A i \in 1 .. n, a \in Screens : G[i][a] = Show(a, s[i])
  <2>1. \A i \in 1 .. n : s[i] \in Byte /\ G[i] = ShowBy[s[i]]
    BY DEF Taking
  <2>2. \A c \in Byte, a \in Screens : ShowBy[c][a] = Show(a, c)
    BY DEF ShowBy
  <2> HIDE DEF G, n
  <2> QED
    BY <2>1, <2>2
<1> HIDE DEF G, n, t
<1>4. IsIt(t)
  <2>1. ASSUME NEW S \in SUBSET (1 .. n)
        PROVE  t[S] = IF S = {} THEN b ELSE Show(t[S \ {Max(S)}], s[Max(S)])
    <3>1. CASE S = {}
      BY <1>2, <3>1 DEF IsTableIn, IsTable
    <3>2. CASE S # {}
      <4>1. Max(S) \in 1 .. n /\ S \ {Max(S)} \in SUBSET (1 .. n)
        BY <1>2, <3>2, LargestOf
      <4>2. t[S \ {Max(S)}] \in Screens
        BY <1>2, <4>1 DEF IsTableIn
      <4>3. t[S] = G[Max(S)][t[S \ {Max(S)}]]
        BY <1>2, <3>2 DEF IsTableIn, IsTable
      <4> QED
        BY <1>3, <3>2, <4>1, <4>2, <4>3
    <3> QED
      BY <3>1, <3>2
  <2>2. t = [S \in SUBSET (1 .. n) |-> t[S]]
    BY <1>2 DEF IsTableIn
  <2> QED
    BY <1>2, <2>1, <2>2
<1>5. IsIt(it)
  <2> HIDE DEF IsIt
  <2> QED
    BY <1>4, Zenon
<1>6. Follows(it, Screens, n, b, G)
  <2>1. it = [S \in SUBSET (1 .. n) |->
                 IF S = {} THEN b ELSE Show(it[S \ {Max(S)}], s[Max(S)])]
    BY <1>2, <1>5
  <2> HIDE DEF it, IsIt
  <2>2. it[{}] = b
    BY <2>1
  <2>3. ASSUME NEW S \in SUBSET (1 .. n), S # {}, it[S \ {Max(S)}] \in Screens
        PROVE  it[S] = G[Max(S)][it[S \ {Max(S)}]]
    <3>1. Max(S) \in 1 .. n
      BY <1>2, <2>3, LargestOf
    <3>2. it[S] = Show(it[S \ {Max(S)}], s[Max(S)])
      BY <2>1, <2>3
    <3> QED
      BY <1>3, <2>3, <3>1, <3>2
  <2> QED
    BY <2>2, <2>3 DEF Follows
<1>7. FoldLeft(Show, b, s) = it[DOMAIN s]
  BY Zenon DEF FoldLeft, MapThenFoldSet
<1>8. it[1 .. n] = Result(ShowBy, Screens, b, s) /\ Result(ShowBy, Screens, b, s) \in Screens
  <2> HIDE DEF it
  <2> QED
    BY <1>1, <1>6, ResultIs DEF n, G
<1> QED
  BY <1>2, <1>7, <1>8

\* The last character of a text is shown after all before it.
LEMMA ShowSteps ==
    ASSUME NEW b \in Screens
    PROVE  /\ FoldLeft(Show, b, <<>>) = b
           /\ \A s \in Seq(Byte) : FoldLeft(Show, b, s) \in Screens
           /\ \A s \in Seq(Byte), c \in Byte :
                  FoldLeft(Show, b, Append(s, c)) = Show(FoldLeft(Show, b, s), c)
<1>1. ShowBy \in [Byte -> [Screens -> Screens]] /\ <<>> \in Seq(Byte)
  BY ShowIsTyped DEF ShowBy
<1>2. \A s \in Seq(Byte) : /\ FoldLeft(Show, b, s) = Result(ShowBy, Screens, b, s)
                           /\ Result(ShowBy, Screens, b, s) \in Screens
  BY ShowFolds
<1>3. ASSUME NEW s \in Seq(Byte), NEW c \in Byte
      PROVE  FoldLeft(Show, b, Append(s, c)) = Show(FoldLeft(Show, b, s), c)
  <2>1. Append(s, c) \in Seq(Byte)
    OBVIOUS
  <2>2. FoldLeft(Show, b, Append(s, c)) = Result(ShowBy, Screens, b, Append(s, c))
    BY <1>2, <2>1
  <2>3. Result(ShowBy, Screens, b, Append(s, c)) = ShowBy[c][Result(ShowBy, Screens, b, s)]
    BY <1>1, ResultAppend
  <2> QED
    BY <1>2, <2>2, <2>3 DEF ShowBy
<1> QED
  BY <1>1, <1>2, <1>3, ResultEmpty

----------------------------------------------------------------------------
(* Bytes, and where they are split.                                        *)

Checked(bytes) == [i \in DOMAIN bytes |-> get_utf8_char_validated(bytes, i)]

Errors == {"INVALID", "PARTIAL"}

\* A character has up to three bytes, or is none.
LEMMA LengthIs ==
    ASSUME NEW b
    PROVE  utf8_char_length(b) \in {-1, 1, 2, 3}
BY DEF utf8_char_length

\* A continuation byte begins no character.
LEMMA ContinuesNothing == utf8_char_length("cont") = -1
BY DEF utf8_char_length

\* A byte which begins no character, or one which is broken off.
LEMMA CheckedInvalid ==
    ASSUME NEW s \in Seq(Byte), NEW i \in 1 .. Len(s),
           \/ utf8_char_length(s[i]) = -1
           \/ \E j \in 1 .. Len(s) : i < j /\ j < i + utf8_char_length(s[i]) /\ s[j] # "cont"
    PROVE  get_utf8_char_validated(s, i) = "INVALID"
<1>1. DOMAIN s = 1 .. Len(s)
  OBVIOUS
<1> QED
  BY <1>1 DEF get_utf8_char_validated

\* A character whose bytes are there, as far as the text goes.
LEMMA CheckedValid ==
    ASSUME NEW s \in Seq(Byte), NEW i \in 1 .. Len(s),
           utf8_char_length(s[i]) # -1,
           \A j \in 1 .. Len(s) : i < j /\ j < i + utf8_char_length(s[i]) => s[j] = "cont"
    PROVE  get_utf8_char_validated(s, i) =
               IF i + utf8_char_length(s[i]) - 1 > Len(s) THEN "PARTIAL" ELSE s[i]
<1>1. DOMAIN s = 1 .. Len(s)
  OBVIOUS
<1> QED
  BY <1>1 DEF get_utf8_char_validated

\* What is found at each byte.
LEMMA CheckedIs ==
    ASSUME NEW s \in Seq(Byte)
    PROVE  /\ Checked(s) \in Seq(Found) /\ Len(Checked(s)) = Len(s)
           /\ \A i \in 1 .. Len(s) : Checked(s)[i] = get_utf8_char_validated(s, i)
<1>1. DOMAIN s = 1 .. Len(s) /\ Len(s) \in Nat
  OBVIOUS
<1>2. \A i \in 1 .. Len(s) : get_utf8_char_validated(s, i) \in Found
  <2> TAKE i \in 1 .. Len(s)
  <2>1. s[i] \in Byte
    OBVIOUS
  <2>2. get_utf8_char_validated(s, i) \in {"INVALID", "PARTIAL", s[i]}
    BY DEF get_utf8_char_validated
  <2> QED
    BY <2>1, <2>2 DEF Found
<1>3. Checked(s) = [i \in 1 .. Len(s) |-> get_utf8_char_validated(s, i)]
  BY <1>1 DEF Checked
<1> HIDE DEF Checked
<1> QED
  BY <1>1, <1>2, <1>3

\* What is no beginning of a character at the end is not changed by what follows.
LEMMA CheckedStays ==
    ASSUME NEW s \in Seq(Byte), NEW c \in Seq(Byte), NEW i \in 1 .. Len(s),
           get_utf8_char_validated(s, i) # "PARTIAL"
    PROVE  get_utf8_char_validated(s \o c, i) = get_utf8_char_validated(s, i)
<1> DEFINE b == s \o c
           length == utf8_char_length(s[i])
<1>1. /\ b \in Seq(Byte) /\ Len(b) = Len(s) + Len(c) /\ Len(s) \in Nat /\ Len(c) \in Nat
      /\ \A j \in 1 .. Len(s) : b[j] = s[j] /\ j \in 1 .. Len(b)
  OBVIOUS
<1>2. length \in {-1, 1, 2, 3}
  BY LengthIs
<1> HIDE DEF b
<1>3. CASE length = -1
  <2>1. b[i] = s[i] /\ i \in 1 .. Len(b)
    BY <1>1
  <2>2. get_utf8_char_validated(b, i) = "INVALID"
    BY <1>1, <1>3, <2>1, CheckedInvalid
  <2>3. get_utf8_char_validated(s, i) = "INVALID"
    BY <1>3, CheckedInvalid
  <2> QED
    BY <2>2, <2>3 DEF b
<1>4. CASE \E j \in 1 .. Len(s) : i < j /\ j < i + length /\ s[j] # "cont"
  <2>1. get_utf8_char_validated(s, i) = "INVALID"
    BY <1>4, CheckedInvalid
  <2>2. PICK j \in 1 .. Len(s) : i < j /\ j < i + length /\ s[j] # "cont"
    BY <1>4
  <2>3. j \in 1 .. Len(b) /\ b[j] # "cont" /\ b[i] = s[i] /\ i \in 1 .. Len(b)
    BY <1>1, <2>2
  <2>4. get_utf8_char_validated(b, i) = "INVALID"
    BY <1>1, <2>2, <2>3, CheckedInvalid
  <2> QED
    BY <2>1, <2>4 DEF b
<1>5. CASE /\ length # -1
           /\ \A j \in 1 .. Len(s) : i < j /\ j < i + length => s[j] = "cont"
  <2>1. get_utf8_char_validated(s, i) = IF i + length - 1 > Len(s) THEN "PARTIAL" ELSE s[i]
    BY <1>5, CheckedValid
  <2>2. ~(i + length - 1 > Len(s))
    BY <2>1
  <2>3. b[i] = s[i] /\ i \in 1 .. Len(b)
    BY <1>1
  <2>4. \A j \in 1 .. Len(b) : i < j /\ j < i + length => b[j] = "cont"
    <3> TAKE j \in 1 .. Len(b)
    <3>1. i < j /\ j < i + length => j \in 1 .. Len(s)
      BY <1>1, <1>2, <2>2
    <3> QED
      BY <1>1, <1>5, <3>1
  <2>5. ~(i + length - 1 > Len(b))
    BY <1>1, <1>2, <2>2
  <2>6. get_utf8_char_validated(b, i) = IF i + length - 1 > Len(b) THEN "PARTIAL" ELSE b[i]
    BY <1>1, <1>5, <2>3, <2>4, CheckedValid
  <2> QED
    BY <2>1, <2>2, <2>3, <2>5, <2>6 DEF b
<1> QED
  BY <1>3, <1>4, <1>5

\* A character does not depend on what is in front of it.
LEMMA CheckedBehind ==
    ASSUME NEW u \in Seq(Byte), NEW v \in Seq(Byte), NEW k \in 1 .. Len(v)
    PROVE  get_utf8_char_validated(u \o v, Len(u) + k) = get_utf8_char_validated(v, k)
<1> DEFINE b == u \o v
           n == Len(u)
           length == utf8_char_length(v[k])
<1>1. /\ b \in Seq(Byte) /\ Len(b) = n + Len(v) /\ n \in Nat /\ Len(v) \in Nat
      /\ \A j \in 1 .. Len(v) : b[n + j] = v[j] /\ n + j \in 1 .. Len(b)
  OBVIOUS
<1>2. length \in {-1, 1, 2, 3}
  BY LengthIs
<1>3. b[n + k] = v[k] /\ n + k \in 1 .. Len(b)
  BY <1>1
<1> HIDE DEF b, n
<1>4. CASE length = -1
  BY <1>1, <1>3, <1>4, CheckedInvalid DEF b, n
<1>5. CASE \E j \in 1 .. Len(v) : k < j /\ j < k + length /\ v[j] # "cont"
  <2>1. get_utf8_char_validated(v, k) = "INVALID"
    BY <1>5, CheckedInvalid
  <2>2. PICK j \in 1 .. Len(v) : k < j /\ j < k + length /\ v[j] # "cont"
    BY <1>5
  <2>3. /\ n + j \in 1 .. Len(b) /\ b[n + j] # "cont"
        /\ n + k < n + j /\ n + j < n + k + length
    BY <1>1, <1>2, <2>2
  <2>4. get_utf8_char_validated(b, n + k) = "INVALID"
    BY <1>1, <1>3, <2>3, CheckedInvalid
  <2> QED
    BY <2>1, <2>4 DEF b, n
<1>6. CASE /\ length # -1
           /\ \A j \in 1 .. Len(v) : k < j /\ j < k + length => v[j] = "cont"
  <2>1. get_utf8_char_validated(v, k) = IF k + length - 1 > Len(v) THEN "PARTIAL" ELSE v[k]
    BY <1>6, CheckedValid
  <2>2. \A j \in 1 .. Len(b) : n + k < j /\ j < n + k + length => b[j] = "cont"
    <3> TAKE j \in 1 .. Len(b)
    <3> HAVE n + k < j /\ j < n + k + length
    <3>1. /\ n \in Nat /\ Len(v) \in Nat /\ k \in Nat /\ 1 <= k /\ length \in Int
          /\ j \in Nat /\ j <= n + Len(v)
      BY <1>1, <1>2
    <3> DEFINE i == j - n
    <3>2. /\ i \in 1 .. Len(v) /\ n + i = j
          /\ k < i /\ i < k + length
      <4> HIDE DEF length
      <4> QED
        BY <3>1
    <3> HIDE DEF i
    <3>3. b[n + i] = v[i] /\ v[i] = "cont"
      BY <1>1, <1>6, <3>2
    <3> QED
      BY <3>2, <3>3
  <2>3. get_utf8_char_validated(b, n + k) =
            IF n + k + length - 1 > Len(b) THEN "PARTIAL" ELSE b[n + k]
    BY <1>1, <1>3, <1>6, <2>2, CheckedValid
  <2>4. n + k + length - 1 > Len(b) <=> k + length - 1 > Len(v)
    BY <1>1, <1>2
  <2> QED
    BY <1>3, <2>1, <2>3, <2>4 DEF b, n
<1> QED
  BY <1>4, <1>5, <1>6

\* Nothing but continuations follow a character which is not complete.
LEMMA PartialLast ==
    ASSUME NEW s \in Seq(Byte), NEW p \in 1 .. Len(s),
           get_utf8_char_validated(s, p) = "PARTIAL"
    PROVE  \A j \in p + 1 .. Len(s) : get_utf8_char_validated(s, j) = "INVALID"
<1> DEFINE length == utf8_char_length(s[p])
<1>1. length \in {-1, 1, 2, 3} /\ Len(s) \in Nat
  BY LengthIs
<1>2. /\ length # -1
      /\ \A j \in 1 .. Len(s) : p < j /\ j < p + length => s[j] = "cont"
  BY CheckedInvalid
<1>3. p + length - 1 > Len(s)
  <2>1. s[p] # "PARTIAL"
    BY DEF Byte
  <2> QED
    BY <1>2, <2>1, CheckedValid
<1> TAKE j \in p + 1 .. Len(s)
<1>4. j \in 1 .. Len(s) /\ s[j] = "cont"
  BY <1>1, <1>2, <1>3
<1> QED
  BY <1>4, CheckedInvalid, ContinuesNothing

\* What is left of a text is what begins at its partial character.
LEMMA PartialIs ==
    ASSUME NEW s \in Seq(Byte), NEW p \in 1 .. Len(s),
           get_utf8_char_validated(s, p) = "PARTIAL"
    PROVE  PartialChar(s) = SubSeq(s, p, Len(s))
<1> DEFINE begun == {i \in DOMAIN s : get_utf8_char_validated(s, i) = "PARTIAL"}
<1>1. p \in begun /\ DOMAIN s = 1 .. Len(s) /\ Len(s) \in Nat
  OBVIOUS
<1>2. \A i \in begun : i = p
  <2> TAKE i \in begun
  <2>1. i \in 1 .. Len(s) /\ get_utf8_char_validated(s, i) = "PARTIAL"
    BY <1>1
  <2>2. ~(i < p) /\ ~(p < i)
    <3>1. i < p => p \in i + 1 .. Len(s)
      BY <1>1, <2>1
    <3>2. p < i => i \in p + 1 .. Len(s)
      BY <1>1, <2>1
    <3> QED
      BY <2>1, <3>1, <3>2, PartialLast
  <2> QED
    BY <1>1, <2>1, <2>2
<1>3. begun # {} /\ (CHOOSE i \in begun : TRUE) = p
  BY <1>1, <1>2
<1> QED
  BY <1>3 DEF PartialChar

\* Nothing is left of a text without a partial character.
LEMMA NoPartial ==
    ASSUME NEW s \in Seq(Byte),
           \A i \in 1 .. Len(s) : get_utf8_char_validated(s, i) # "PARTIAL"
    PROVE  PartialChar(s) = <<>>
<1>1. DOMAIN s = 1 .. Len(s)
  OBVIOUS
<1> QED
  BY <1>1 DEF PartialChar

\* A beginning and the element after it.
LEMMA NextBeginning ==
    ASSUME NEW S, NEW s \in Seq(S), NEW n \in Nat, n + 1 <= Len(s)
    PROVE  /\ SubSeq(s, 1, n) \in Seq(S) /\ s[n + 1] \in S
           /\ SubSeq(s, 1, n + 1) = Append(SubSeq(s, 1, n), s[n + 1])
OBVIOUS

\* A sequence is joined with another and one element more.
LEMMA JoinAppend ==
    ASSUME NEW S, NEW u \in Seq(S), NEW w \in Seq(S), NEW c \in S
    PROVE  u \o Append(w, c) = Append(u \o w, c) /\ u \o w \in Seq(S)
OBVIOUS

\* The same of bytes.
LEMMA AppendJoined ==
    ASSUME NEW u \in Seq(Byte), NEW w \in Seq(Byte), NEW c \in Byte
    PROVE  u \o Append(w, c) = Append(u \o w, c)
BY JoinAppend

\* One more of what was found is decoded after all before it.
LEMMA KeepJoin ==
    ASSUME NEW u \in Seq(Found), NEW w \in Seq(Found), NEW c \in Found
    PROVE  FoldLeft(Keep, <<>>, u \o Append(w, c)) = Keep(FoldLeft(Keep, <<>>, u \o w), c)
<1>1. u \o Append(w, c) = Append(u \o w, c) /\ u \o w \in Seq(Found)
  BY JoinAppend
<1>2. <<>> \in Texts
  BY DEF Texts
<1>3. FoldLeft(Keep, <<>>, Append(u \o w, c)) = Keep(FoldLeft(Keep, <<>>, u \o w), c)
  BY Zenon, <1>1, <1>2, KeepSteps
<1> QED
  BY <1>1, <1>3

\* Invalid and partial characters at the end of a text are not decoded.
LEMMA KeepErrors ==
    ASSUME NEW u \in Seq(Found), NEW v \in Seq(Found), \A i \in 1 .. Len(v) : v[i] \in Errors
    PROVE  FoldLeft(Keep, <<>>, u \o v) = FoldLeft(Keep, <<>>, u)
<1> DEFINE Kept(w) == FoldLeft(Keep, <<>>, w)
           P(n) == n <= Len(v) => Kept(u \o SubSeq(v, 1, n)) = Kept(u)
           T == {n \in Nat : P(n)}
<1>1. P(0)
  <2>1. u \o SubSeq(v, 1, 0) = u
    OBVIOUS
  <2> QED
    BY <2>1
<1>2. ASSUME NEW n \in Nat, P(n)
      PROVE  P(n + 1)
  <2>1. ASSUME n + 1 <= Len(v)
        PROVE  Kept(u \o SubSeq(v, 1, n + 1)) = Kept(u)
    <3> DEFINE w == SubSeq(v, 1, n)
               c == v[n + 1]
    <3>0. n <= Len(v) /\ n + 1 \in 1 .. Len(v)
      BY <2>1
    <3>1. w \in Seq(Found) /\ c \in Found /\ c \in Errors
      BY <2>1, <3>0, NextBeginning
    <3>2. SubSeq(v, 1, n + 1) = Append(w, c)
      BY <2>1, NextBeginning
    <3>4. Kept(u \o SubSeq(v, 1, n + 1)) = Keep(Kept(u \o w), c)
      <4> HIDE DEF w, c
      <4>1. Kept(u \o Append(w, c)) = Keep(Kept(u \o w), c)
        BY <3>1, KeepJoin
      <4> QED
        BY <3>2, <4>1
    <3>5. Kept(u \o w) = Kept(u)
      BY <1>2, <3>0
    <3> HIDE DEF Kept, w, c
    <3> QED
      BY <3>1, <3>4, <3>5 DEF Keep, Errors
  <2> QED
    BY <2>1
<1>3. \A n \in Nat : P(n)
  <2> HIDE DEF P
  <2>1. T \subseteq Nat /\ 0 \in T /\ \A n \in T : n + 1 \in T
    BY <1>1, <1>2
  <2>2. T = Nat
    BY <2>1, Induction
  <2> QED
    BY <2>2
<1>4. Len(v) \in Nat /\ Len(v) <= Len(v) /\ SubSeq(v, 1, Len(v)) = v
  OBVIOUS
<1>5. P(Len(v))
  BY <1>3, <1>4
<1> QED
  BY <1>4, <1>5

\* Two texts are decoded one after the other.
LEMMA KeepBoth ==
    ASSUME NEW u \in Seq(Found), NEW v \in Seq(Found)
    PROVE  FoldLeft(Keep, <<>>, u \o v) = FoldLeft(Keep, <<>>, u) \o FoldLeft(Keep, <<>>, v)
<1> DEFINE Kept(w) == FoldLeft(Keep, <<>>, w)
           P(n) == n <= Len(v) => Kept(u \o SubSeq(v, 1, n)) = Kept(u) \o Kept(SubSeq(v, 1, n))
           T == {n \in Nat : P(n)}
<1>0. <<>> \in Texts /\ \A w \in Seq(Found) : Kept(w) \in Seq(Byte)
  <2>1. <<>> \in Texts /\ Texts = Seq(Byte)
    BY DEF Texts
  <2> QED
    BY <2>1, KeepSteps
<1>1. P(0)
  <2>1. u \o SubSeq(v, 1, 0) = u /\ SubSeq(v, 1, 0) = <<>>
    OBVIOUS
  <2>2. Kept(<<>>) = <<>> /\ Kept(u) \in Seq(Byte)
    BY <1>0, KeepSteps
  <2> HIDE DEF Kept
  <2>3. Kept(u) \o <<>> = Kept(u)
    BY <2>2, ConcatEmptySeq
  <2> QED
    BY <2>1, <2>2, <2>3
<1>2. ASSUME NEW n \in Nat, P(n)
      PROVE  P(n + 1)
  <2>1. ASSUME n + 1 <= Len(v)
        PROVE  Kept(u \o SubSeq(v, 1, n + 1)) = Kept(u) \o Kept(SubSeq(v, 1, n + 1))
    <3> DEFINE w == SubSeq(v, 1, n)
               c == v[n + 1]
    <3>0. n <= Len(v)
      BY <2>1
    <3>1. w \in Seq(Found) /\ c \in Found /\ SubSeq(v, 1, n + 1) = Append(w, c)
      BY <2>1, NextBeginning
    <3>3. /\ Kept(SubSeq(v, 1, n + 1)) = Keep(Kept(w), c)
          /\ Kept(u \o SubSeq(v, 1, n + 1)) = Keep(Kept(u \o w), c)
      <4> HIDE DEF w, c
      <4>1. Kept(u \o Append(w, c)) = Keep(Kept(u \o w), c)
        BY <3>1, KeepJoin
      <4>2. Kept(Append(w, c)) = Keep(Kept(w), c)
        BY Zenon, <1>0, <3>1, KeepSteps
      <4> QED
        BY <3>1, <4>1, <4>2
    <3>4. Kept(u \o w) = Kept(u) \o Kept(w)
      BY <1>2, <3>0
    <3>5. Kept(u) \in Seq(Byte) /\ Kept(w) \in Seq(Byte)
      BY <1>0, <3>1
    <3> HIDE DEF Kept, w, c
    <3>6. Keep(Kept(u) \o Kept(w), c) = Kept(u) \o Keep(Kept(w), c)
      <4>1. CASE c \in {"INVALID", "PARTIAL"}
        BY <4>1 DEF Keep
      <4>2. CASE c \notin {"INVALID", "PARTIAL"}
        <5>1. c \in Byte
          BY <3>1, <4>2 DEF Found
        <5>2. Append(Kept(u) \o Kept(w), c) = Kept(u) \o Append(Kept(w), c)
          BY Zenon, <3>5, <5>1, AppendJoined
        <5> QED
          BY <4>2, <5>2 DEF Keep
      <4> QED
        BY <4>1, <4>2
    <3> QED
      BY <3>3, <3>4, <3>6
  <2> QED
    BY <2>1
<1>3. \A n \in Nat : P(n)
  <2> HIDE DEF P
  <2>1. T \subseteq Nat /\ 0 \in T /\ \A n \in T : n + 1 \in T
    BY <1>1, <1>2
  <2>2. T = Nat
    BY <2>1, Induction
  <2> QED
    BY <2>2
<1>4. Len(v) \in Nat /\ Len(v) <= Len(v) /\ SubSeq(v, 1, Len(v)) = v
  OBVIOUS
<1>5. P(Len(v))
  BY <1>3, <1>4
<1> QED
  BY <1>4, <1>5

\* The characters of a read, in terms of what is found at each byte.
LEMMA DecodedIs ==
    ASSUME NEW s \in Seq(Byte)
    PROVE  Decoded(s) = FoldLeft(Keep, <<>>, Checked(s)) /\ Decoded(s) \in Seq(Byte)
<1>1. Decoded(s) = FoldLeft(Keep, <<>>, Checked(s))
  BY DEF Decoded, Checked
<1>2. <<>> \in Texts
  BY DEF Texts
<1> QED
  BY <1>1, <1>2, CheckedIs, KeepSteps DEF Texts

\* Where the next character begins, of which something may be there
LEMMA SplitAt ==
    ASSUME NEW s \in Seq(Byte)
    PROVE  \E p \in 1 .. Len(s) + 1 :
               /\ PartialChar(s) = SubSeq(s, p, Len(s))
               /\ \A i \in 1 .. p - 1 : get_utf8_char_validated(s, i) # "PARTIAL"
               /\ \A i \in p .. Len(s) : get_utf8_char_validated(s, i) \in Errors
<1>1. Len(s) \in Nat
  OBVIOUS
<1>2. CASE \A i \in 1 .. Len(s) : get_utf8_char_validated(s, i) # "PARTIAL"
  <2>1. PartialChar(s) = <<>>
    BY <1>2, NoPartial
  <2>2. SubSeq(s, Len(s) + 1, Len(s)) = <<>>
    OBVIOUS
  <2>3. Len(s) + 1 \in 1 .. Len(s) + 1 /\ (Len(s) + 1) - 1 = Len(s)
    BY <1>1
  <2>4. \A i \in Len(s) + 1 .. Len(s) : FALSE
    BY <1>1
  <2> QED
    BY <1>2, <2>1, <2>2, <2>3, <2>4
<1>3. CASE \E p \in 1 .. Len(s) : get_utf8_char_validated(s, p) = "PARTIAL"
  <2>1. PICK p \in 1 .. Len(s) : get_utf8_char_validated(s, p) = "PARTIAL"
    BY <1>3
  <2>2. PartialChar(s) = SubSeq(s, p, Len(s))
    BY <2>1, PartialIs
  <2>3. \A j \in p + 1 .. Len(s) : get_utf8_char_validated(s, j) = "INVALID"
    BY <2>1, PartialLast
  <2>4. \A i \in p .. Len(s) : i = p \/ i \in p + 1 .. Len(s)
    BY <1>1
  <2>5. \A i \in p .. Len(s) : get_utf8_char_validated(s, i) \in Errors
    BY <2>1, <2>3, <2>4 DEF Errors
  <2>6. \A i \in 1 .. p - 1 : get_utf8_char_validated(s, i) # "PARTIAL"
    <3> TAKE i \in 1 .. p - 1
    <3>1. i \in 1 .. Len(s) /\ p \in i + 1 .. Len(s)
      BY <1>1
    <3> QED
      BY <2>1, <3>1, PartialLast
  <2>7. p \in 1 .. Len(s) + 1
    BY <1>1
  <2> QED
    BY <2>2, <2>5, <2>6, <2>7
<1> QED
  BY <1>2, <1>3

\* Where the elements of two sequences are when joined.
LEMMA Joined ==
    ASSUME NEW S, NEW u \in Seq(S), NEW v \in Seq(S)
    PROVE  /\ u \o v \in Seq(S) /\ Len(u \o v) = Len(u) + Len(v)
           /\ Len(u) \in Nat /\ Len(v) \in Nat
           /\ \A i \in 1 .. Len(u) : (u \o v)[i] = u[i]
           /\ \A i \in 1 .. Len(v) : (u \o v)[Len(u) + i] = v[i]
OBVIOUS

\* The same of what was found.
LEMMA FoundJoined ==
    ASSUME NEW u \in Seq(Found), NEW v \in Seq(Found)
    PROVE  /\ u \o v \in Seq(Found) /\ Len(u \o v) = Len(u) + Len(v)
           /\ \A i \in 1 .. Len(u) : (u \o v)[i] = u[i]
           /\ \A i \in 1 .. Len(v) : (u \o v)[Len(u) + i] = v[i]
BY Joined

\* A sequence is its beginning and its rest.
LEMMA Split ==
    ASSUME NEW S, NEW s \in Seq(S), NEW m \in 0 .. Len(s)
    PROVE  /\ SubSeq(s, 1, m) \in Seq(S) /\ Len(SubSeq(s, 1, m)) = m
           /\ SubSeq(s, m + 1, Len(s)) \in Seq(S)
           /\ Len(SubSeq(s, m + 1, Len(s))) = Len(s) - m
           /\ s = SubSeq(s, 1, m) \o SubSeq(s, m + 1, Len(s))
<1> DEFINE u == SubSeq(s, 1, m)
           v == SubSeq(s, m + 1, Len(s))
<1>1. Len(s) \in Nat /\ m \in Nat /\ m <= Len(s)
  OBVIOUS
<1>2. u \in Seq(S) /\ Len(u) = m /\ \A i \in 1 .. m : u[i] = s[i]
  BY <1>1
<1>3. /\ v \in Seq(S) /\ Len(v) = Len(s) - m
      /\ \A i \in 1 .. Len(s) - m : v[i] = s[m + i]
  BY <1>1
<1> HIDE DEF u, v
<1>4. /\ u \o v \in Seq(S) /\ Len(u \o v) = Len(s)
      /\ \A i \in 1 .. Len(s) : (u \o v)[i] = s[i]
  <2>1. /\ u \o v \in Seq(S) /\ Len(u \o v) = Len(s)
        /\ \A i \in 1 .. m : (u \o v)[i] = u[i]
        /\ \A i \in 1 .. Len(s) - m : (u \o v)[m + i] = v[i]
    BY <1>1, <1>2, <1>3, Joined
  <2>2. \A i \in 1 .. Len(s) :
            i \in 1 .. m \/ (i - m \in 1 .. Len(s) - m /\ m + (i - m) = i)
    BY <1>1
  <2>3. ASSUME NEW i \in 1 .. Len(s)
        PROVE  (u \o v)[i] = s[i]
    <3>1. CASE i \in 1 .. m
      BY <1>2, <2>1, <3>1
    <3>2. CASE i - m \in 1 .. Len(s) - m /\ m + (i - m) = i
      <4> DEFINE k == i - m
      <4>1. k \in 1 .. Len(s) - m /\ m + k = i
        BY <3>2
      <4> HIDE DEF k
      <4>2. (u \o v)[m + k] = v[k] /\ v[k] = s[m + k]
        BY <1>3, <2>1, <4>1
      <4> QED
        BY <4>1, <4>2
    <3> QED
      BY <2>2, <3>1, <3>2
  <2> QED
    BY <2>1, <2>3
<1>5. s = u \o v
  BY <1>4, SeqEqual
<1> QED
  BY <1>2, <1>3, <1>5 DEF u, v

\* Three sequences are joined in either order.
LEMMA JoinedTwice ==
    ASSUME NEW S, NEW u \in Seq(S), NEW v \in Seq(S), NEW w \in Seq(S)
    PROVE  (u \o v) \o w = u \o (v \o w)
OBVIOUS

\* The end of the second of two sequences is the end of both.
LEMMA EndOfJoined ==
    ASSUME NEW S, NEW u \in Seq(S), NEW v \in Seq(S), NEW k \in 1 .. Len(v)
    PROVE  SubSeq(u \o v, Len(u) + k, Len(u) + Len(v)) = SubSeq(v, k, Len(v))
OBVIOUS

\* However bytes are split into reads, the characters are the same if what is left of
\* the last read is put in front of the next.
LEMMA ReadsJoin ==
    ASSUME NEW s \in Seq(Byte), NEW c \in Seq(Byte)
    PROVE  /\ PartialChar(s) \in Seq(Byte)
           /\ Decoded(s \o c) = Decoded(s) \o Decoded(PartialChar(s) \o c)
           /\ PartialChar(s \o c) = PartialChar(PartialChar(s) \o c)
<1> DEFINE n == Len(s)
           r == PartialChar(s)
           b == s \o c
           v == r \o c
<1>1. PICK p \in 1 .. n + 1 :
          /\ r = SubSeq(s, p, n)
          /\ \A i \in 1 .. p - 1 : get_utf8_char_validated(s, i) # "PARTIAL"
          /\ \A i \in p .. n : get_utf8_char_validated(s, i) \in Errors
  BY SplitAt
<1> DEFINE u == SubSeq(s, 1, p - 1)
<1>2. /\ n \in Nat /\ p - 1 \in Nat /\ p - 1 <= n
      /\ u \in Seq(Byte) /\ Len(u) = p - 1
      /\ r \in Seq(Byte) /\ Len(r) = n - (p - 1) /\ s = u \o r
  <2>1. /\ n \in Nat /\ p - 1 \in 0 .. n /\ (p - 1) + 1 = p
        /\ p - 1 \in Nat /\ p - 1 <= n
    BY <1>1
  <2>2. /\ SubSeq(s, 1, p - 1) \in Seq(Byte) /\ Len(SubSeq(s, 1, p - 1)) = p - 1
        /\ SubSeq(s, (p - 1) + 1, Len(s)) \in Seq(Byte)
        /\ Len(SubSeq(s, (p - 1) + 1, Len(s))) = Len(s) - (p - 1)
        /\ s = SubSeq(s, 1, p - 1) \o SubSeq(s, (p - 1) + 1, Len(s))
    BY <2>1, Split
  <2>3. r = SubSeq(s, (p - 1) + 1, Len(s))
    BY <1>1, <2>1
  <2> HIDE DEF r
  <2> QED
    BY Zenon, <2>1, <2>2, <2>3
<1>3. /\ b = u \o v /\ v \in Seq(Byte) /\ b \in Seq(Byte)
      /\ Len(v) = Len(r) + Len(c) /\ Len(c) \in Nat /\ Len(b) = (p - 1) + Len(v)
  <2>1. (u \o r) \o c = u \o (r \o c)
    <3> HIDE DEF u, r
    <3> QED
      BY <1>2, JoinedTwice
  <2>2. v \in Seq(Byte) /\ Len(v) = Len(r) + Len(c) /\ Len(c) \in Nat
    <3> HIDE DEF r
    <3> QED
      BY <1>2, Joined
  <2> HIDE DEF u, r, v
  <2>3. b = u \o v
    BY <1>2, <2>1 DEF v
  <2>4. u \o v \in Seq(Byte) /\ Len(u \o v) = Len(u) + Len(v)
    BY <1>2, <2>2, ConcatProperties
  <2> HIDE DEF b
  <2> QED
    BY <1>2, <2>2, <2>3, <2>4
<1> HIDE DEF n, r, b, v, u
<1>4. /\ \A i \in 1 .. p - 1 : /\ get_utf8_char_validated(b, i) = get_utf8_char_validated(s, i)
                               /\ get_utf8_char_validated(b, i) # "PARTIAL"
      /\ \A k \in 1 .. Len(v) : get_utf8_char_validated(b, p - 1 + k) = get_utf8_char_validated(v, k)
  <2>1. \A i \in 1 .. p - 1 : i \in 1 .. Len(s)
    BY <1>2 DEF n
  <2>2. \A i \in 1 .. p - 1 : get_utf8_char_validated(s \o c, i) = get_utf8_char_validated(s, i)
    BY <1>1, <2>1, CheckedStays
  <2>3. \A k \in 1 .. Len(v) : get_utf8_char_validated(u \o v, Len(u) + k) = get_utf8_char_validated(v, k)
    BY <1>2, <1>3, CheckedBehind
  <2> QED
    BY <1>1, <1>2, <1>3, <2>2, <2>3 DEF b
<1>5. Decoded(b) = Decoded(s) \o Decoded(v)
  <2> DEFINE before == SubSeq(Checked(s), 1, p - 1)
             behind == SubSeq(Checked(s), p, n)
  <2>1. /\ Checked(s) \in Seq(Found) /\ Len(Checked(s)) = n
        /\ Checked(v) \in Seq(Found) /\ Len(Checked(v)) = Len(v)
        /\ Checked(b) \in Seq(Found) /\ Len(Checked(b)) = (p - 1) + Len(v)
    BY <1>2, <1>3, CheckedIs DEF n
  <2>2. /\ before \in Seq(Found) /\ Len(before) = p - 1
        /\ \A i \in 1 .. p - 1 : before[i] = Checked(s)[i]
    BY <1>2, <2>1
  <2>3. /\ behind \in Seq(Found) /\ Len(behind) = n - (p - 1)
        /\ \A i \in 1 .. Len(behind) : behind[i] = Checked(s)[p - 1 + i] /\ p - 1 + i \in p .. n
    BY <1>2, <2>1
  <2>4. Checked(s) = before \o behind
    <3>1. p - 1 \in 0 .. Len(Checked(s)) /\ (p - 1) + 1 = p
      BY <1>2, <2>1
    <3>2. Checked(s) = SubSeq(Checked(s), 1, p - 1)
                       \o SubSeq(Checked(s), (p - 1) + 1, Len(Checked(s)))
      BY <2>1, <3>1, Split
    <3> QED
      BY <2>1, <3>1, <3>2
  <2> HIDE DEF before, behind
  <2>5. Checked(b) = before \o Checked(v)
    <3>1. /\ before \o Checked(v) \in Seq(Found)
          /\ Len(before \o Checked(v)) = (p - 1) + Len(v) /\ Len(v) \in Nat
          /\ \A i \in 1 .. p - 1 : (before \o Checked(v))[i] = before[i]
          /\ \A k \in 1 .. Len(v) : (before \o Checked(v))[p - 1 + k] = Checked(v)[k]
      <4>1. Len(v) \in Nat
        BY <1>2, <1>3
      <4>2. /\ before \o Checked(v) \in Seq(Found)
            /\ Len(before \o Checked(v)) = Len(before) + Len(Checked(v))
            /\ \A i \in 1 .. Len(before) : (before \o Checked(v))[i] = before[i]
            /\ \A k \in 1 .. Len(Checked(v)) :
                  (before \o Checked(v))[Len(before) + k] = Checked(v)[k]
        BY Zenon, <2>1, <2>2, FoundJoined
      <4> QED
        BY <2>1, <2>2, <4>1, <4>2
    <3>2. ASSUME NEW i \in 1 .. p - 1
          PROVE  Checked(b)[i] = before[i]
      <4>1. i \in 1 .. Len(s) /\ i \in 1 .. Len(b)
        BY <1>2, <1>3 DEF n
      <4>2. Checked(b)[i] = get_utf8_char_validated(b, i)
        BY Zenon, <1>3, <4>1, CheckedIs
      <4>3. Checked(s)[i] = get_utf8_char_validated(s, i)
        BY Zenon, <4>1, CheckedIs
      <4> QED
        BY <1>4, <2>2, <4>2, <4>3
    <3>3. ASSUME NEW k \in 1 .. Len(v)
          PROVE  Checked(b)[p - 1 + k] = Checked(v)[k]
      <4>1. p - 1 + k \in 1 .. Len(b)
        BY <1>2, <1>3
      <4>2. Checked(b)[p - 1 + k] = get_utf8_char_validated(b, p - 1 + k)
        BY Zenon, <1>3, <4>1, CheckedIs
      <4>3. Checked(v)[k] = get_utf8_char_validated(v, k)
        BY Zenon, <1>3, CheckedIs
      <4> QED
        BY <1>4, <4>2, <4>3
    <3>4. \A i \in 1 .. (p - 1) + Len(v) : i \in 1 .. p - 1 \/ \E k \in 1 .. Len(v) : i = p - 1 + k
      <4> TAKE i \in 1 .. (p - 1) + Len(v)
      <4>1. i \in 1 .. p - 1 \/ (i - (p - 1) \in 1 .. Len(v) /\ i = p - 1 + (i - (p - 1)))
        BY <1>2, <3>1
      <4> QED
        BY <4>1
    <3>5. \A i \in 1 .. (p - 1) + Len(v) : Checked(b)[i] = (before \o Checked(v))[i]
      <4> TAKE i \in 1 .. (p - 1) + Len(v)
      <4>1. CASE i \in 1 .. p - 1
        BY <3>1, <3>2, <4>1
      <4>2. CASE \E k \in 1 .. Len(v) : i = p - 1 + k
        <5>1. PICK k \in 1 .. Len(v) : i = p - 1 + k
          BY <4>2
        <5> QED
          BY Zenon, <3>1, <3>3, <5>1
      <4> QED
        BY <3>4, <4>1, <4>2
    <3> QED
      BY <2>1, <3>1, <3>5, SeqEqual
  <2>6. \A i \in 1 .. Len(behind) : behind[i] \in Errors
    <3> TAKE i \in 1 .. Len(behind)
    <3>1. p - 1 + i \in p .. n /\ p - 1 + i \in 1 .. Len(s)
      BY <1>2, <2>3 DEF n
    <3> QED
      BY <1>1, <2>3, <3>1, CheckedIs
  <2>7. Decoded(s) = FoldLeft(Keep, <<>>, before)
    BY <2>2, <2>3, <2>4, <2>6, DecodedIs, KeepErrors
  <2>8. Decoded(b) = FoldLeft(Keep, <<>>, before) \o FoldLeft(Keep, <<>>, Checked(v))
    <3>1. Decoded(b) = FoldLeft(Keep, <<>>, Checked(b))
      BY Zenon, <1>3, DecodedIs
    <3>2. FoldLeft(Keep, <<>>, before \o Checked(v)) =
              FoldLeft(Keep, <<>>, before) \o FoldLeft(Keep, <<>>, Checked(v))
      BY Zenon, <2>1, <2>2, KeepBoth
    <3> QED
      BY <2>5, <3>1, <3>2
  <2> QED
    BY <1>3, <2>7, <2>8, DecodedIs
<1>6. PartialChar(b) = PartialChar(v)
  <2>1. CASE \A k \in 1 .. Len(v) : get_utf8_char_validated(v, k) # "PARTIAL"
    <3>1. \A i \in 1 .. Len(b) : get_utf8_char_validated(b, i) # "PARTIAL"
      <4> TAKE i \in 1 .. Len(b)
      <4>1. i \in 1 .. p - 1 \/ (i - (p - 1) \in 1 .. Len(v) /\ i = p - 1 + (i - (p - 1)))
        BY <1>2, <1>3
      <4> QED
        BY <1>4, <2>1, <4>1
    <3> QED
      BY <1>3, <2>1, <3>1, NoPartial
  <2>2. CASE \E k \in 1 .. Len(v) : get_utf8_char_validated(v, k) = "PARTIAL"
    <3>1. PICK k \in 1 .. Len(v) : get_utf8_char_validated(v, k) = "PARTIAL"
      BY <2>2
    <3>2. p - 1 + k \in 1 .. Len(b)
      BY <1>2, <1>3
    <3>3. PartialChar(v) = SubSeq(v, k, Len(v))
      BY <1>3, <3>1, PartialIs
    <3>4. PartialChar(b) = SubSeq(b, p - 1 + k, Len(b))
      BY <1>3, <1>4, <3>1, <3>2, PartialIs
    <3>5. SubSeq(u \o v, Len(u) + k, Len(u) + Len(v)) = SubSeq(v, k, Len(v))
      BY <1>2, <1>3, EndOfJoined
    <3> QED
      BY <1>2, <1>3, <3>3, <3>4, <3>5
  <2> QED
    BY <2>1, <2>2
<1> QED
  BY <1>2, <1>5, <1>6 DEF b, v, r

----------------------------------------------------------------------------
(* What a capture keeps between two reads.                                 *)

Blank == [above |-> <<>>, line |-> <<>>]

Shown(chars) == FoldLeft(Show, Blank, chars)

\* The lines above are captured, and the last one is being written.
Tracks(pc, chars) ==
    /\ pc \in Captures
    /\ SubSeq(pc.capturebuf, 1, pc.line_start) = Shown(chars).above
    /\ LineShown(Shown(chars).line, pc.linevec, pc.cursor)

\* The screen after a text and one character more.
LEMMA ShownSteps ==
    /\ Shown(<<>>) = Blank
    /\ \A s \in Seq(Byte) : Shown(s) \in Screens
    /\ \A s \in Seq(Byte), c \in Byte : Shown(Append(s, c)) = Show(Shown(s), c)
<1>1. Blank \in Screens
  BY DEF Blank, Screens
<1> QED
  BY <1>1, ShowSteps DEF Shown

\* What becomes of a line goes into the text at once.
LEMMA PutNewline ==
    ASSUME NEW pc \in Captures
    PROVE  LET text == SubSeq(pc.capturebuf, 1, pc.line_start)
                       \o Append(pc.linevec, "newline")
           IN  Put(pc, "newline") = [readbuf |-> pc.readbuf, linevec |-> <<>>, cursor |-> 0,
                                     capturebuf |-> text, line_start |-> Len(text),
                                     callerbuf |-> pc.callerbuf]
BY DEF Captures, CaptureRecords, Put, Paste

\* Any other character changes the current line only.
LEMMA PutOther ==
    ASSUME NEW pc \in Captures, NEW c \in Byte, c # "newline"
    PROVE  Put(pc, c) = [readbuf |-> pc.readbuf, linevec |-> Written(pc.linevec, pc.cursor, c),
                         cursor |-> Move(pc.cursor, c),
                         capturebuf |-> pc.capturebuf, line_start |-> pc.line_start,
                         callerbuf |-> pc.callerbuf]
<1>1. CASE c = "backspace"
  BY <1>1 DEF Captures, CaptureRecords, Put, Move, Written, Moves
<1>2. CASE c = "return"
  BY <1>2 DEF Captures, CaptureRecords, Put, Move, Written, Moves
<1>3. CASE c = "ctrl"
  BY <1>3 DEF Captures, CaptureRecords, Put, Move, Written, Moves
<1>4. CASE c \notin Moves
  <2>1. CASE pc.cursor < Len(pc.linevec)
    BY <1>4, <2>1 DEF Captures, CaptureRecords, Put, Move, Written, Moves
  <2>2. CASE ~(pc.cursor < Len(pc.linevec))
    BY <1>4, <2>2 DEF Captures, CaptureRecords, Put, Move, Written, Moves
  <2> QED
    BY <2>1, <2>2
<1> QED
  BY <1>1, <1>2, <1>3, <1>4 DEF Moves

\* One character more
LEMMA PutTracks ==
    ASSUME NEW pc, NEW chars \in Seq(Byte), NEW c \in Byte, Tracks(pc, chars)
    PROVE  /\ Tracks(Put(pc, c), Append(chars, c))
           /\ Put(pc, c).readbuf = pc.readbuf
<1> DEFINE screen == Shown(chars)
<1>1. /\ pc \in Captures /\ screen \in Screens
      /\ SubSeq(pc.capturebuf, 1, pc.line_start) = screen.above
      /\ LineShown(screen.line, pc.linevec, pc.cursor)
  BY ShownSteps DEF Tracks
<1>2. screen.above \in Seq(Byte) /\ screen.line \in Seq(Byte)
  BY <1>1 DEF Screens
<1>3. Put(pc, c) \in Captures
  BY <1>1, PutIsCapture
<1>4. Shown(Append(chars, c)) = Show(screen, c)
  BY ShownSteps
<1> HIDE DEF screen
<1>5. CASE c = "newline"
  <2>1. ShownLine(screen.line) = pc.linevec
    BY <1>1, <1>2, ShownIs
  <2> DEFINE text == screen.above \o Append(pc.linevec, "newline")
  <2>2. Put(pc, c) = [readbuf |-> pc.readbuf, linevec |-> <<>>, cursor |-> 0,
                      capturebuf |-> text, line_start |-> Len(text),
                      callerbuf |-> pc.callerbuf]
    BY <1>1, <1>5, PutNewline
  <2>3. Show(screen, c) = [above |-> text, line |-> <<>>]
    BY <1>5, <2>1 DEF Show
  <2>4. text \in Seq(Byte)
    <3>1. pc.linevec \in Seq(Byte) /\ "newline" \in Byte
      BY <1>1, <1>5 DEF LineShown
    <3> QED
      BY <1>2, <3>1
  <2> HIDE DEF text
  <2>5. SubSeq(text, 1, Len(text)) = text
    BY <2>4
  <2> QED
    BY <1>3, <1>4, <2>2, <2>3, <2>5, EmptyLineShown DEF Tracks
<1>6. CASE c # "newline"
  <2>1. Put(pc, c) = [readbuf |-> pc.readbuf,
                      linevec |-> Written(pc.linevec, pc.cursor, c),
                      cursor |-> Move(pc.cursor, c),
                      capturebuf |-> pc.capturebuf, line_start |-> pc.line_start,
                      callerbuf |-> pc.callerbuf]
    BY <1>1, <1>6, PutOther
  <2>2. /\ Show(screen, c).above = screen.above
        /\ Show(screen, c).line = Append(screen.line, c)
    BY <1>1, <1>6 DEF Show, Screens
  <2>3. LineShown(Append(screen.line, c), Written(pc.linevec, pc.cursor, c),
                  Move(pc.cursor, c))
    BY <1>1, <1>2, LineGrows
  <2> QED
    BY <1>1, <1>3, <1>4, <2>1, <2>2, <2>3 DEF Tracks
<1> QED
  BY <1>5, <1>6

\* All characters of a read
LEMMA PutsTrack ==
    ASSUME NEW pc, NEW chars \in Seq(Byte), NEW d \in Seq(Byte), Tracks(pc, chars)
    PROVE  /\ Tracks(FoldLeft(Put, pc, d), chars \o d)
           /\ FoldLeft(Put, pc, d).readbuf = pc.readbuf
<1> DEFINE After(n) == FoldLeft(Put, pc, SubSeq(d, 1, n))
           P(n) == n <= Len(d) => /\ Tracks(After(n), chars \o SubSeq(d, 1, n))
                                  /\ After(n).readbuf = pc.readbuf
           T == {n \in Nat : P(n)}
<1>0. pc \in Captures
  BY DEF Tracks
<1>1. P(0)
  <2>1. SubSeq(d, 1, 0) = <<>> /\ chars \o <<>> = chars
    OBVIOUS
  <2>2. After(0) = pc
    BY <1>0, <2>1, PutSteps
  <2> HIDE DEF After
  <2> QED
    BY <2>1, <2>2
<1>2. ASSUME NEW n \in Nat, P(n)
      PROVE  P(n + 1)
  <2>1. ASSUME n + 1 <= Len(d)
        PROVE  /\ Tracks(After(n + 1), chars \o SubSeq(d, 1, n + 1))
               /\ After(n + 1).readbuf = pc.readbuf
    <3> DEFINE w == SubSeq(d, 1, n)
               c == d[n + 1]
    <3>0. n <= Len(d)
      BY <2>1
    <3>1. w \in Seq(Byte) /\ c \in Byte /\ SubSeq(d, 1, n + 1) = Append(w, c)
      BY <2>1, NextBeginning
    <3>2. Tracks(After(n), chars \o w) /\ After(n).readbuf = pc.readbuf
      BY <1>2, <3>0
    <3>3. FoldLeft(Put, pc, Append(w, c)) = Put(FoldLeft(Put, pc, w), c)
      <4> HIDE DEF w, c
      <4> QED
        BY Zenon, <1>0, <3>1, PutSteps
    <3>4. After(n + 1) = Put(After(n), c)
      BY Zenon, <3>1, <3>3
    <3> HIDE DEF After, w, c
    <3>5. chars \o Append(w, c) = Append(chars \o w, c)
      BY <3>1, AppendJoined
    <3>6. chars \o w \in Seq(Byte)
      BY <3>1, JoinAppend
    <3>7. /\ Tracks(Put(After(n), c), Append(chars \o w, c))
          /\ Put(After(n), c).readbuf = After(n).readbuf
      BY Zenon, <3>1, <3>2, <3>6, PutTracks
    <3> QED
      BY <3>1, <3>2, <3>4, <3>5, <3>7
  <2> QED
    BY <2>1
<1>3. \A n \in Nat : P(n)
  <2> HIDE DEF P
  <2>1. T \subseteq Nat /\ 0 \in T /\ \A n \in T : n + 1 \in T
    BY <1>1, <1>2
  <2>2. T = Nat
    BY <2>1, Induction
  <2> QED
    BY <2>2
<1>4. Len(d) \in Nat /\ Len(d) <= Len(d) /\ SubSeq(d, 1, Len(d)) = d
  OBVIOUS
<1>5. P(Len(d))
  BY <1>3, <1>4
<1> QED
  BY <1>4, <1>5

\* Paste() replaces the current line only.
LEMMA PasteIs ==
    ASSUME NEW pc \in Captures
    PROVE  Paste(pc) = [readbuf |-> pc.readbuf, linevec |-> pc.linevec, cursor |-> pc.cursor,
                        capturebuf |-> SubSeq(pc.capturebuf, 1, pc.line_start) \o pc.linevec,
                        line_start |-> pc.line_start, callerbuf |-> pc.callerbuf]
<1> DEFINE text == SubSeq(pc.capturebuf, 1, pc.line_start) \o pc.linevec
<1>1. pc = [readbuf |-> pc.readbuf, linevec |-> pc.linevec, cursor |-> pc.cursor,
            capturebuf |-> pc.capturebuf, line_start |-> pc.line_start,
            callerbuf |-> pc.callerbuf]
  BY DEF Captures, CaptureRecords
<1>2. Paste(pc) = [pc EXCEPT !.capturebuf = text]
  BY DEF Paste
<1> HIDE DEF text
<1>3. [pc EXCEPT !.capturebuf = text] =
          [readbuf |-> pc.readbuf, linevec |-> pc.linevec, cursor |-> pc.cursor,
           capturebuf |-> text, line_start |-> pc.line_start, callerbuf |-> pc.callerbuf]
  BY <1>1
<1> QED
  BY <1>2, <1>3 DEF text

\* The first of two sequences is the beginning of both.
LEMMA BeginningOfJoined ==
    ASSUME NEW u \in Seq(Byte), NEW v \in Seq(Byte)
    PROVE  /\ u \o v \in Seq(Byte) /\ Len(u) <= Len(u \o v)
           /\ SubSeq(u \o v, 1, Len(u)) = u
OBVIOUS

\* m_capturebuf between two reads
LEMMA PasteTracks ==
    ASSUME NEW pc, NEW chars \in Seq(Byte), Tracks(pc, chars)
    PROVE  /\ Tracks(Paste(pc), chars)
           /\ Paste(pc).readbuf = pc.readbuf
           /\ Paste(pc).capturebuf = Shown(chars).above \o ShownLine(Shown(chars).line)
<1> DEFINE screen == Shown(chars)
           text == screen.above \o pc.linevec
<1>1. /\ pc \in Captures /\ screen \in Screens
      /\ SubSeq(pc.capturebuf, 1, pc.line_start) = screen.above
      /\ LineShown(screen.line, pc.linevec, pc.cursor)
  BY ShownSteps DEF Tracks
<1>2. /\ screen.above \in Seq(Byte) /\ screen.line \in Seq(Byte)
      /\ pc.linevec \in Seq(Byte) /\ pc.line_start \in Nat
      /\ pc.capturebuf \in Seq(Byte) /\ pc.line_start <= Len(pc.capturebuf)
  BY <1>1 DEF Screens, Captures, CaptureRecords
<1>3. Len(screen.above) = pc.line_start
  BY <1>1, <1>2, BeginningIsSeq
<1>4. Paste(pc) = [readbuf |-> pc.readbuf, linevec |-> pc.linevec, cursor |-> pc.cursor,
                   capturebuf |-> text, line_start |-> pc.line_start,
                   callerbuf |-> pc.callerbuf]
  BY <1>1, PasteIs
<1>5. ShownLine(screen.line) = pc.linevec
  BY <1>1, <1>2, ShownIs
<1> HIDE DEF screen
<1>6. /\ text \in Seq(Byte) /\ pc.line_start <= Len(text)
      /\ SubSeq(text, 1, pc.line_start) = screen.above
  <2>1. /\ screen.above \o pc.linevec \in Seq(Byte)
        /\ Len(screen.above) <= Len(screen.above \o pc.linevec)
        /\ SubSeq(screen.above \o pc.linevec, 1, Len(screen.above)) = screen.above
    BY Zenon, <1>2, BeginningOfJoined
  <2> QED
    BY <1>3, <2>1
<1> HIDE DEF text
<1>7. Paste(pc) \in Captures
  BY <1>1, <1>4, <1>6 DEF Captures, CaptureRecords
<1>8. Tracks(Paste(pc), chars)
  BY <1>1, <1>4, <1>6, <1>7 DEF Tracks, screen
<1>9. Paste(pc).readbuf = pc.readbuf /\ Paste(pc).capturebuf = text
  BY <1>4
<1>10. text = screen.above \o ShownLine(screen.line)
  BY <1>5 DEF text
<1> QED
  BY <1>8, <1>9, <1>10 DEF screen

\* A capture which has read these bytes, in as many pieces as they came
Shows(pc, bytes) ==
    /\ Tracks(pc, Decoded(bytes))
    /\ pc.readbuf = PartialChar(bytes)
    /\ pc.capturebuf = Screen(bytes)

\* The screen in terms of its last line.
LEMMA ScreenIs ==
    ASSUME NEW s
    PROVE  Screen(s) = Shown(Decoded(s)).above \o ShownLine(Shown(Decoded(s)).line)
BY DEF Screen, Shown, Blank

\* A new capture has read nothing.
LEMMA NewCaptureShows == Shows(NewCapture, <<>>)
<1>1. <<>> \in Seq(Byte) /\ <<>> \in Seq(Found) /\ <<>> \in Texts
  BY DEF Texts
<1>2. Checked(<<>>) = <<>>
  <2>1. Checked(<<>>) \in Seq(Found) /\ Len(Checked(<<>>)) = Len(<<>>)
    BY <1>1, CheckedIs
  <2> HIDE DEF Checked
  <2> QED
    BY <2>1
<1>3. Decoded(<<>>) = <<>>
  <2>1. Decoded(<<>>) = FoldLeft(Keep, <<>>, Checked(<<>>))
    BY <1>1, DecodedIs
  <2>2. FoldLeft(Keep, <<>>, <<>>) = <<>>
    BY <1>1, KeepSteps
  <2> QED
    BY <1>2, <2>1, <2>2
<1>4. PartialChar(<<>>) = <<>>
  <2>1. \A i \in 1 .. Len(<<>>) : FALSE
    OBVIOUS
  <2> QED
    BY <1>1, <2>1, NoPartial
<1>5. NewCapture \in Captures
  BY DEF NewCapture, Captures, CaptureRecords
<1>6. Shown(<<>>) = Blank
  BY ShownSteps
<1>7. Tracks(NewCapture, <<>>)
  <2>1. SubSeq(NewCapture.capturebuf, 1, NewCapture.line_start) = <<>>
    BY DEF NewCapture
  <2>2. NewCapture.linevec = <<>> /\ NewCapture.cursor = 0
    BY DEF NewCapture
  <2>3. Shown(<<>>).above = <<>> /\ Shown(<<>>).line = <<>>
    BY <1>6 DEF Blank
  <2> QED
    BY <1>5, <2>1, <2>2, <2>3, EmptyLineShown DEF Tracks
<1>8. ShownLine(<<>>) = <<>>
  BY <1>1, EmptyLineShown, ShownIs
<1>9. Screen(<<>>) = <<>>
  <2>1. Shown(<<>>).above = <<>> /\ Shown(<<>>).line = <<>>
    BY <1>6 DEF Blank
  <2>2. Screen(<<>>) = <<>> \o <<>>
    BY <1>3, <1>8, <2>1, ScreenIs
  <2> QED
    BY <2>2
<1> QED
  BY <1>3, <1>4, <1>7, <1>9 DEF Shows, NewCapture

\* OnReadable() after any read
LEMMA OnReadableShows ==
    ASSUME NEW pc, NEW s \in Seq(Byte), NEW bytes \in Seq(Byte), NEW listened \in BOOLEAN,
           Shows(pc, s)
    PROVE  Shows(OnReadable(pc, bytes, listened), s \o bytes)
<1> DEFINE readbuf == pc.readbuf \o bytes
           start == [pc EXCEPT !.readbuf = PartialChar(readbuf)]
           line == FoldLeft(Put, start, Decoded(readbuf))
           pasted == Paste(line)
           all == s \o bytes
<1>1. /\ Tracks(pc, Decoded(s)) /\ pc.readbuf = PartialChar(s) /\ pc \in Captures
  BY DEF Shows, Tracks
<1>2. /\ PartialChar(s) \in Seq(Byte)
      /\ Decoded(all) = Decoded(s) \o Decoded(readbuf)
      /\ PartialChar(all) = PartialChar(readbuf)
  BY <1>1, ReadsJoin
<1>3. all \in Seq(Byte) /\ readbuf \in Seq(Byte)
  BY <1>1, <1>2
<1>4. Decoded(s) \in Seq(Byte) /\ Decoded(readbuf) \in Seq(Byte) /\ Decoded(all) \in Seq(Byte)
  BY <1>3, DecodedIs
<1>5. PartialChar(readbuf) \in Seq(Byte)
  BY <1>3, ReadsJoin
<1> HIDE DEF readbuf, all
<1>6. Tracks(start, Decoded(s)) /\ start.readbuf = PartialChar(readbuf)
  BY <1>1, <1>5 DEF Tracks, Captures, CaptureRecords
<1> HIDE DEF start
<1>7. Tracks(line, Decoded(all)) /\ line.readbuf = PartialChar(all)
  BY <1>2, <1>4, <1>6, PutsTrack
<1> HIDE DEF line
<1>8. /\ Tracks(pasted, Decoded(all)) /\ pasted.readbuf = PartialChar(all)
      /\ pasted.capturebuf = Screen(all)
  BY <1>4, <1>7, PasteTracks, ScreenIs
<1>9. OnReadable(pc, bytes, listened) =
          IF listened THEN [pasted EXCEPT !.callerbuf = pasted.capturebuf] ELSE pasted
  BY DEF OnReadable, pasted, line, start, readbuf
<1> HIDE DEF pasted
<1>10. pasted \in Captures
  BY <1>8 DEF Tracks
<1>11. Shows([pasted EXCEPT !.callerbuf = pasted.capturebuf], all)
  BY <1>8, <1>10 DEF Shows, Tracks, Captures, CaptureRecords
<1> QED
  BY <1>8, <1>9, <1>11 DEF Shows, all

\* At the end of a pipe its caller gets what was captured.
LEMMA OnEofShows ==
    ASSUME NEW pc, NEW s, Shows(pc, s)
    PROVE  Shows(OnEof(pc), s) /\ OnEof(pc).callerbuf = Screen(s)
BY DEF Shows, Tracks, Captures, CaptureRecords, OnEof

----------------------------------------------------------------------------
(* What the captures hold while a command runs.                            *)

Reading == {"locked", "half", "connected", "waiting"}

\* Each capture shows what has been read, to the caller as well once its pipe ended.
CaptureInv ==
    /\ captures = [s \in Streams |-> captures[s]]
    /\ seen \in [Streams -> Seq(Byte)]
    /\ caller = "spawned" => \A s \in Streams : seen[s] = <<>>
    /\ caller \in Reading =>
        /\ \A s \in Streams : Shows(captures[s], seen[s])
        /\ \A s \in Connected \ watching : captures[s].callerbuf = Screen(seen[s])
    /\ Returned => \A s \in Streams : captures[s].callerbuf = Screen(seen[s])

\* New captures have read nothing, and nothing has been read.
LEMMA NewCaptures ==
    ASSUME CaptureInv, caller = "spawned", captures' = [s \in Streams |-> NewCapture],
           UNCHANGED seen
    PROVE  /\ captures' = [s \in Streams |-> captures'[s]]
           /\ seen' \in [Streams -> Seq(Byte)]
           /\ \A s \in Streams : Shows(captures'[s], seen'[s])
BY NewCaptureShows DEF CaptureInv

\* When a command starts nothing is read of its output.
LEMMA SpawnCaptures ==
    ASSUME IInv, CaptureInv, Spawn
    PROVE  CaptureInv'
<1>1. UNCHANGED captures /\ seen' = [s \in Streams |-> <<>>] /\ caller' = "spawned"
  BY DEF Spawn
<1>2. seen' \in [Streams -> Seq(Byte)] /\ \A s \in Streams : seen'[s] = <<>>
  BY <1>1
<1> QED
  BY <1>1, <1>2 DEF CaptureInv, Reading, Returned

\* A command which does not start promises no output.
LEMMA SpawnFailsCaptures ==
    ASSUME IInv, CaptureInv, SpawnFails
    PROVE  CaptureInv'
<1>1. /\ UNCHANGED captures /\ seen' = [s \in Streams |-> <<>>] /\ caller' = "returned"
      /\ ~This.spawns /\ This' = This
  BY DEF SpawnFails, io, This
<1>2. seen' \in [Streams -> Seq(Byte)] /\ \A s \in Streams : seen'[s] = <<>>
  BY <1>1
<1> QED
  BY <1>1, <1>2 DEF CaptureInv, Reading, Returned

\* A foreground command starts with new captures.
LEMMA ConnectCaptures ==
    ASSUME IInv, CaptureInv, Connect
    PROVE  CaptureInv'
<1>1. /\ captures' = [s \in Streams |-> NewCapture] /\ UNCHANGED seen
      /\ caller = "spawned" /\ caller' = "waiting" /\ watching' = Streams
  BY DEF Connect
<1>2. Connected' \ watching' = {}
  BY <1>1 DEF Connected
<1> QED
  BY <1>1, <1>2, NewCaptures DEF CaptureInv, Reading, Returned

\* A background command starts with new captures.
LEMMA LockCaptures ==
    ASSUME IInv, CaptureInv, Lock
    PROVE  CaptureInv'
<1>1. /\ captures' = [s \in Streams |-> NewCapture] /\ UNCHANGED seen
      /\ caller = "spawned" /\ caller' = "locked"
  BY DEF Lock
<1>2. Connected' \ watching' = {}
  BY <1>1 DEF Connected
<1> QED
  BY <1>1, <1>2, NewCaptures DEF CaptureInv, Reading, Returned

\* A capture which starts to be watched has not ended.
LEMMA ConnectStreamCaptures ==
    ASSUME IInv, CaptureInv, ConnectOutput \/ ConnectError
    PROVE  CaptureInv'
<1>1. /\ UNCHANGED <<captures, seen>> /\ caller \in Reading /\ caller' \in Reading
      /\ caller' \notin {"spawned", "returned"}
  BY DEF ConnectOutput, ConnectError, ConnectStream, io, Reading
<1>2. Connected' \ watching' \subseteq Connected \ watching
  BY DEF ConnectOutput, ConnectError, ConnectStream, Connected, Streams
<1> QED
  BY <1>1, <1>2 DEF CaptureInv, Returned

\* Waiting captures nothing.
LEMMA WaitCaptures ==
    ASSUME IInv, CaptureInv, Wait
    PROVE  CaptureInv'
<1>1. /\ UNCHANGED <<captures, seen, watching>> /\ caller = "connected" /\ caller' = "waiting"
  BY DEF Wait, io
<1>2. Connected' = Connected
  BY <1>1 DEF Connected
<1> QED
  BY <1>1, <1>2 DEF CaptureInv, Reading, Returned

\* When the caller is woken both pipes have ended.
LEMMA ReturnCaptures ==
    ASSUME IInv, CaptureInv, LeaveLoop \/ WakeUp
    PROVE  CaptureInv'
<1>1. /\ UNCHANGED <<captures, seen, watching>> /\ caller = "waiting" /\ caller' = "returned"
      /\ woken
  BY DEF LeaveLoop, WakeUp, io
<1>2. AllEnded
  BY <1>1 DEF IInv, WakeInv
<1>3. watching = {} /\ Connected = Streams
  BY <1>1, <1>2 DEF IInv, EndsInv, AllEnded, Connected, Streams
<1> QED
  BY <1>1, <1>3 DEF CaptureInv, Reading, Returned

\* Nothing is promised of the next command.
LEMMA NextCommandCaptures ==
    ASSUME IInv, CaptureInv, NextCommand
    PROVE  CaptureInv'
<1>1. UNCHANGED <<captures, seen>> /\ caller' \in {"ready", "done"}
  BY DEF NextCommand, io
<1> QED
  BY <1>1 DEF CaptureInv, Reading, Returned

\* What is read is shown with what was read before.
LEMMA ReadableCaptures ==
    ASSUME IInv, CaptureInv, NEW s \in Streams, Readable(s)
    PROVE  CaptureInv'
<1>1. PICK n \in 1 .. Len(pipes[s].data) :
          LET bytes == SubSeq(pipes[s].data, 1, n) IN
          /\ captures' = [captures EXCEPT ![s] = OnReadable(@, bytes, This.by = "operation")]
          /\ seen' = [seen EXCEPT ![s] = @ \o bytes]
  BY DEF Readable
<1> DEFINE bytes == SubSeq(pipes[s].data, 1, n)
           listened == (This.by = "operation")
<1>2. /\ captures' = [captures EXCEPT ![s] = OnReadable(captures[s], bytes, listened)]
      /\ seen' = [seen EXCEPT ![s] = seen[s] \o bytes]
  BY <1>1
<1>3. bytes \in Seq(Byte) /\ listened \in BOOLEAN
  <2>1. pipes[s].data \in Seq(Byte)
    BY DEF IInv, TypeOK
  <2> QED
    BY <2>1
<1>4. UNCHANGED <<caller, watching, script, current>> /\ s \in watching
  BY DEF Readable
<1>5. s \in Connected /\ Connected' = Connected
  BY <1>4 DEF IInv, EndsInv, Connected
<1>6. caller \in Reading /\ caller \notin {"spawned", "returned"}
  BY <1>5 DEF Connected, Reading
<1> HIDE DEF bytes, listened
<1>7. /\ captures = [r \in Streams |-> captures[r]] /\ seen \in [Streams -> Seq(Byte)]
      /\ \A r \in Streams : Shows(captures[r], seen[r])
      /\ \A r \in Connected \ watching : captures[r].callerbuf = Screen(seen[r])
  BY <1>6 DEF CaptureInv
<1>8. Shows(OnReadable(captures[s], bytes, listened), seen[s] \o bytes)
  BY <1>3, <1>7, OnReadableShows
<1>9. seen[s] \o bytes \in Seq(Byte)
  BY <1>3, <1>7
<1>10. /\ captures' = [r \in Streams |-> captures'[r]] /\ seen' \in [Streams -> Seq(Byte)]
       /\ captures'[s] = OnReadable(captures[s], bytes, listened)
       /\ seen'[s] = seen[s] \o bytes
       /\ \A r \in Streams \ {s} : captures'[r] = captures[r] /\ seen'[r] = seen[r]
  BY <1>2, <1>7, <1>9
<1>11. \A r \in Streams : Shows(captures'[r], seen'[r])
  BY <1>7, <1>8, <1>10
<1>12. \A r \in Connected \ watching : captures'[r].callerbuf = Screen(seen'[r])
  <2>1. \A r \in Connected \ watching : r \in Streams \ {s}
    BY <1>4 DEF Connected, Streams
  <2> QED
    BY <1>7, <1>10, <2>1
<1> QED
  BY <1>4, <1>5, <1>6, <1>10, <1>11, <1>12 DEF CaptureInv, Returned

\* The end of a pipe gives the caller what was captured.
LEMMA execute_command_eofCaptures ==
    ASSUME IInv, CaptureInv, NEW s \in Streams, execute_command_eof(s)
    PROVE  CaptureInv'
<1>1. /\ captures' = [captures EXCEPT ![s] = OnEof(captures[s])] /\ UNCHANGED seen
      /\ watching' = watching \ {s} /\ UNCHANGED <<caller, script, current>> /\ s \in watching
  BY DEF execute_command_eof
<1>2. s \in Connected /\ Connected' = Connected
  BY <1>1 DEF IInv, EndsInv, Connected
<1>3. caller \in Reading /\ caller \notin {"spawned", "returned"}
  BY <1>2 DEF Connected, Reading
<1>4. /\ captures = [r \in Streams |-> captures[r]] /\ seen \in [Streams -> Seq(Byte)]
      /\ \A r \in Streams : Shows(captures[r], seen[r])
      /\ \A r \in Connected \ watching : captures[r].callerbuf = Screen(seen[r])
  BY <1>3 DEF CaptureInv
<1>5. Shows(OnEof(captures[s]), seen[s]) /\ OnEof(captures[s]).callerbuf = Screen(seen[s])
  BY <1>4, OnEofShows
<1>6. /\ captures' = [r \in Streams |-> captures'[r]] /\ seen' = seen
      /\ captures'[s] = OnEof(captures[s])
      /\ \A r \in Streams \ {s} : captures'[r] = captures[r]
  BY <1>1, <1>4
<1>7. \A r \in Streams : Shows(captures'[r], seen'[r])
  BY <1>4, <1>5, <1>6
<1>8. \A r \in Connected \ watching' : captures'[r].callerbuf = Screen(seen'[r])
  <2>1. \A r \in Connected \ watching' : r = s \/ r \in (Streams \ {s}) \cap (Connected \ watching)
    BY <1>1 DEF Connected, Streams
  <2> QED
    BY <1>4, <1>5, <1>6, <2>1
<1> QED
  BY <1>1, <1>2, <1>3, <1>4, <1>6, <1>7, <1>8 DEF CaptureInv, Returned

\* Nothing else touches a capture.
LEMMA OthersCaptures ==
    ASSUME CaptureInv, UNCHANGED <<captures, seen, caller, watching, script, current>>
    PROVE  CaptureInv'
BY DEF CaptureInv, Reading, Returned, Connected, This

\* Before the first command nothing is captured.
LEMMA InitCaptures == Init => CaptureInv
<1> SUFFICES ASSUME Init PROVE CaptureInv
  OBVIOUS
<1>1. /\ captures = [s \in Streams |-> NewCapture] /\ seen = [s \in Streams |-> <<>>]
      /\ caller = "ready"
  BY DEF Init
<1>2. seen \in [Streams -> Seq(Byte)]
  BY <1>1
<1> QED
  BY <1>1, <1>2 DEF CaptureInv, Reading, Returned

\* No step of any actor breaks what the captures hold.
LEMMA NextCaptures == IInv /\ CaptureInv /\ [Next]_vars => CaptureInv'
<1> SUFFICES ASSUME IInv, CaptureInv, [Next]_vars PROVE CaptureInv'
  OBVIOUS
<1> DEFINE Others == UNCHANGED <<captures, seen, caller, watching, script, current>>
<1>1. CASE Caller
  BY <1>1, SpawnCaptures, SpawnFailsCaptures, ConnectCaptures, LockCaptures,
     ConnectStreamCaptures, WaitCaptures, ReturnCaptures, NextCommandCaptures DEF Caller
<1>2. CASE store_exit_status
  <2>1. Others
    BY <1>2 DEF store_exit_status, io
  <2> QED
    BY <2>1, OthersCaptures
<1>3. CASE \E s \in Streams : Readable(s) \/ execute_command_eof(s)
  BY <1>3, ReadableCaptures, execute_command_eofCaptures
<1>4. CASE Signal \/ Unlock
  <2>1. Others
    BY <1>4 DEF Signal, Unlock, io
  <2> QED
    BY <2>1, OthersCaptures
<1>5. CASE User
  <2>1. Others
    BY <1>5 DEF User, PressCancel, PressForceCancel, Answer, io
  <2> QED
    BY <2>1, OthersCaptures
<1>6. CASE ChildEnds \/ \E s \in Streams : ClosePipe(s)
  <2>1. Others
    BY <1>6 DEF ChildEnds, ClosePipe
  <2> QED
    BY <2>1, OthersCaptures
<1>7. CASE UNCHANGED vars
  <2>1. Others
    BY <1>7 DEF vars, io
  <2> QED
    BY <2>1, OthersCaptures
<1> QED
  BY <1>1, <1>2, <1>3, <1>4, <1>5, <1>6, <1>7 DEF Next, MainLoop, Ends

\* However the bytes of a command are split into reads, characters of several bytes
\* included, and in whatever order it ends and closes its pipes, its caller gets the
\* status the child ended with and all a terminal would have shown.
THEOREM ReturnsAll == Spec => []ReturnsWhatHappened
<1>1. Init => IInv /\ CaptureInv
  BY InitIInv, InitCaptures
<1>2. (IInv /\ CaptureInv) /\ [Next]_vars => (IInv /\ CaptureInv)'
  BY NextIInv, NextCaptures
<1>3. IInv /\ CaptureInv => ReturnsWhatHappened
  <2> SUFFICES ASSUME IInv, CaptureInv PROVE ReturnsWhatHappened
    OBVIOUS
  <2>1. ASSUME NEW s \in watching
        PROVE  captures[s].capturebuf = Screen(seen[s])
    <3>1. s \in Connected
      BY DEF IInv, EndsInv
    <3>2. caller \in Reading /\ s \in Streams
      BY <3>1 DEF Connected, Reading, Streams
    <3> QED
      BY <3>2 DEF CaptureInv, Shows
  <2>2. Returned => Over
    BY DEF IInv, EndsInv
  <2> QED
    BY <2>1, <2>2 DEF CaptureInv, ReturnsWhatHappened
<1> QED
  BY <1>1, <1>2, <1>3, PTL DEF Spec
================================================================================
