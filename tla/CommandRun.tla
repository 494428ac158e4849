------------------------------- MODULE CommandRun -------------------------------
(***************************************************************************)
(* Running external commands and capturing what they write:                *)
(* OperationDetail::execute_command() in the main loop, which the user may *)
(* cancel, and Utils::execute_command(), in the main loop or in the thread *)
(* which scans the devices.                                                *)
(*                                                                         *)
(* The caller waits in a nested main loop or on a condition variable until *)
(* three callbacks have run in any order: the exit status of the child and *)
(* the end of either pipe.                                                 *)
(***************************************************************************)
EXTENDS PipeCapture

CONSTANT Scripts    \* sequences of commands the program may run

Streams == {"out", "err"}

\* by: operation (OperationDetail), foreground or background (Utils in the main
\* or in the scanning thread); out and err are what the command writes
Command(by, out, err, status, spawns, cancel_safe) ==
    [by |-> by, text |-> [out |-> out, err |-> err], status |-> status,
     spawns |-> spawns, cancel_safe |-> cancel_safe]

Commands ==
    [by : {"operation", "foreground", "background"}, text : [Streams -> Seq(Byte)],
     status : Nat, spawns : BOOLEAN, cancel_safe : BOOLEAN]

ASSUME ScriptsAssumption == \A s \in Scripts : s \in Seq(Commands) /\ s # <<>>

VARIABLES
    script,         \* commands run one after the other
    current,        \* which one is run
    caller,         \* thread which runs it: ready, spawned, locked, half and
                    \* connected (one or both captures), waiting, returned, done
    woken,          \* its main loop has been told to quit, its condition signalled
    cmd,            \* CommandStatus: running, pipecount, exit_status
    captures,       \* PipeCapture of each stream, whose callerbuf is for
                    \* operations the static cmd_status.output and error
    watching,       \* streams with an I/O watch
    child_watch,    \* store_exit_status() is to be called
    main,           \* main loop: idle, locking or unlocking the mutex of the
                    \* background command in a callback
    mutex,          \* holder: none, caller or main
    process,        \* none, alive, ended
    status,         \* of the process which has ended
    pipes,          \* per stream: bytes not yet read, writing end open
    cancelflag,     \* of the operation: 0, 1 cancelled, 2 forced
    connected,      \* commands whose signal_cancel has cancel_command() connected
    asking,         \* on_cancel() runs its dialog
    interrupted,    \* the process got SIGINT
    seen,           \* auxiliary: bytes read from each stream
    stray           \* auxiliary: a quit or signal nobody waited for

child == <<process, status, interrupted>>
user == <<cancelflag, connected, asking>>
io == <<captures, pipes, seen>>
vars == <<script, current, caller, woken, cmd, watching, child_watch, main, mutex,
          stray, child, user, io>>

This == script[current]
Background == This.by = "background"
Foreground == ~Background

SIGINT == 2
NotRun == 127           \* get_failure_status()
Unset == -1             \* exit_status of Utils is not initialised

----------------------------------------------------------------------------
(* The caller.                                                             *)

Init ==
    /\ script \in Scripts
    /\ current = 1
    /\ caller = "ready" /\ woken = FALSE
    /\ cmd = [running |-> FALSE, pipecount |-> 0, exit_status |-> 0]
    /\ captures = [s \in Streams |-> NewCapture]
    /\ watching = {} /\ child_watch = FALSE
    /\ main = "idle" /\ mutex = "none"
    /\ process = "none" /\ status = 0 /\ interrupted = FALSE
    /\ pipes = [s \in Streams |-> [data |-> <<>>, open |-> FALSE]]
    /\ cancelflag = 0 /\ connected = {} /\ asking = FALSE
    /\ seen = [s \in Streams |-> <<>>]
    /\ stray = FALSE

Started == [running |-> TRUE, pipecount |-> 2,
            exit_status |-> IF This.by = "operation" THEN 255 ELSE Unset]

\* The child runs, its exit will be reported.
Spawn ==
    /\ caller = "ready" /\ This.spawns
    /\ cmd' = Started
    /\ process' = "alive" /\ interrupted' = FALSE
    /\ pipes' = [s \in Streams |-> [data |-> This.text[s], open |-> TRUE]]
    /\ seen' = [s \in Streams |-> <<>>]
    /\ child_watch' = TRUE
    /\ caller' = "spawned"
    /\ UNCHANGED <<script, current, woken, captures, watching, main, mutex, stray,
                   status, user>>

\* Glib::SpawnError: nothing is captured
SpawnFails ==
    /\ caller = "ready" /\ ~This.spawns
    /\ cmd' = [Started EXCEPT !.exit_status = NotRun]
    /\ process' = "none" /\ interrupted' = FALSE
    /\ seen' = [s \in Streams |-> <<>>]
    /\ caller' = "returned"
    /\ UNCHANGED <<script, current, woken, captures, watching, child_watch, main,
                   mutex, stray, status, pipes, user>>

\* The main thread connects everything and enters Gtk::Main::run(); the cancel
\* signal of an operation's command is connected after the flag of its parent
\* was inherited, so an earlier cancel does not reach it.
Connect ==
    /\ caller = "spawned" /\ Foreground
    /\ captures' = [s \in Streams |-> NewCapture]
    /\ watching' = Streams
    /\ connected' = IF This.by = "operation" THEN connected \union {current}
                    ELSE connected
    /\ caller' = "waiting"
    /\ UNCHANGED <<script, current, woken, cmd, child_watch, main, mutex, stray,
                   child, cancelflag, asking, pipes, seen>>

\* MUTANT of Lock: the scanning thread goes on without the mutex
Lock_Not ==
    /\ caller = "spawned" /\ Background
    /\ captures' = [s \in Streams |-> NewCapture]
    /\ caller' = "locked"
    /\ UNCHANGED <<script, current, woken, cmd, watching, child_watch, main, mutex,
                   stray, child, user, pipes, seen>>

\* The scanning thread locks the mutex so that nothing is signalled before it
\* waits.
Lock ==
    /\ caller = "spawned" /\ Background /\ mutex = "none"
    /\ mutex' = "caller"
    /\ captures' = [s \in Streams |-> NewCapture]
    /\ caller' = "locked"
    /\ UNCHANGED <<script, current, woken, cmd, watching, child_watch, main, stray,
                   child, user, pipes, seen>>

\* connect_signal() of either capture
ConnectStream(s, from, to) ==
    /\ caller = from
    /\ watching' = watching \union {s}
    /\ caller' = to
    /\ UNCHANGED <<script, current, woken, cmd, child_watch, main, mutex, stray,
                   child, user, io>>

ConnectOutput == ConnectStream("out", "locked", "half")
ConnectError == ConnectStream("err", "half", "connected")

\* cond.wait() gives the mutex back.
Wait ==
    /\ caller = "connected"
    /\ mutex' = "none"
    /\ caller' = "waiting"
    /\ UNCHANGED <<script, current, woken, cmd, watching, child_watch, main, stray,
                   child, user, io>>

\* The nested main loop ends once no dialog runs a loop inside it.
LeaveLoop ==
    /\ caller = "waiting" /\ Foreground /\ woken /\ ~asking
    /\ woken' = FALSE
    /\ caller' = "returned"
    /\ UNCHANGED <<script, current, cmd, watching, child_watch, main, mutex, stray,
                   child, user, io>>

\* cond.wait() gets the mutex back, which is then unlocked and goes away.
WakeUp ==
    /\ caller = "waiting" /\ Background /\ woken /\ mutex = "none"
    /\ woken' = FALSE
    /\ caller' = "returned"
    /\ UNCHANGED <<script, current, cmd, watching, child_watch, main, mutex, stray,
                   child, user, io>>

NextCommand ==
    /\ caller = "returned"
    /\ IF current < Len(script)
       THEN current' = current + 1 /\ caller' = "ready"
       ELSE caller' = "done" /\ UNCHANGED current
    /\ UNCHANGED <<script, woken, cmd, watching, child_watch, main, mutex, stray,
                   child, user, io>>

----------------------------------------------------------------------------
(* Callbacks, which the main loop runs; the caller itself runs it when it  *)
(* is in the foreground.                                                   *)

Dispatching == main = "idle" /\ (Foreground => caller = "waiting")

\* The last of the three ends wakes the caller.
Wake(last) ==
    /\ main' = IF last /\ Background THEN "locking" ELSE main
    /\ woken' = (woken \/ (last /\ Foreground))
    /\ stray' = (stray \/ (last /\ Foreground /\ woken))

store_exit_status ==
    /\ Dispatching /\ child_watch /\ process = "ended"
    /\ child_watch' = FALSE
    /\ cmd' = [cmd EXCEPT !.running = FALSE, !.exit_status = status]
    /\ Wake(cmd.pipecount = 0)
    /\ UNCHANGED <<script, current, caller, watching, mutex, child, user, io>>

\* OnReadable() reads what is there or what m_readbuf has room for, in pieces.
Readable(s) ==
    /\ Dispatching /\ s \in watching /\ pipes[s].data # <<>>
    /\ LET room == READBUF_SIZE - Len(captures[s].readbuf) IN
       \E n \in {k \in 1 .. Len(pipes[s].data) : k <= room} :
          LET bytes == SubSeq(pipes[s].data, 1, n) IN
          /\ captures' = [captures EXCEPT ![s] = OnReadable(@, bytes, This.by = "operation")]
          /\ pipes' = [pipes EXCEPT ![s].data = SubSeq(@, n + 1, Len(@))]
          /\ seen' = [seen EXCEPT ![s] = @ \o bytes]
    /\ UNCHANGED <<script, current, caller, woken, cmd, watching, child_watch, main,
                   mutex, stray, child, user>>

\* MUTANT of execute_command_eof: the exit status is relied on to wake the caller
execute_command_eof_Waits(s) ==
    /\ Dispatching /\ s \in watching /\ pipes[s].data = <<>> /\ ~pipes[s].open
    /\ watching' = watching \ {s}
    /\ captures' = [captures EXCEPT ![s] = OnEof(@)]
    /\ cmd' = [cmd EXCEPT !.pipecount = @ - 1]
    /\ Wake(FALSE)
    /\ UNCHANGED <<script, current, caller, child_watch, mutex, child, user, pipes, seen>>

\* MUTANT of execute_command_eof: the child is taken to have ended
execute_command_eof_Quits(s) ==
    /\ Dispatching /\ s \in watching /\ pipes[s].data = <<>> /\ ~pipes[s].open
    /\ watching' = watching \ {s}
    /\ captures' = [captures EXCEPT ![s] = OnEof(@)]
    /\ cmd' = [cmd EXCEPT !.pipecount = @ - 1]
    /\ Wake(cmd.pipecount = 1)
    /\ UNCHANGED <<script, current, caller, child_watch, mutex, child, user, pipes, seen>>

\* OnReadable() at the end of a pipe calls execute_command_eof().
execute_command_eof(s) ==
    /\ Dispatching /\ s \in watching /\ pipes[s].data = <<>> /\ ~pipes[s].open
    /\ watching' = watching \ {s}
    /\ captures' = [captures EXCEPT ![s] = OnEof(@)]
    /\ cmd' = [cmd EXCEPT !.pipecount = @ - 1]
    /\ Wake(cmd.pipecount = 1 /\ ~cmd.running)
    /\ UNCHANGED <<script, current, caller, child_watch, mutex, child, user, pipes, seen>>

\* mutex.lock(), cond.signal()
Signal ==
    /\ main = "locking" /\ mutex = "none"
    /\ mutex' = "main"
    /\ main' = "unlocking"
    /\ woken' = (caller = "waiting")
    /\ stray' = (stray \/ caller # "waiting")
    /\ UNCHANGED <<script, current, caller, cmd, watching, child_watch, child, user, io>>

\* mutex.unlock()
Unlock ==
    /\ main = "unlocking"
    /\ mutex' = "none"
    /\ main' = "idle"
    /\ UNCHANGED <<script, current, caller, woken, cmd, watching, child_watch, stray,
                   child, user, io>>

----------------------------------------------------------------------------
(* The child and whoever else holds its pipes, and the user.               *)

\* A child which was interrupted may have written less.
ChildEnds ==
    /\ process = "alive"
    /\ process' = "ended"
    /\ \/ status' = This.status /\ UNCHANGED pipes
       \/ /\ interrupted /\ status' = 128 + SIGINT
          /\ pipes' = [s \in Streams |-> [pipes[s] EXCEPT !.data = <<>>]]
    /\ UNCHANGED <<script, current, caller, woken, cmd, watching, child_watch, main,
                   mutex, stray, interrupted, user, captures, seen>>

ClosePipe(s) ==
    /\ pipes[s].open
    /\ pipes' = [pipes EXCEPT ![s].open = FALSE]
    /\ UNCHANGED <<script, current, caller, woken, cmd, watching, child_watch, main,
                   mutex, stray, child, user, captures, seen>>

\* Commands cancel_command() sends SIGINT to, most of which have ended
Cancelled(force) == {c \in connected : force \/ script[c].cancel_safe}

\* signal_cancel of the operation reaches every command it has run.
EmitCancel(force) ==
    /\ cancelflag' = IF force THEN 2 ELSE 1
    /\ interrupted' = (interrupted \/ (process = "alive" /\ current \in Cancelled(force)))

InOperation == caller = "waiting" /\ This.by = "operation" /\ ~asking

\* on_cancel(): the first time at once, later after a question
PressCancel ==
    /\ InOperation /\ cancelflag = 0
    /\ EmitCancel(FALSE)
    /\ UNCHANGED <<script, current, caller, woken, cmd, watching, child_watch, main,
                   mutex, stray, process, status, connected, asking, io>>

PressForceCancel ==
    /\ InOperation /\ cancelflag = 1
    /\ asking' = TRUE
    /\ UNCHANGED <<script, current, caller, woken, cmd, watching, child_watch, main,
                   mutex, stray, child, cancelflag, connected, io>>

Answer ==
    /\ asking
    /\ asking' = FALSE
    /\ \/ EmitCancel(TRUE)
       \/ UNCHANGED <<cancelflag, interrupted>>
    /\ UNCHANGED <<script, current, caller, woken, cmd, watching, child_watch, main,
                   mutex, stray, process, status, connected, io>>

----------------------------------------------------------------------------
Caller == \/ Spawn \/ SpawnFails \/ Connect
          \/ Lock \/ ConnectOutput \/ ConnectError \/ Wait
          \/ LeaveLoop \/ WakeUp \/ NextCommand

MainLoop == \/ store_exit_status
            \/ Signal \/ Unlock
            \/ \E s \in Streams : execute_command_eof(s)
            \/ \E s \in Streams : Readable(s)

User == PressCancel \/ PressForceCancel \/ Answer

Ends == ChildEnds \/ \E s \in Streams : ClosePipe(s)

Next == Caller \/ MainLoop \/ User \/ Ends

Spec == Init /\ [][Next]_vars

\* Both threads run on, and children end and close their pipes, in any order.  It is
\* enough that one of them does something while there is something to do: a command
\* leaves each only so much.  The user does not leave a question unanswered.  A loop
\* which was told to quit ends with the iteration which ran the dialog, however
\* often the user presses.
FairSpec ==
    /\ Spec
    /\ WF_vars(Ends \/ Caller \/ MainLoop) /\ SF_vars(LeaveLoop) /\ WF_vars(Answer)
----------------------------------------------------------------------------
(* Properties.                                                             *)

TypeOK ==
    /\ script \in Scripts /\ current \in 1 .. Len(script)
    /\ caller \in {"ready", "spawned", "locked", "half", "connected", "waiting",
                   "returned", "done"}
    /\ cmd \in [running : BOOLEAN, pipecount : 0 .. 2, exit_status : Int]
    /\ watching \subseteq Streams
    /\ main \in {"idle", "locking", "unlocking"}
    /\ mutex \in {"none", "caller", "main"}
    /\ pipes \in [Streams -> [data : Seq(Byte), open : BOOLEAN]]
    /\ process \in {"none", "alive", "ended"} /\ status \in Int
    /\ cancelflag \in 0 .. 2 /\ connected \subseteq 1 .. Len(script)
    /\ woken \in BOOLEAN /\ child_watch \in BOOLEAN /\ asking \in BOOLEAN
    /\ interrupted \in BOOLEAN /\ stray \in BOOLEAN

Returned == caller = "returned" /\ This.spawns

\* Whatever the order of the three ends, the caller is woken by exactly one of
\* them: a second quit would leave the main loop around it, a signal before the
\* wait would be lost.
WokenOnce == ~stray

\* No callback outlives the call whose local variables it uses, the mutex included.
NothingDangles == caller \in {"ready", "returned", "done"} =>
    watching = {} /\ ~child_watch /\ main = "idle" /\ mutex = "none" /\ ~asking

\* The child has ended, its status is known, and all it has written is read.
Over ==
    /\ process = "ended" /\ cmd.exit_status = status
    /\ \A s \in Streams : pipes[s] = [data |-> <<>>, open |-> FALSE]

\* The caller gets the status the child ended with, and all the child has written;
\* and until then, however the bytes are split into reads, multi-byte characters
\* included, the buffer holds what a terminal would show (PipeCapture::OnReadable()).
ReturnsWhatHappened ==
    /\ \A s \in watching : captures[s].capturebuf = Screen(seen[s])
    /\ Returned => /\ Over
                   /\ \A s \in Streams : captures[s].callerbuf = Screen(seen[s])

\* Every command which was started returns, and the next ones are run.
CommandsReturn == <>(caller = "done")

----------------------------------------------------------------------------
(* The inductive invariant behind WokenOnce and NothingDangles.            *)

Active == caller \in {"spawned", "locked", "half", "connected", "waiting"}

\* The streams which are, or were, watched
Connected == CASE caller = "half" -> {"out"}
               [] caller \in {"connected", "waiting"} -> Streams
               [] OTHER -> {}

\* pipecount and running count the ends which are still to come.
EndsInv ==
    /\ watching \subseteq Connected
    /\ Active =>
        /\ cmd.pipecount = (IF "out" \in Connected \ watching THEN 0 ELSE 1)
                           + (IF "err" \in Connected \ watching THEN 0 ELSE 1)
        /\ cmd.running = child_watch
        /\ ~child_watch => process = "ended" /\ cmd.exit_status = status
        /\ \A s \in Connected \ watching : pipes[s] = [data |-> <<>>, open |-> FALSE]
    /\ Returned => Over

AllEnded == Active /\ cmd.pipecount = 0 /\ ~cmd.running

\* Only the last end wakes the caller, on its way through the mutex if the
\* caller is the scanning thread.
WakeInv ==
    /\ ~AllEnded => ~woken /\ main = "idle"
    /\ AllEnded /\ Foreground => woken /\ main = "idle"
    /\ AllEnded /\ Background => woken = (main # "locking")

MutexInv ==
    /\ mutex = "caller" <=> caller \in {"locked", "half", "connected"}
    /\ mutex = "main" <=> main = "unlocking"
    /\ main = "unlocking" => caller = "waiting"
    /\ Foreground => caller \notin {"locked", "half", "connected"}
    /\ asking => Foreground /\ caller = "waiting"

IInv == TypeOK /\ EndsInv /\ WakeInv /\ MutexInv /\ WokenOnce /\ NothingDangles
=============================================================================
