----------------------------- MODULE LogStream -----------------------------
(***************************************************************************)
(* The output of one job: CommandExecutor runs the mirror program as a     *)
(* child process and scans its two pipes line by line; every line goes     *)
(* through the LogHub, which keeps the last ones and passes it on to the   *)
(* clients of the event stream, and then to the job_logs table.            *)
(* From src/internal/daemon: executor.go, loghub.go, queue.go, server.go.  *)
(*                                                                         *)
(* Line k of the child goes to the stream source[k]; a line that does not  *)
(* fit the scanner's buffer ends the scanning of its pipe.                 *)
(***************************************************************************)
EXTENDS Naturals, Sequences, FiniteSets, SequencesExt

CONSTANTS
    Streams,     \* the child's two pipes
    Readers,     \* requests for the job's event stream
    MaxLines,    \* bound: lines the child writes
    PipeSize,    \* lines a pipe holds (64 KiB in the system)
    RingSize,    \* lines the hub keeps per job (500 in the code)
    BufferSize   \* lines a subscriber's channel holds (100 in the code)

ASSUME SizeAssumption ==
    /\ MaxLines \in Nat /\ PipeSize \in Nat \ {0}
    /\ RingSize \in Nat \ {0} /\ BufferSize \in Nat \ {0}

VARIABLES
    \* the child process
    child,       \* "none", "running" or "exited"
    source,      \* of each line, the stream it goes to
    long,        \* the lines that do not fit the scanner's buffer
    written,     \* the number of lines written so far
    pipe,        \* of each stream, the lines in its pipe
    helper,      \* whether a program that the child started holds the pipes
    \* CommandExecutor.Run
    exec,        \* "idle", "running" or "returned"
    scanner,     \* what each scanning goroutine is about to do
    cancelled,   \* whether the job's context is cancelled
    \* LogHub and the table
    recent,      \* recentLogs of the job
    subs,        \* the clients whose channels are registered
    chan,        \* of each client, what its channel holds
    table,       \* the lines in job_logs
    \* handleStreamLogs
    handler,     \* what each client's handler is about to do
    backlog,     \* recent lines still to be sent
    sent,        \* lines sent to each client
    \* history
    logged,      \* every line, as it was broadcast
    from,        \* of each client, the first line that was its to see
    dropped      \* clients that lost a line because their channel was full

process    == <<child, source, long, written, pipe, helper>>
executor   == <<exec, scanner, cancelled>>
hub        == <<recent, subs, chan, logged, dropped>>
web        == <<handler, backlog, sent, from>>
streamVars == <<process, executor, hub, table, web>>

Lines == 1..MaxLines

-----------------------------------------------------------------------------
StreamInit ==
    /\ child = "none" /\ source \in [Lines -> Streams] /\ long \in SUBSET Lines
    /\ written = 0 /\ pipe = [s \in Streams |-> <<>>] /\ helper = FALSE
    /\ exec = "idle" /\ scanner = [s \in Streams |-> "scan"] /\ cancelled = FALSE
    /\ recent = <<>> /\ subs = {} /\ chan = [c \in Readers |-> <<>>] /\ table = <<>>
    /\ handler = [c \in Readers |-> "idle"] /\ backlog = [c \in Readers |-> <<>>]
    /\ sent = [c \in Readers |-> <<>>]
    /\ logged = <<>> /\ from = [c \in Readers |-> 0] /\ dropped = {}

-----------------------------------------------------------------------------
(* The child process. *)

Start ==
    /\ exec = "idle" /\ exec' = "running" /\ child' = "running"
    /\ UNCHANGED <<source, long, written, pipe, helper, scanner, cancelled>>
    /\ UNCHANGED <<hub, table, web>>

(* A write waits until the pipe has room. *)
WriteLine ==
    /\ child = "running" \/ helper
    /\ written < MaxLines
    /\ Len(pipe[source[written + 1]]) < PipeSize
    /\ written' = written + 1
    /\ pipe' = [pipe EXCEPT ![source[written']] = Append(@, written')]
    /\ UNCHANGED <<child, source, long, helper, executor, hub, table, web>>

(* The child starts git, which inherits its standard error. *)
StartHelper ==
    /\ child = "running" /\ ~helper /\ written < MaxLines /\ helper' = TRUE
    /\ UNCHANGED <<child, source, long, written, pipe, executor, hub, table, web>>

HelperExits ==
    /\ helper /\ (child = "exited" => written = MaxLines) /\ helper' = FALSE
    /\ UNCHANGED <<child, source, long, written, pipe, executor, hub, table, web>>

ChildExits ==
    /\ child = "running" /\ written = MaxLines /\ ~helper /\ child' = "exited"
    /\ UNCHANGED <<source, long, written, pipe, helper, executor, hub, table, web>>

-----------------------------------------------------------------------------
(* CommandExecutor.Run *)

Cancel ==
    /\ exec = "running" /\ ~cancelled /\ cancelled' = TRUE
    /\ UNCHANGED <<process, exec, scanner, hub, table, web>>

(* exec.CommandContext kills the child, and only the child. *)
Kill ==
    /\ cancelled /\ child = "running" /\ child' = "exited"
    /\ UNCHANGED <<source, long, written, pipe, helper, executor, hub, table, web>>

(* A broadcast that waits for slow subscribers. *)
BadBroadcast(k) ==
    /\ \A c \in subs : Len(chan[c]) < BufferSize
    /\ recent' = IF Len(recent) >= RingSize THEN Append(Tail(recent), k)
                 ELSE Append(recent, k)
    /\ chan' = [c \in Readers |-> IF c \in subs THEN Append(chan[c], k) ELSE chan[c]]
    /\ logged' = Append(logged, k)
    /\ UNCHANGED <<subs, dropped>>

(* LogHub.Broadcast, under the hub's lock: into the ring, and to every     *)
(* subscriber whose channel is not full.                                   *)
Broadcast(k) ==
    LET full == {c \in subs : Len(chan[c]) >= BufferSize}
    IN  /\ recent' = IF Len(recent) >= RingSize THEN Append(Tail(recent), k)
                     ELSE Append(recent, k)
        /\ chan' = [c \in Readers |->
                       IF c \in subs \ full THEN Append(chan[c], k) ELSE chan[c]]
        /\ dropped' = dropped \cup full
        /\ logged' = Append(logged, k)
        /\ UNCHANGED subs

(* scanStream reads one line and broadcasts it; it gives up at a line that *)
(* is too long, which stays in the pipe.                                   *)
Scan(s) ==
    /\ exec = "running" /\ scanner[s] = "scan" /\ pipe[s] # <<>>
    /\ IF Head(pipe[s]) \in long
       THEN scanner' = [scanner EXCEPT ![s] = "stopped"] /\ UNCHANGED <<pipe, hub>>
       ELSE /\ scanner' = [scanner EXCEPT ![s] = "append"]
            /\ pipe' = [pipe EXCEPT ![s] = Tail(@)]
            /\ Broadcast(Head(pipe[s]))
    /\ UNCHANGED <<child, source, long, written, helper, exec, cancelled, table, web>>

(* Store.AppendLog of the line just broadcast; an error is ignored. *)
AppendLog(s) ==
    /\ scanner[s] = "append" /\ scanner' = [scanner EXCEPT ![s] = "scan"]
    /\ LET k == Last(SelectSeq(logged, LAMBDA j : source[j] = s))
       IN  table' \in {Append(table, k), table}
    /\ UNCHANGED <<process, exec, cancelled, hub, web>>

(* A pipe ends when nobody can write to it any more. *)
EndOfPipe(s) ==
    /\ exec = "running" /\ scanner[s] = "scan" /\ pipe[s] = <<>>
    /\ child = "exited" /\ ~helper
    /\ scanner' = [scanner EXCEPT ![s] = "stopped"]
    /\ UNCHANGED <<process, exec, cancelled, hub, table, web>>

(* wg.Wait and cmd.Wait. *)
Return ==
    /\ exec = "running" /\ child = "exited"
    /\ \A s \in Streams : scanner[s] = "stopped"
    /\ exec' = "returned"
    /\ UNCHANGED <<process, scanner, cancelled, hub, table, web>>

-----------------------------------------------------------------------------
(* handleStreamLogs *)

(* LogHub.Subscribe: the channel is registered and the ring copied, under  *)
(* one lock.                                                               *)
Subscribe(c) ==
    /\ handler[c] = "idle" /\ handler' = [handler EXCEPT ![c] = "recent"]
    /\ subs' = subs \cup {c} /\ backlog' = [backlog EXCEPT ![c] = recent]
    /\ from' = [from EXCEPT ![c] = Len(logged) - Len(recent) + 1]
    /\ UNCHANGED <<process, executor, recent, chan, logged, dropped, table, sent>>

(* The hub's ring itself in place of a copy. *)
BadSendRecent(c) ==
    /\ handler[c] = "recent" /\ handler' = [handler EXCEPT ![c] = "live"]
    /\ sent' = [sent EXCEPT ![c] = @ \o recent]
    /\ backlog' = [backlog EXCEPT ![c] = <<>>]
    /\ UNCHANGED <<process, executor, hub, table, from>>

SendRecent(c) ==
    /\ handler[c] = "recent" /\ handler' = [handler EXCEPT ![c] = "live"]
    /\ sent' = [sent EXCEPT ![c] = @ \o backlog[c]]
    /\ backlog' = [backlog EXCEPT ![c] = <<>>]
    /\ UNCHANGED <<process, executor, hub, table, from>>

SendLive(c) ==
    /\ handler[c] = "live" /\ chan[c] # <<>>
    /\ sent' = [sent EXCEPT ![c] = Append(@, Head(chan[c]))]
    /\ chan' = [chan EXCEPT ![c] = Tail(@)]
    /\ UNCHANGED <<process, executor, recent, subs, logged, dropped, table, handler,
                   backlog, from>>

(* The client went away: LogHub.Unsubscribe. *)
Disconnect(c) ==
    /\ handler[c] = "live" /\ handler' = [handler EXCEPT ![c] = "gone"]
    /\ subs' = subs \ {c} /\ chan' = [chan EXCEPT ![c] = <<>>]
    /\ UNCHANGED <<process, executor, recent, logged, dropped, table, backlog, sent, from>>

-----------------------------------------------------------------------------
Child == Start \/ WriteLine \/ StartHelper \/ HelperExits \/ ChildExits

Run == Cancel \/ Kill \/ Return \/ \E s \in Streams : Scan(s) \/ AppendLog(s) \/ EndOfPipe(s)

Stream == \E c \in Readers : Subscribe(c) \/ SendRecent(c) \/ SendLive(c) \/ Disconnect(c)

StreamNext == Child \/ Run \/ Stream

StreamSpec == StreamInit /\ [][StreamNext]_streamVars

(* The system schedules every process and goroutine, and a program that    *)
(* may write and has written everything exits.  Nobody has to connect or   *)
(* cancel.                                                                 *)
StreamFairness ==
    /\ WF_streamVars(WriteLine) /\ WF_streamVars(HelperExits) /\ WF_streamVars(ChildExits)
    /\ WF_streamVars(Kill) /\ WF_streamVars(Return)
    /\ \A s \in Streams :
          WF_streamVars(Scan(s)) /\ WF_streamVars(AppendLog(s)) /\ WF_streamVars(EndOfPipe(s))

FairStreamSpec == StreamSpec /\ StreamFairness

-----------------------------------------------------------------------------
(* What a connected client has been sent, and what waits for it, is the    *)
(* log from the oldest line the hub held when it subscribed, in order and  *)
(* without a gap or a repetition.  If its channel was full once there is a *)
(* gap, but what comes after it is still in order and new.                 *)
Seen(c) == sent[c] \o backlog[c] \o chan[c]

Logged(k) == CHOOSE n \in DOMAIN logged : logged[n] = k

StreamIsComplete ==
    \A c \in subs :
        IF c \notin dropped THEN Seen(c) = SubSeq(logged, from[c], Len(logged))
        ELSE \A i, j \in DOMAIN Seen(c) : i < j => Logged(Seen(c)[i]) < Logged(Seen(c)[j])

(* A job that runs, returns, cancelled or not, whatever its two pipes fill *)
(* up with, whatever program still holds them; only a line too long for    *)
(* the scanner may keep it.                                                *)
RunReturns ==
    (exec = "running") ~>
        (exec = "returned" \/ \E s \in Streams : pipe[s] # <<>> /\ Head(pipe[s]) \in long)
=============================================================================
