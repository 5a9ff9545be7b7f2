-------------------------------- MODULE Monitor --------------------------------
(***************************************************************************)
(* The monitor and the compile processes that report to it.                *)
(*                                                                         *)
(* A client connects, sends its pid, and for each function it compiles     *)
(* sends FuncStarted, a number of updates (steps, properties, progress)    *)
(* and FuncCompleted (LCMPass::runOnFunction).  A message is two writes to *)
(* a stream socket, the length and the body, each flushed (Client::send).  *)
(*                                                                         *)
(* The monitor has one thread per client: it waits in poll(), then reads   *)
(* ONE message through a stdio FILE, whose read() takes whatever the       *)
(* socket holds into the FILE's buffer, and handles it under the mutex.    *)
(* At the end of the stream the jobs the client left running are moved to  *)
(* the aborted ones.                                                       *)
(***************************************************************************)
EXTENDS Integers, Sequences

CONSTANTS
  Client,      \* compile processes; each has its own pid
  Func,        \* function names; two clients may compile the same name
  MaxUpdates   \* bound on the updates sent for one function

ASSUME MonAssumption == MaxUpdates \in Nat

None == "none"
Type == {"connect", "started", "update", "completed"}
Msg  == [type : Type, func : Func \cup {None}, step : 0 .. MaxUpdates]
Unit == [part : {"len", "body"}, msg : Msg]   \* one write of Client::write

VARIABLES
  cpc,       \* cpc[c]: "new", "idle", "started", "closed"
  cur,       \* cur[c]: function being analysed
  updates,   \* updates[c]: updates sent for it
  did,       \* did[c]: functions whose FuncCompleted was written, with updates
  pending,   \* pending[c]: message whose body is still to be written
  wire,      \* wire[c]: units in the socket
  fbuf,      \* fbuf[c]: units in the server's FILE buffer
  spc,       \* spc[c]: server thread: "listen", "connect", "poll", "read",
             \*         "cleanup", "gone"
  half,      \* half[c]: the thread has read a length and wants the body
  running,   \* running_jobs
  completed, \* completed_jobs
  aborted    \* aborted_jobs

clientVars == <<cpc, cur, updates, did, pending>>
lists == <<running, completed, aborted>>
vars  == <<clientVars, wire, fbuf, spc, half, lists>>

Job == [owner : Client, name : Func, step : 0 .. MaxUpdates]

NoMsg == [type |-> "nothing"]   \* nothing to write

Init ==
  /\ cpc = [c \in Client |-> "new"]
  /\ cur = [c \in Client |-> None]
  /\ updates = [c \in Client |-> 0]
  /\ did = [c \in Client |-> {}]
  /\ pending = [c \in Client |-> NoMsg]
  /\ wire = [c \in Client |-> <<>>]
  /\ fbuf = [c \in Client |-> <<>>]
  /\ spc = [c \in Client |-> "listen"]
  /\ half = [c \in Client |-> FALSE]
  /\ running = {} /\ completed = {} /\ aborted = {}

Closed(c) == cpc[c] = "closed"

-----------------------------------------------------------------------------
(* The client. *)

\* Client::send: the length is written and flushed, then the body.  The step is
\* the value an update reports, and 0 in the messages that report none.
Send(c, t, f, n) ==
  LET m == [type |-> t, func |-> f, step |-> n]
  IN  /\ pending[c] = NoMsg
      /\ wire' = [wire EXCEPT ![c] = Append(@, [part |-> "len", msg |-> m])]
      /\ pending' = [pending EXCEPT ![c] = m]

SendBody(c) ==
  /\ ~Closed(c)
  /\ pending[c] # NoMsg
  /\ wire' = [wire EXCEPT ![c] = Append(@, [part |-> "body", msg |-> pending[c]])]
  /\ pending' = [pending EXCEPT ![c] = NoMsg]
  /\ did' = IF pending[c].type = "completed"
              THEN [did EXCEPT ![c] = @ \cup {<<cur[c], updates[c]>>}] ELSE did
  /\ cur' = IF pending[c].type = "completed"
              THEN [cur EXCEPT ![c] = None] ELSE cur
  /\ updates' = IF pending[c].type = "completed"
              THEN [updates EXCEPT ![c] = 0] ELSE updates
  /\ UNCHANGED <<cpc, fbuf, spc, half, lists>>

Connect(c) ==
  /\ cpc[c] = "new"
  /\ Send(c, "connect", None, 0)
  /\ cpc' = [cpc EXCEPT ![c] = "idle"]
  /\ UNCHANGED <<cur, updates, did, fbuf, spc, half, lists>>

FuncStart(c, f) ==
  /\ cpc[c] = "idle"
  /\ cur[c] = None
  /\ \A d \in did[c] : d[1] # f
  /\ Send(c, "started", f, 0)
  /\ cur' = [cur EXCEPT ![c] = f]
  /\ cpc' = [cpc EXCEPT ![c] = "started"]
  /\ UNCHANGED <<updates, did, fbuf, spc, half, lists>>

FuncUpdate(c) ==
  /\ cpc[c] = "started"
  /\ updates[c] < MaxUpdates
  /\ Send(c, "update", cur[c], updates[c] + 1)
  /\ updates' = [updates EXCEPT ![c] = @ + 1]
  /\ UNCHANGED <<cpc, cur, did, fbuf, spc, half, lists>>

FuncComplete(c) ==
  /\ cpc[c] = "started"
  /\ Send(c, "completed", cur[c], 0)
  /\ cpc' = [cpc EXCEPT ![c] = "idle"]
  /\ UNCHANGED <<cur, updates, did, fbuf, spc, half, lists>>

\* The process ends, after its last function or at any point before (a message
\* may then lack its body), and the kernel closes its socket.
ClientEnd(c) ==
  /\ cpc[c] \in {"idle", "started"}
  /\ cpc' = [cpc EXCEPT ![c] = "closed"]
  /\ cur' = [cur EXCEPT ![c] = None]
  /\ updates' = [updates EXCEPT ![c] = 0]
  /\ pending' = [pending EXCEPT ![c] = NoMsg]
  /\ UNCHANGED <<did, wire, fbuf, spc, half, lists>>

-----------------------------------------------------------------------------
(* The server. *)

\* accept, and the start of the client's thread under the mutex.
Accept(c) ==
  /\ spc[c] = "listen"
  /\ cpc[c] # "new"
  /\ spc' = [spc EXCEPT ![c] = "connect"]
  /\ UNCHANGED <<clientVars, wire, fbuf, half, lists>>

\* Mutant of Poll: POLLHUP is tested before POLLIN.
PollHupFirst(c) ==
  /\ spc[c] = "poll"
  /\ wire[c] # <<>> \/ Closed(c)
  /\ spc' = [spc EXCEPT ![c] = IF Closed(c) THEN "cleanup" ELSE "read"]
  /\ UNCHANGED <<clientVars, wire, fbuf, half, lists>>

\* poll: the socket has data, or its peer is gone, which on a stream socket
\* is readable too (POLLIN | POLLHUP).  The FILE's buffer is not looked at.
Poll(c) ==
  /\ spc[c] = "poll"
  /\ wire[c] # <<>> \/ Closed(c)
  /\ spc' = [spc EXCEPT ![c] = "read"]
  /\ UNCHANGED <<clientVars, wire, fbuf, half, lists>>

\* fread on an empty FILE buffer: read() takes what is in the socket, at most
\* a buffer full.
Fill(c) ==
  /\ spc[c] \in {"connect", "read"}
  /\ fbuf[c] = <<>>
  /\ \E k \in 1 .. Len(wire[c]) :
       /\ fbuf' = [fbuf EXCEPT ![c] = SubSeq(wire[c], 1, k)]
       /\ wire' = [wire EXCEPT ![c] = SubSeq(@, k + 1, Len(@))]
  /\ UNCHANGED <<clientVars, spc, half, lists>>

\* fread at the end of the stream: parse fails, with or without half a message.
Eof(c) ==
  /\ spc[c] \in {"connect", "read"}
  /\ fbuf[c] = <<>> /\ wire[c] = <<>> /\ Closed(c)
  /\ spc' = [spc EXCEPT ![c] = "cleanup"]
  /\ half' = [half EXCEPT ![c] = FALSE]
  /\ UNCHANGED <<clientVars, wire, fbuf, lists>>

ReadLen(c) ==
  /\ spc[c] \in {"connect", "read"}
  /\ ~half[c]
  /\ fbuf[c] # <<>>
  /\ fbuf' = [fbuf EXCEPT ![c] = Tail(@)]
  /\ half' = [half EXCEPT ![c] = TRUE]
  /\ UNCHANGED <<clientVars, wire, spc, lists>>

\* handle_func_started
Started(c, f) ==
  /\ running' = running \cup {[owner |-> c, name |-> f, step |-> 0]}
  /\ UNCHANGED <<completed, aborted>>

\* Mutant of Updated: the job is looked up by its name alone.
UpdatedByName(c, f, n) ==
  /\ running' = {IF j.name = f THEN [j EXCEPT !.step = n] ELSE j : j \in running}
  /\ UNCHANGED <<completed, aborted>>

\* handle_func_step, handle_func_properties, handle_func_progress: jobs are
\* looked up by pid and name, and the value of the message is stored.
Updated(c, f, n) ==
  /\ running' = {IF j.owner = c /\ j.name = f
                   THEN [j EXCEPT !.step = n] ELSE j : j \in running}
  /\ UNCHANGED <<completed, aborted>>

\* handle_func_completed
Completed(c, f) ==
  LET match == {j \in running : j.owner = c /\ j.name = f}
  IN  /\ IF match = {}
           THEN UNCHANGED <<running, completed>>
           ELSE \E j \in match : /\ running' = running \ {j}
                                 /\ completed' = completed \cup {j}
      /\ UNCHANGED aborted

\* The body is read and the message is handled under the mutex.
HandleBody(c) ==
  /\ spc[c] \in {"connect", "read"}
  /\ half[c]
  /\ fbuf[c] # <<>>
  /\ fbuf' = [fbuf EXCEPT ![c] = Tail(@)]
  /\ half' = [half EXCEPT ![c] = FALSE]
  /\ spc' = [spc EXCEPT ![c] = "poll"]
  /\ LET m == Head(fbuf[c]).msg
     IN  CASE m.type = "started"   -> Started(c, m.func)
           [] m.type = "update"    -> Updated(c, m.func, m.step)
           [] m.type = "completed" -> Completed(c, m.func)
           [] OTHER                -> UNCHANGED lists
  /\ UNCHANGED <<clientVars, wire>>

\* Mutant of Cleanup: the thread ends without looking at the running jobs.
CleanupSkipsJobs(c) ==
  /\ spc[c] = "cleanup"
  /\ spc' = [spc EXCEPT ![c] = "gone"]
  /\ UNCHANGED <<clientVars, wire, fbuf, half, lists>>

\* The end of the thread: the client's running jobs become aborted ones.
Cleanup(c) ==
  /\ spc[c] = "cleanup"
  /\ spc' = [spc EXCEPT ![c] = "gone"]
  /\ running' = {j \in running : j.owner # c}
  /\ aborted' = aborted \cup {j \in running : j.owner = c}
  /\ UNCHANGED <<clientVars, wire, fbuf, half, completed>>

ClientStep(c) ==
  \/ Connect(c) \/ (\E f \in Func : FuncStart(c, f)) \/ FuncUpdate(c)
  \/ FuncComplete(c) \/ ClientEnd(c)

ServerStep(c) ==
  \/ Accept(c) \/ Poll(c) \/ Fill(c) \/ Eof(c) \/ ReadLen(c)
  \/ HandleBody(c) \/ Cleanup(c)

Next == \E c \in Client : ClientStep(c) \/ SendBody(c) \/ ServerStep(c)

Spec == Init /\ [][Next]_vars

\* The monitor's threads run, and a client finishes a send it has begun.  No
\* more is asked of a client: the analysis of a function may take for ever.
Fairness == \A c \in Client : WF_vars(ServerStep(c)) /\ WF_vars(SendBody(c))

FairSpec == Spec /\ Fairness

-----------------------------------------------------------------------------
(* Properties. *)

\* A job the monitor shows as aborted was not completed by its client: no
\* message of a client that has gone is lost, however late its thread reads
\* them (main.cc:487-521).
AbortedNotCompleted ==
  \A j \in aborted : \A d \in did[j.owner] : d[1] # j.name

\* What is shown of a completed job is what its client reported of it: every
\* update, and none of another client that compiles a function of the same
\* name (main.cc:595-649).
CompletedAsReported ==
  \A j \in completed : <<j.name, j.step>> \in did[j.owner]

\* Once the thread of a client is gone, none of its jobs is shown as running,
\* and every function it completed is shown as completed.
GoneMeansSettled ==
  \A c \in Client : spc[c] = "gone" =>
    /\ \A j \in running : j.owner # c
    /\ \A d \in did[c] : \E j \in completed : j.owner = c /\ j.name = d[1]

\* When a client goes away, the monitor stops showing its functions as being
\* analysed (main.cc:505-521).
EventuallySettled ==
  \A c \in Client :
    Closed(c) ~> (\A j \in running : j.owner # c)

-----------------------------------------------------------------------------
(* The inductive invariant.  It is about the stream of a client, the units   *)
(* its thread has not read yet: each fits what comes before it, the first    *)
(* one fits what the thread has handled, and the client goes on where the    *)
(* stream ends.  It is stated on values: s is the stream, run, comp and ab   *)
(* are the client's own jobs, dd is what it did, sp is where its thread is,  *)
(* and w is the part of a message that the thread wants to read next.        *)

CPC == {"new", "idle", "started", "closed"}
SPC == {"listen", "connect", "poll", "read", "cleanup", "gone"}

TypeOK ==
  /\ cpc \in [Client -> CPC]
  /\ cur \in [Client -> Func \cup {None}]
  /\ updates \in [Client -> 0 .. MaxUpdates]
  /\ did \in [Client -> SUBSET (Func \X (0 .. MaxUpdates))]
  /\ pending \in [Client -> Msg \cup {NoMsg}]
  /\ wire \in [Client -> Seq(Unit)]
  /\ fbuf \in [Client -> Seq(Unit)]
  /\ spc \in [Client -> SPC]
  /\ half \in [Client -> BOOLEAN]
  /\ running \subseteq Job /\ completed \subseteq Job /\ aborted \subseteq Job

Stream(c) == fbuf[c] \o wire[c]
Want(c) == IF half[c] THEN "body" ELSE "len"
Mine(jobs, c) == {j \in jobs : j.owner = c}

\* The thread has not handled a message yet.
Fresh(sp) == sp \in {"listen", "connect"}

\* After unit i of the stream, or after what has been handled when i is not a
\* place of the stream, function f is open with step n ...
OpenAt(run, s, i, f, n) ==
  IF i <= 0 THEN \E j \in run : j.name = f /\ j.step = n
  ELSE /\ s[i].msg.type \in {"started", "update"}
       /\ s[i].msg.func = f
       /\ s[i].msg.step = n

\* ... or no function is.
IdleAt(sp, run, s, i) ==
  IF i <= 0 THEN ~Fresh(sp) /\ run = {}
  ELSE s[i].msg.type \in {"connect", "completed"}

\* Message m may come after unit i.
Fits(sp, run, s, i, m) ==
  \/ m.type = "connect" /\ i <= 0 /\ Fresh(sp)
  \/ m.type = "started" /\ m.step = 0 /\ m.func \in Func /\ IdleAt(sp, run, s, i)
  \/ m.type = "update" /\ m.step > 0 /\ OpenAt(run, s, i, m.func, m.step - 1)
  \/ m.type = "completed" /\ \E n \in 0 .. MaxUpdates : OpenAt(run, s, i, m.func, n)

\* Unit i + 1 continues the stream: lengths and bodies alternate, the stream
\* starts with what the thread wants, and every message fits.
Continues(sp, run, s, w, i, u) ==
  IF i = 0
    THEN u.part = w /\ Fits(sp, run, s, 0, u.msg)
    ELSE \/ s[i].part = "len" /\ u.part = "body" /\ u.msg = s[i].msg
         \/ s[i].part = "body" /\ u.part = "len" /\ Fits(sp, run, s, i, u.msg)

StreamOK(sp, run, s, w) ==
  \A k \in 1 .. Len(s) : Continues(sp, run, s, w, k - 1, s[k])

IsCompletion(u) == u.part = "body" /\ u.msg.type = "completed"

\* A completion that is on its way was reported with the step its function
\* then has.
ReportOK(run, s, dd) ==
  \A k \in 1 .. Len(s) : IsCompletion(s[k]) =>
    \E n \in 0 .. MaxUpdates :
      OpenAt(run, s, k - 2, s[k].msg.func, n) /\ <<s[k].msg.func, n>> \in dd

Named(dd, f) == \E d \in dd : d[1] = f

\* A completion of f comes after unit k.
Coming(s, f, k) ==
  \E i \in 1 .. Len(s) : i > k /\ IsCompletion(s[i]) /\ s[i].msg.func = f

\* What the client has completed is among the completed jobs or on its way, and
\* a function that is open and has been completed is yet to be closed.
DidOK(run, comp, s, dd) ==
  \A f \in Func : Named(dd, f) =>
    /\ (\E j \in comp : j.name = f) \/ Coming(s, f, 0)
    /\ \A j \in run : j.name = f => Coming(s, f, 0)
    /\ \A k \in 1 .. Len(s) :
         s[k].msg.type \in {"started", "update"} /\ s[k].msg.func = f => Coming(s, f, k)

\* Where the client goes on: p, f, n and m are its cpc, cur, updates and pending.
ClientAt(p, f, n, m, sp, run, s, w, dd) ==
  /\ p = "started" => f \in Func /\ ~Named(dd, f)
  /\ m = NoMsg =>
       /\ IF s = <<>> THEN w = "len" ELSE s[Len(s)].part = "body"
       /\ p = "new" => s = <<>> /\ sp = "listen" /\ n = 0
       /\ p = "idle" => IdleAt(sp, run, s, Len(s)) /\ n = 0
       /\ p = "started" => OpenAt(run, s, Len(s), f, n)
  /\ m # NoMsg =>
       /\ IF s = <<>> THEN w = "body" /\ Fits(sp, run, s, 0, m)
                      ELSE s[Len(s)] = [part |-> "len", msg |-> m]
       /\ m.type = "connect" => p = "idle" /\ n = 0
       /\ m.type \in {"started", "update"} =>
            p = "started" /\ m.func = f /\ m.step = n
       /\ m.type = "completed" =>
            p = "idle" /\ f \in Func /\ m.func = f /\ OpenAt(run, s, Len(s) - 1, f, n)

\* A thread has at most one running job, none when it is new or gone; it leaves
\* its loop at the end of the stream, and aborts what has not been completed.
ServerOK(p, sp, run, comp, ab, s, dd) ==
  /\ \A i, j \in run : i = j
  /\ sp \in {"listen", "connect", "gone"} => run = {}
  /\ sp \in {"cleanup", "gone"} => p = "closed" /\ s = <<>>
  /\ ab # {} => sp = "gone"
  /\ \A j \in ab : ~Named(dd, j.name)
  /\ \A j \in comp : <<j.name, j.step>> \in dd

ClientOK(c) ==
  LET s == Stream(c)
      run == Mine(running, c)
      comp == Mine(completed, c)
  IN  /\ StreamOK(spc[c], run, s, Want(c))
      /\ ReportOK(run, s, did[c])
      /\ DidOK(run, comp, s, did[c])
      /\ ServerOK(cpc[c], spc[c], run, comp, Mine(aborted, c), s, did[c])
      /\ ~Closed(c) =>
           ClientAt(cpc[c], cur[c], updates[c], pending[c], spc[c], run, s, Want(c),
                    did[c])

MonInv == TypeOK /\ \A c \in Client : ClientOK(c)
=============================================================================
