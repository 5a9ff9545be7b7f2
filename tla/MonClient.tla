------------------------------- MODULE MonClient -------------------------------
(***************************************************************************)
(* The connection of a compile process to the monitor (mon::Client), used  *)
(* by its threads.  send() holds a recursive mutex for the whole message:  *)
(* it tests good(), then writes the length and the body, and each write    *)
(* asserts good() again, disconnects when fwrite falls short, and ignores  *)
(* the result of fflush.  The monitor may go away at any time (SIGPIPE is  *)
(* ignored), and the client must outlive it.                               *)
(***************************************************************************)
EXTENDS Naturals, Sequences

CONSTANTS
  Thread,    \* threads that send
  MaxSends   \* bound on the messages of a thread

ASSUME ClientAssumption == MaxSends \in Nat /\ "free" \notin Thread

Size == {"small", "large"}    \* below and above the size of the FILE buffer

VARIABLES
  good,     \* f is not null
  peer,     \* the monitor is there
  mutex,    \* owner of the recursive mutex, or "free"
  pc,       \* pc[t]: "idle", "lock", "len", "body", "unlock"
  msg,      \* msg[t]: the message being sent, <<thread, number, size>>
  sends,    \* sends[t]: sends begun
  wire,     \* what has reached the socket
  asserted  \* an assertion of mon::Client has failed

vars == <<good, peer, mutex, pc, msg, sends, wire, asserted>>

NoMsg == <<>>

Init ==
  /\ good = TRUE /\ peer = TRUE
  /\ mutex = "free"
  /\ pc = [t \in Thread |-> "idle"]
  /\ msg = [t \in Thread |-> NoMsg]
  /\ sends = [t \in Thread |-> 0]
  /\ wire = <<>>
  /\ asserted = FALSE

MonitorGone == /\ peer
               /\ peer' = FALSE
               /\ UNCHANGED <<good, mutex, pc, msg, sends, wire, asserted>>

Call(t) ==
  /\ pc[t] = "idle" /\ sends[t] < MaxSends
  /\ \E s \in Size : msg' = [msg EXCEPT ![t] = <<t, sends[t] + 1, s>>]
  /\ sends' = [sends EXCEPT ![t] = @ + 1]
  /\ pc' = [pc EXCEPT ![t] = "lock"]
  /\ UNCHANGED <<good, peer, mutex, wire, asserted>>

\* Mutant of Lock: send() tests good() and writes without the mutex.
LockForgotten(t) ==
  /\ pc[t] = "lock"
  /\ pc' = [pc EXCEPT ![t] = IF good THEN "len" ELSE "unlock"]
  /\ UNCHANGED <<good, peer, mutex, msg, sends, wire, asserted>>

\* Mutant of Lock: try_lock, and the message is dropped when it fails.
LockOrDrop(t) ==
  /\ pc[t] = "lock"
  /\ IF mutex = "free"
       THEN /\ mutex' = t
            /\ pc' = [pc EXCEPT ![t] = IF good THEN "len" ELSE "unlock"]
            /\ UNCHANGED msg
       ELSE /\ pc' = [pc EXCEPT ![t] = "idle"]
            /\ msg' = [msg EXCEPT ![t] = NoMsg]
            /\ UNCHANGED mutex
  /\ UNCHANGED <<good, peer, sends, wire, asserted>>

\* The head of send(): the lock and the early return.
Lock(t) ==
  /\ pc[t] = "lock" /\ mutex = "free"
  /\ mutex' = t
  /\ pc' = [pc EXCEPT ![t] = IF good THEN "len" ELSE "unlock"]
  /\ UNCHANGED <<good, peer, msg, sends, wire, asserted>>

\* Short writes go to the FILE buffer and cannot fail; a long one goes to the
\* socket at once and fails when the monitor is gone.
FwriteFails(part, t) == part = "body" /\ msg[t][3] = "large" /\ ~peer

\* write(): assert(good()), fwrite, then disconnect() or fflush(), which fails
\* silently when the monitor is gone.
Write(t, part, next) ==
  /\ pc[t] = part
  /\ asserted' = (asserted \/ ~good)
  /\ good' = (good /\ ~FwriteFails(part, t))
  /\ wire' = IF good /\ peer THEN Append(wire, <<part, msg[t]>>) ELSE wire
  /\ pc' = [pc EXCEPT ![t] = next]
  /\ UNCHANGED <<peer, mutex, msg, sends>>

\* Mutant of Unlock: the mutex is kept.
UnlockForgotten(t) ==
  /\ pc[t] = "unlock"
  /\ msg' = [msg EXCEPT ![t] = NoMsg]
  /\ pc' = [pc EXCEPT ![t] = "idle"]
  /\ UNCHANGED <<good, peer, mutex, sends, wire, asserted>>

Unlock(t) ==
  /\ pc[t] = "unlock"
  /\ mutex' = "free"
  /\ msg' = [msg EXCEPT ![t] = NoMsg]
  /\ pc' = [pc EXCEPT ![t] = "idle"]
  /\ UNCHANGED <<good, peer, sends, wire, asserted>>

Step(t) == \/ Lock(t) \/ Write(t, "len", "body") \/ Write(t, "body", "unlock")
           \/ Unlock(t)

Next == MonitorGone \/ \E t \in Thread : Call(t) \/ Step(t)

\* A thread that has called send() keeps running; the monitor need never go.
Spec == Init /\ [][Next]_vars /\ \A t \in Thread : WF_vars(Step(t))

-----------------------------------------------------------------------------
\* assert(good()) holds in every write and in the disconnect inside it, also
\* when the monitor dies between the two writes of a message and other threads
\* are sending (client.cc:18, 62).
AssertGood == ~asserted

\* The stream is a sequence of whole messages, the last of which may lack its
\* body: the parts of two messages are never mixed (client.h:62-71).
FramesIntact ==
  \A k \in 1 .. Len(wire) :
    IF k % 2 = 1
      THEN wire[k][1] = "len"
      ELSE wire[k][1] = "body" /\ wire[k][2] = wire[k - 1][2]

\* The places of thread t's message bodies in the stream.
Bodies(t) == {k \in 1 .. Len(wire) : wire[k][1] = "body" /\ wire[k][2][1] = t}

\* The monitor that stays gets the messages of a thread in the order in which
\* they were sent, each once and all of them (client.h:62-71).
NothingLost ==
  peer => \A t \in Thread :
    /\ \A j, k \in Bodies(t) : j < k => wire[j][2][2] < wire[k][2][2]
    /\ pc[t] = "idle" => {wire[k][2][2] : k \in Bodies(t)} = 1 .. sends[t]

\* send() returns, whatever happens to the monitor.
SendReturns == \A t \in Thread : pc[t] = "lock" ~> pc[t] = "idle"

-----------------------------------------------------------------------------
(* The inductive invariant. *)

PC == {"idle", "lock", "len", "body", "unlock"}
Message == Thread \X (1 .. MaxSends) \X Size

TypeOK ==
  /\ good \in BOOLEAN /\ peer \in BOOLEAN /\ asserted \in BOOLEAN
  /\ mutex \in Thread \cup {"free"}
  /\ pc \in [Thread -> PC]
  /\ sends \in [Thread -> 0 .. MaxSends]
  /\ msg \in [Thread -> Message \cup {NoMsg}]
  /\ wire \in Seq({"len", "body"} \X Message)

\* The thread that owns the mutex is the one inside send(), the connection is
\* there while it writes, and only a monitor that has gone can break it.
LockInv ==
  /\ \A t \in Thread : mutex = t <=> pc[t] \in {"len", "body", "unlock"}
  /\ \A t \in Thread : pc[t] \in {"len", "body"} => good
  /\ peer => good
  /\ ~asserted

\* The message of a send in progress is the last one the thread began.
MsgInv ==
  \A t \in Thread : pc[t] # "idle" =>
    msg[t] \in Message /\ msg[t][1] = t /\ msg[t][2] = sends[t]

\* The stream has a length without its body at its end only, and only while
\* the thread that wrote it is about to write the body.
FrameInv ==
  /\ FramesIntact
  /\ peer =>
       /\ \A t \in Thread : pc[t] = "body" =>
            Len(wire) % 2 = 1 /\ wire[Len(wire)] = <<"len", msg[t]>>
       /\ (\A t \in Thread : pc[t] # "body") => Len(wire) % 2 = 0

\* What has been sent of each thread, up to the message it is sending.
SentInv ==
  peer => \A t \in Thread :
    /\ \A j, k \in Bodies(t) : j < k => wire[j][2][2] < wire[k][2][2]
    /\ {wire[k][2][2] : k \in Bodies(t)} =
         1 .. (IF pc[t] \in {"lock", "len", "body"} THEN sends[t] - 1 ELSE sends[t])

ClientInv == TypeOK /\ LockInv /\ MsgInv /\ FrameInv /\ SentInv
=============================================================================
