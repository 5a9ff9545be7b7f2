----------------------------- MODULE ThreadProofs -----------------------------
(***************************************************************************)
(* Proofs about the threads of one process: those of create_solvers, for   *)
(* any number of solvers, and those that send to the monitor, for any set  *)
(* of threads and any number of messages: the connection is never used     *)
(* after it was given up, messages are never mixed, and a monitor that     *)
(* stays gets all of them in order.                                        *)
(***************************************************************************)
EXTENDS CreateSolvers, MonClient, TLAPS

-----------------------------------------------------------------------------
(* The monitor's client. *)

\* Nothing has been sent on a fresh connection (client.h:20-40).
LEMMA ClientInitInv == Init => ClientInv
<1> SUFFICES ASSUME Init PROVE ClientInv
  BY Zenon
<1>1. TypeOK
  <2>1. wire \in Seq({"len", "body"} \X Message)
    BY DEF Init
  <2>2. msg \in [Thread -> Message \cup {NoMsg}]
    BY Zenon DEF Init
  <2>3. sends \in [Thread -> 0 .. MaxSends] /\ pc \in [Thread -> PC]
    BY ClientAssumption DEF Init, PC
  <2>4. good \in BOOLEAN /\ peer \in BOOLEAN /\ asserted \in BOOLEAN
    BY Zenon DEF Init
  <2>5. mutex \in Thread \cup {"free"}
    BY Zenon DEF Init
  <2> QED
    BY <2>1, <2>2, <2>3, <2>4, <2>5, Zenon DEF TypeOK
<1>2. LockInv /\ MsgInv
  BY ClientAssumption, Zenon DEF Init, LockInv, MsgInv
<1>3. FrameInv
  BY DEF Init, FrameInv, FramesIntact
<1>4. SentInv
  <2>1. Len(wire) = 0 /\ 1 .. 0 = {}
    BY DEF Init
  <2>2. \A t \in Thread : Bodies(t) = {}
    BY <2>1, Zenon DEF Bodies
  <2>3. \A t \in Thread : pc[t] = "idle" /\ sends[t] = 0
    BY Zenon DEF Init
  <2> QED
    BY <2>1, <2>2, <2>3, Zenon DEF SentInv
<1> QED
  BY <1>1, <1>2, <1>3, <1>4, Zenon DEF ClientInv

\* A step that leaves the stream alone leaves the places of the bodies alone.
LEMMA SameWireSameBodies ==
  ASSUME wire' = wire
  PROVE  \A t : Bodies(t)' = Bodies(t)
  BY Zenon DEF Bodies

\* The monitor going away breaks nothing by itself.
LEMMA GoneInv == ClientInv /\ MonitorGone => ClientInv'
<1> SUFFICES ASSUME ClientInv, MonitorGone PROVE ClientInv'
  BY Zenon
<1>1. TypeOK' /\ LockInv' /\ MsgInv'
  BY Zenon DEF ClientInv, MonitorGone, TypeOK, LockInv, MsgInv
<1>2. FrameInv' /\ SentInv'
  BY Zenon DEF ClientInv, MonitorGone, FrameInv, FramesIntact, SentInv
<1> QED
  BY <1>1, <1>2, Zenon DEF ClientInv

\* A call of send() numbers its message one above the thread's last.
LEMMA CallInv == ASSUME NEW t \in Thread, ClientInv, Call(t) PROVE ClientInv'
<1>1. sends[t] \in 0 .. MaxSends /\ sends[t] + 1 \in 1 .. MaxSends
  BY ClientAssumption DEF ClientInv, TypeOK, Call
<1>2. PICK s \in Size : msg' = [msg EXCEPT ![t] = <<t, sends[t] + 1, s>>]
  BY Zenon DEF Call
<1>3. TypeOK'
  BY <1>1, <1>2 DEF ClientInv, TypeOK, Call, PC, Message
<1>4. LockInv' /\ MsgInv'
  BY <1>1, <1>2 DEF ClientInv, TypeOK, LockInv, MsgInv, Call, PC, Message
<1>5. FrameInv'
  BY <1>2, Zenon DEF ClientInv, TypeOK, FrameInv, FramesIntact, Call
<1>6. SentInv'
  BY <1>1, SameWireSameBodies DEF ClientInv, TypeOK, SentInv, Call
<1> QED
  BY <1>3, <1>4, <1>5, <1>6, Zenon DEF ClientInv

\* The mutex is taken by a thread when no other is inside send().
LEMMA LockStepInv == ASSUME NEW t \in Thread, ClientInv, Lock(t) PROVE ClientInv'
<1>1. TypeOK' /\ LockInv' /\ MsgInv'
  BY ClientAssumption DEF ClientInv, TypeOK, LockInv, MsgInv, Lock, PC
<1>2. FrameInv'
  BY Zenon DEF ClientInv, TypeOK, FrameInv, FramesIntact, Lock
<1>3. SentInv'
  BY SameWireSameBodies DEF ClientInv, TypeOK, SentInv, LockInv, Lock
<1> QED
  BY <1>1, <1>2, <1>3, Zenon DEF ClientInv

\* The end of send() releases it.
LEMMA UnlockInv == ASSUME NEW t \in Thread, ClientInv, Unlock(t) PROVE ClientInv'
<1>1. TypeOK' /\ LockInv' /\ MsgInv'
  BY ClientAssumption DEF ClientInv, TypeOK, LockInv, MsgInv, Unlock, PC
<1>2. FrameInv'
  BY Zenon DEF ClientInv, TypeOK, FrameInv, FramesIntact, Unlock
<1>3. SentInv'
  BY SameWireSameBodies DEF ClientInv, TypeOK, SentInv, Unlock
<1> QED
  BY <1>1, <1>2, <1>3, Zenon DEF ClientInv

\* The length is written when no message lacks its body, since the writer has
\* the mutex: it begins a new frame.
LEMMA WriteLenInv ==
  ASSUME NEW t \in Thread, ClientInv, Write(t, "len", "body") PROVE ClientInv'
<1>1. good /\ msg[t] \in Message /\ <<"len", msg[t]>> \in {"len", "body"} \X Message
  BY Zenon DEF ClientInv, LockInv, MsgInv, Write
<1>2. ~asserted' /\ good' = good
  BY <1>1, Zenon DEF ClientInv, LockInv, Write, FwriteFails
<1>3. TypeOK'
  BY <1>1, <1>2 DEF ClientInv, TypeOK, Write, PC
<1>4. LockInv' /\ MsgInv'
  <2>1. MsgInv'
    BY Zenon DEF ClientInv, TypeOK, MsgInv, Write
  <2>2. LockInv'
    <3>1. good' /\ ~asserted'
      BY <1>1, <1>2, Zenon
    <3>2. \A u \in Thread : mutex' = u <=> pc'[u] \in {"len", "body", "unlock"}
      BY Zenon DEF ClientInv, TypeOK, LockInv, Write
    <3> QED
      BY <3>1, <3>2, Zenon DEF LockInv
  <2> QED
    BY <2>1, <2>2, Zenon
<1>5. CASE ~peer
  <2>1. wire' = wire /\ ~peer'
    BY <1>5, Zenon DEF Write
  <2> QED
    BY <1>3, <1>4, <2>1, Zenon DEF ClientInv, FrameInv, FramesIntact, SentInv
<1>6. CASE peer
  <2>1. wire' = Append(wire, <<"len", msg[t]>>)
    BY <1>1, <1>6, Zenon DEF Write
  <2>2. \A u \in Thread : pc[u] # "body"
    BY ClientAssumption, Zenon DEF ClientInv, TypeOK, LockInv, Write
  <2>3. Len(wire) \in Nat /\ Len(wire) % 2 = 0 /\ Len(wire') = Len(wire) + 1
    BY <2>1, <2>2, <1>6 DEF ClientInv, TypeOK, FrameInv
  <2>4. \A k \in 1 .. Len(wire) : wire'[k] = wire[k]
    BY <2>1 DEF ClientInv, TypeOK
  <2>5. wire'[Len(wire) + 1] = <<"len", msg[t]>>
    BY <2>1 DEF ClientInv, TypeOK
  <2>6. (Len(wire) + 1) % 2 = 1
    BY <2>3
  <2>7. FramesIntact'
    <3>1. \A k \in 1 .. Len(wire') : k \in 1 .. Len(wire) \/ k = Len(wire) + 1
      BY <2>3
    <3>2. \A k \in 1 .. Len(wire) : k % 2 # 1 => k - 1 \in 1 .. Len(wire)
      BY <2>3
    <3>3. ASSUME NEW k \in 1 .. Len(wire')
          PROVE  IF k % 2 = 1 THEN wire'[k][1] = "len"
                 ELSE wire'[k][1] = "body" /\ wire'[k][2] = wire'[k - 1][2]
      <4>1. CASE k \in 1 .. Len(wire)
        <5>1. IF k % 2 = 1 THEN wire[k][1] = "len"
              ELSE wire[k][1] = "body" /\ wire[k][2] = wire[k - 1][2]
          BY <4>1, Zenon DEF ClientInv, FrameInv, FramesIntact
        <5> QED
          BY <2>4, <3>2, <4>1, <5>1, Zenon
      <4>2. CASE k = Len(wire) + 1
        BY <2>5, <2>6, <4>2
      <4> QED
        BY <3>1, <4>1, <4>2, Zenon
    <3> QED
      BY <3>3, Zenon DEF FramesIntact
  <2>8. FrameInv'
    BY <2>2, <2>3, <2>5, <2>6, <2>7, Zenon DEF ClientInv, TypeOK, FrameInv, Write
  <2>9. \A u \in Thread : Bodies(u)' = Bodies(u)
    BY <2>3, <2>4, <2>5 DEF Bodies
  <2>10. \A u \in Thread : \A k \in Bodies(u) : wire'[k] = wire[k]
    BY <2>4, Zenon DEF Bodies
  <2>11. SentInv'
    <3>1. sends' = sends /\ \A u \in Thread :
            (pc'[u] \in {"lock", "len", "body"}) = (pc[u] \in {"lock", "len", "body"})
      BY DEF ClientInv, TypeOK, Write
    <3> QED
      BY <1>6, <2>9, <2>10, <3>1 DEF ClientInv, SentInv
  <2> QED
    BY <1>3, <1>4, <2>8, <2>11, Zenon DEF ClientInv
<1> QED
  BY <1>5, <1>6, Zenon

\* The body is written behind its own length, and its number is the next one
\* of the thread.
LEMMA WriteBodyInv ==
  ASSUME NEW t \in Thread, ClientInv, Write(t, "body", "unlock") PROVE ClientInv'
<1>1. good /\ msg[t] \in Message /\ <<"body", msg[t]>> \in {"len", "body"} \X Message
  BY Zenon DEF ClientInv, LockInv, MsgInv, Write
<1>2. ~asserted' /\ (peer => good')
  BY <1>1, Zenon DEF ClientInv, LockInv, Write, FwriteFails
<1>3. TypeOK'
  BY <1>1, ClientAssumption DEF ClientInv, TypeOK, Write, PC
<1>4. LockInv'
  BY <1>1, <1>2, ClientAssumption, Zenon DEF ClientInv, TypeOK, LockInv, Write
<1>5. MsgInv'
  BY Zenon DEF ClientInv, TypeOK, MsgInv, Write
<1>6. CASE ~peer
  <2>1. wire' = wire /\ ~peer'
    BY <1>6, Zenon DEF Write
  <2> QED
    BY <1>3, <1>4, <1>5, <2>1, Zenon DEF ClientInv, FrameInv, FramesIntact, SentInv
<1>7. CASE peer
  <2> DEFINE n == Len(wire)
  <2>1. wire' = Append(wire, <<"body", msg[t]>>)
    BY <1>1, <1>7, Zenon DEF Write
  <2>2. n \in Nat /\ n % 2 = 1 /\ wire[n] = <<"len", msg[t]>> /\ Len(wire') = n + 1
    BY <2>1, <1>7 DEF ClientInv, TypeOK, FrameInv, Write
  <2>3. \A k \in 1 .. n : wire'[k] = wire[k]
    BY <2>1 DEF ClientInv, TypeOK
  <2>4. wire'[n + 1] = <<"body", msg[t]>>
    BY <2>1 DEF ClientInv, TypeOK
  <2>5. (n + 1) % 2 = 0 /\ n \in 1 .. n
    BY <2>2
  <2> HIDE DEF n
  <2>6. FramesIntact'
    <3>1. \A k \in 1 .. n : IF k % 2 = 1 THEN wire[k][1] = "len"
                            ELSE wire[k][1] = "body" /\ wire[k][2] = wire[k - 1][2]
      BY Zenon DEF ClientInv, FrameInv, FramesIntact, n
    <3>2. ASSUME NEW k \in 1 .. n
          PROVE  IF k % 2 = 1 THEN wire'[k][1] = "len"
                 ELSE wire'[k][1] = "body" /\ wire'[k][2] = wire'[k - 1][2]
      <4>1. k % 2 # 1 => k - 1 \in 1 .. n
        BY <2>2
      <4> QED
        BY <2>3, <3>1, <4>1, Zenon
    <3>3. wire'[n + 1][1] = "body" /\ wire'[n + 1][2] = wire'[n][2]
      BY <2>2, <2>3, <2>4, <2>5
    <3>4. 1 .. Len(wire') = (1 .. n) \cup {n + 1} /\ n = (n + 1) - 1 /\ (n + 1) % 2 # 1
      BY <2>2, <2>5
    <3> QED
      BY <3>2, <3>3, <3>4, Zenon DEF FramesIntact
  <2>7. \A u \in Thread : pc'[u] # "body"
    BY ClientAssumption, Zenon DEF ClientInv, TypeOK, LockInv, Write
  <2>8. FrameInv'
    BY <2>2, <2>5, <2>6, <2>7, Zenon DEF FrameInv
  <2>9. ASSUME NEW u \in Thread, u # t
        PROVE  Bodies(u)' = Bodies(u) /\ pc'[u] = pc[u]
    <3>1. msg[t][1] # u /\ pc'[u] = pc[u]
      BY <2>9, Zenon DEF ClientInv, TypeOK, MsgInv, Write
    <3> QED
      BY <2>2, <2>3, <2>4, <2>9, <3>1 DEF Bodies, n
  <2>10. Bodies(t)' = Bodies(t) \cup {n + 1}
    <3>1. msg[t][1] = t
      BY Zenon DEF ClientInv, MsgInv, Write
    <3> QED
      BY <2>2, <2>3, <2>4, <3>1 DEF Bodies, n
  <2>11. \A u \in Thread : \A k \in Bodies(u) : k \in 1 .. n /\ wire'[k] = wire[k]
    BY <2>3, Zenon DEF Bodies, n
  <2>12. {wire[k][2][2] : k \in Bodies(t)} = 1 .. (sends[t] - 1)
    BY <1>7, Zenon DEF ClientInv, SentInv, Write
  <2>13. wire'[n + 1][2][2] = sends[t] /\ sends[t] \in 1 .. MaxSends
    <3>1. msg[t][2] = sends[t]
      BY Zenon DEF ClientInv, MsgInv, Write
    <3>2. msg[t][2] \in 1 .. MaxSends
      BY <1>1, Zenon DEF Message
    <3> QED
      BY <2>4, <3>1, <3>2
  <2>14. ASSUME NEW j \in Bodies(t)', NEW k \in Bodies(t)', j < k
         PROVE  wire'[j][2][2] < wire'[k][2][2]
    <3>1. j \in Bodies(t) /\ j \in 1 .. n
      BY <2>2, <2>10, <2>11, <2>14
    <3>2. CASE k = n + 1
      <4>1. wire[j][2][2] \in 1 .. (sends[t] - 1)
        BY <2>12, <3>1, Zenon
      <4> QED
        BY <2>11, <2>13, <3>1, <3>2, <4>1, ClientAssumption
    <3>3. CASE k \in Bodies(t)
      BY <1>7, <2>11, <2>14, <3>1, <3>3, Zenon DEF ClientInv, SentInv
    <3> QED
      BY <2>10, <3>2, <3>3, Zenon
  <2>15. {wire'[k][2][2] : k \in Bodies(t)'} = 1 .. sends[t]
    <3>1. {wire'[k][2][2] : k \in Bodies(t)'}
            = {wire[k][2][2] : k \in Bodies(t)} \cup {sends[t]}
      BY <2>10, <2>11, <2>13
    <3>2. sends[t] \in Nat /\ sends[t] >= 1
      BY <2>13, ClientAssumption
    <3>3. 1 .. sends[t] = (1 .. (sends[t] - 1)) \cup {sends[t]}
      BY <3>2
    <3> QED
      BY <2>12, <3>1, <3>3, Zenon
  <2>16. SentInv'
    <3>1. pc'[t] = "unlock" /\ sends' = sends
      BY Zenon DEF ClientInv, TypeOK, Write
    <3> SUFFICES ASSUME NEW u \in Thread
                 PROVE  /\ \A j, k \in Bodies(u)' :
                             j < k => wire'[j][2][2] < wire'[k][2][2]
                        /\ {wire'[k][2][2] : k \in Bodies(u)'} =
                             1 .. (IF pc'[u] \in {"lock", "len", "body"}
                                     THEN sends'[u] - 1 ELSE sends'[u])
      BY Zenon DEF SentInv
    <3>2. CASE u = t
      BY <2>14, <2>15, <3>1, <3>2, Zenon
    <3>3. CASE u # t
      BY <1>7, <2>9, <2>11, <3>1, <3>3 DEF ClientInv, SentInv
    <3> QED
      BY <3>2, <3>3, Zenon
  <2> QED
    BY <1>3, <1>4, <1>5, <2>8, <2>16, Zenon DEF ClientInv
<1> QED
  BY <1>6, <1>7, Zenon

\* The invariant of the connection holds throughout.
THEOREM ClientInvariant == Spec => []ClientInv
<1>1. ASSUME ClientInv, [Next]_vars
      PROVE  ClientInv'
  <2>1. CASE MonitorGone
    BY <1>1, <2>1, GoneInv, Zenon
  <2>2. ASSUME NEW t \in Thread, Call(t) \/ Step(t)
        PROVE  ClientInv'
    BY <1>1, <2>2, CallInv, LockStepInv, WriteLenInv, WriteBodyInv, UnlockInv, Zenon
       DEF Step
  <2>3. CASE UNCHANGED vars
    <3>1. TypeOK' /\ LockInv' /\ MsgInv'
      BY <1>1, <2>3 DEF vars, ClientInv, TypeOK, LockInv, MsgInv
    <3>2. FrameInv'
      BY <1>1, <2>3 DEF vars, ClientInv, FrameInv, FramesIntact
    <3>3. SentInv'
      BY <1>1, <2>3 DEF vars, ClientInv, SentInv, Bodies
    <3> QED
      BY <3>1, <3>2, <3>3, Zenon DEF ClientInv
  <2> QED
    BY <1>1, <2>1, <2>2, <2>3, Zenon DEF Next
<1> QED
  BY <1>1, ClientInitInv, PTL DEF Spec

\* assert(good()) holds in every write and disconnect, whenever the monitor
\* dies and however many threads are sending (client.cc:18, 62).
THEOREM ClientAssertGood == Spec => []AssertGood
<1>1. ClientInv => AssertGood
  BY Zenon DEF ClientInv, LockInv, AssertGood
<1> QED
  BY <1>1, ClientInvariant, PTL

\* The parts of two messages are never mixed (client.h:62-71).
THEOREM ClientFramesIntact == Spec => []FramesIntact
<1>1. ClientInv => FramesIntact
  BY Zenon DEF ClientInv, FrameInv
<1> QED
  BY <1>1, ClientInvariant, PTL

\* A monitor that stays gets every message of every thread, once and in order
\* (client.h:62-71).
THEOREM ClientNothingLost == Spec => []NothingLost
<1>1. ClientInv => NothingLost
  BY Zenon DEF ClientInv, SentInv, NothingLost
<1> QED
  BY <1>1, ClientInvariant, PTL

-----------------------------------------------------------------------------
(* create_solvers. *)

\* The initial states satisfy the inductive invariant (leakage.cc:1264-1266).
LEMMA SolversInitInv == SolversInit => SolversInv
  BY MaxNAssumption DEF SolversInit, SolversInv, SolversTypeOK, Slot

\* Every step of create_solvers and of its threads keeps the invariant.
LEMMA SolversStepInv == SolversInv /\ [SolversNext]_solversVars => SolversInv'
<1> SUFFICES ASSUME SolversInv, [SolversNext]_solversVars PROVE SolversInv'
  BY Zenon
<1> USE MaxNAssumption DEF Slot
<1>1. CASE TranslateFront
  <2>0. idx = 1 /\ i = 0 /\ threads = {} /\ full = {} /\ N \in Nat
    BY <1>1 DEF SolversInv, SolversTypeOK, TranslateFront
  <2>1. CASE N = 0
    <3>1. 0 .. N - 1 = {}
      BY <2>1
    <3> QED BY <1>1, <2>0, <2>1, <3>1, Zenon DEF SolversInv, SolversTypeOK, TranslateFront
  <2>2. CASE N # 0
    <3>1. phase' = "round" /\ full' = {0} /\ UNCHANGED <<N, idx, i, threads>>
      BY <1>1, <2>2, Zenon DEF TranslateFront
    <3>2. SolversTypeOK'
      BY <2>0, <2>2, <3>1 DEF SolversInv, SolversTypeOK
    <3> QED BY <2>0, <2>2, <3>1, <3>2 DEF SolversInv
  <2> QED BY <2>1, <2>2, Zenon
<1>2. CASE SpawnThread
  <2>1. SolversTypeOK'
    BY <1>2 DEF SolversInv, SolversTypeOK, SpawnThread
  <2>2. \A t \in threads' : t[1] < i' /\ t[2] = idx + t[1]
    BY <1>2 DEF SolversInv, SolversTypeOK, SpawnThread
  <2>3. \A k \in 0 .. idx - 1 :
          k < i' /\ idx + k < N => idx + k \in full \/ <<k, idx + k>> \in threads'
    <3> SUFFICES ASSUME NEW k \in 0 .. idx - 1, k < i', idx + k < N
                 PROVE  idx + k \in full \/ <<k, idx + k>> \in threads'
      BY Zenon
    <3>1. CASE k = i
      BY <1>2, <3>1, Zenon DEF SolversInv, SolversTypeOK, SpawnThread
    <3>2. CASE k # i
      BY <1>2, <3>2 DEF SolversInv, SolversTypeOK, SpawnThread
    <3> QED BY <3>1, <3>2, Zenon
  <2> QED BY <1>2, <2>1, <2>2, <2>3 DEF SolversInv, SolversTypeOK, SpawnThread
<1>3. CASE ThreadCopies
  <2> PICK t \in threads :
        /\ threads' = threads \ {t}
        /\ full' = IF t[1] \in full THEN full \cup {t[2]} ELSE full
        /\ UNCHANGED <<N, phase, idx, i>>
    BY <1>3, Zenon DEF ThreadCopies
  <2>1. phase = "round" /\ idx < N
    BY DEF SolversInv, SolversTypeOK
  <2>2. t[1] \in Slot /\ t[2] \in Slot /\ t = <<t[1], t[2]>>
    BY DEF SolversInv, SolversTypeOK
  <2>3. t[1] < i /\ t[2] = idx + t[1] /\ t[1] \in full
    BY <2>1, <2>2 DEF SolversInv, SolversTypeOK
  <2>4. SolversTypeOK'
    BY <2>2, Zenon DEF SolversInv, SolversTypeOK
  <2>5. \A k \in 0 .. idx - 1 :
          k < i /\ idx + k < N => idx + k \in full' \/ <<k, idx + k>> \in threads'
    BY <2>1, <2>2, <2>3, Zenon DEF SolversInv, SolversTypeOK
  <2> QED BY <2>1, <2>3, <2>4, <2>5, Zenon DEF SolversInv, SolversTypeOK
<1>4. CASE JoinRound
  <2>1. \A k \in Slot : k < 2 * idx => k \in full
    <3> SUFFICES ASSUME NEW k \in Slot, k < 2 * idx PROVE k \in full
      BY Zenon
    <3>1. CASE k < idx
      BY <1>4, <3>1, Zenon DEF SolversInv, SolversTypeOK, JoinRound
    <3>2. CASE k >= idx
      <4>1. k - idx \in 0 .. idx - 1 /\ idx + (k - idx) = k
        BY <3>2 DEF SolversInv, SolversTypeOK
      <4> QED BY <1>4, <4>1 DEF SolversInv, SolversTypeOK, JoinRound
    <3> QED BY <3>1, <3>2 DEF SolversInv, SolversTypeOK
  <2> QED BY <1>4, <2>1 DEF SolversInv, SolversTypeOK, JoinRound
<1>5. CASE Return
  <2>1. \A k \in Slot : k \in full
    BY <1>5 DEF SolversInv, SolversTypeOK, Return
  <2>2. full = Slot /\ threads = {}
    BY <1>5, <2>1, Zenon DEF SolversInv, SolversTypeOK, Return
  <2> QED BY <1>5, <2>2, Zenon DEF SolversInv, SolversTypeOK, Return
<1>6. CASE UNCHANGED solversVars
  BY <1>6, Zenon DEF SolversInv, SolversTypeOK, solversVars
<1> QED BY <1>1, <1>2, <1>3, <1>4, <1>5, <1>6, Zenon DEF SolversNext

\* The invariant holds in every reachable state.
THEOREM SolversInvariant == SolversSpec => []SolversInv
  BY SolversInitInv, SolversStepInv, PTL DEF SolversSpec

\* No two running threads share a z3 context (leakage.cc:1274-1283).
THEOREM SolversContextsDisjoint == SolversSpec => []ContextsDisjoint
<1>1. SolversInv => ContextsDisjoint
  <2> SUFFICES ASSUME SolversInv, NEW s \in threads, NEW t \in threads
               PROVE  /\ s[1] # s[2]
                      /\ s # t => {s[1], s[2]} \cap {t[1], t[2]} = {}
    BY Zenon DEF ContextsDisjoint
  <2>1. phase = "round"
    BY Zenon DEF SolversInv, SolversTypeOK
  <2>2. /\ s = <<s[1], s[2]>> /\ s[1] \in Nat /\ s[1] < idx /\ s[2] = idx + s[1]
        /\ t = <<t[1], t[2]>> /\ t[1] \in Nat /\ t[1] < idx /\ t[2] = idx + t[1]
    BY <2>1, MaxNAssumption DEF SolversInv, SolversTypeOK, Slot
  <2>3. idx \in Nat
    BY Zenon DEF SolversInv, SolversTypeOK
  <2>4. s # t => s[1] # t[1]
    BY <2>2, Zenon
  <2> QED BY <2>2, <2>3, <2>4
<1> QED BY <1>1, SolversInvariant, PTL

\* A thread copies only from a slot that holds the whole formula.
THEOREM SolversSourcesFull == SolversSpec => []SourcesFull
<1>1. SolversInv => SourcesFull
  BY MaxNAssumption DEF SolversInv, SolversTypeOK, SourcesFull, Slot
<1> QED BY <1>1, SolversInvariant, PTL

\* When create_solvers returns, all N solvers hold the whole formula.
THEOREM SolversAllFull == SolversSpec => []AllSolversFull
<1>1. SolversInv => AllSolversFull
  BY Zenon DEF SolversInv, AllSolversFull
<1> QED BY <1>1, SolversInvariant, PTL
=============================================================================
