----------------------------- MODULE MonitorProofs -----------------------------
(***************************************************************************)
(* Proofs about Monitor, for any set of clients, any functions and any     *)
(* number of updates: one lemma per action, then the theorems.             *)
(***************************************************************************)
EXTENDS MonitorStreams

\* A step of client c or of its thread leaves the other clients as they are.
OthersSame(c) ==
  \A d \in Client \ {c} :
    /\ cpc'[d] = cpc[d] /\ cur'[d] = cur[d] /\ updates'[d] = updates[d]
    /\ did'[d] = did[d] /\ pending'[d] = pending[d] /\ wire'[d] = wire[d]
    /\ fbuf'[d] = fbuf[d] /\ spc'[d] = spc[d] /\ half'[d] = half[d]
    /\ Mine(running', d) = Mine(running, d)
    /\ Mine(completed', d) = Mine(completed, d)
    /\ Mine(aborted', d) = Mine(aborted, d)

\* What the invariant says of a client.
LEMMA ClientParts ==
  ASSUME NEW c \in Client, MonInv
  PROVE  /\ StreamOK(spc[c], Mine(running, c), Stream(c), Want(c))
         /\ ReportOK(Mine(running, c), Stream(c), did[c])
         /\ DidOK(Mine(running, c), Mine(completed, c), Stream(c), did[c])
         /\ ServerOK(cpc[c], spc[c], Mine(running, c), Mine(completed, c),
                     Mine(aborted, c), Stream(c), did[c])
         /\ ~Closed(c) => ClientAt(cpc[c], cur[c], updates[c], pending[c], spc[c],
                                   Mine(running, c), Stream(c), Want(c), did[c])
  BY Zenon DEF MonInv, ClientOK

\* And of one that has written its last message.
LEMMA GoesOn ==
  ASSUME NEW c \in Client, MonInv, ~Closed(c), pending[c] = NoMsg
  PROVE  /\ IF Stream(c) = <<>> THEN Want(c) = "len"
                                ELSE Stream(c)[Len(Stream(c))].part = "body"
         /\ cpc[c] = "new" => Stream(c) = <<>> /\ spc[c] = "listen" /\ updates[c] = 0
         /\ cpc[c] = "idle" =>
              IdleAt(spc[c], Mine(running, c), Stream(c), Len(Stream(c))) /\ updates[c] = 0
         /\ cpc[c] = "started" =>
              /\ cur[c] \in Func /\ ~Named(did[c], cur[c])
              /\ OpenAt(Mine(running, c), Stream(c), Len(Stream(c)), cur[c], updates[c])
<1>1. ClientAt(cpc[c], cur[c], updates[c], NoMsg, spc[c], Mine(running, c), Stream(c),
               Want(c), did[c])
  BY ClientParts, Zenon
<1> QED
  BY <1>1, Zenon DEF ClientAt

\* The types of its state.
LEMMA ClientTypes ==
  ASSUME NEW c \in Client, MonInv
  PROVE  /\ fbuf[c] \in Seq(Unit) /\ wire[c] \in Seq(Unit) /\ Stream(c) \in Seq(Unit)
         /\ cur[c] \in Func \cup {None} /\ updates[c] \in 0 .. MaxUpdates
         /\ pending[c] \in Msg \cup {NoMsg}
<1>1. /\ fbuf[c] \in Seq(Unit) /\ wire[c] \in Seq(Unit)
      /\ cur[c] \in Func \cup {None} /\ updates[c] \in 0 .. MaxUpdates
      /\ pending[c] \in Msg \cup {NoMsg}
  BY Zenon DEF MonInv, TypeOK
<1> QED
  BY <1>1, ConcatProperties, Zenon DEF Stream

\* Then what the invariant says has to be shown of c alone.
LEMMA OneClient ==
  ASSUME NEW c \in Client, MonInv, TypeOK', OthersSame(c), ClientOK(c)'
  PROVE  MonInv'
<1>1. ASSUME NEW d \in Client \ {c} PROVE ClientOK(d)'
  <2>1. Stream(d)' = Stream(d) /\ Want(d)' = Want(d) /\ Closed(d)' = Closed(d)
    <3>1. /\ fbuf'[d] = fbuf[d] /\ wire'[d] = wire[d] /\ half'[d] = half[d]
          /\ cpc'[d] = cpc[d]
      BY Zenon DEF OthersSame
    <3> QED
      BY <3>1, Zenon DEF Stream, Want, Closed
  <2> QED
    BY <2>1, Zenon DEF MonInv, OthersSame, ClientOK
<1> QED
  BY <1>1, Zenon DEF MonInv

\* A client writes the length of a message that fits: the stream is longer by
\* one unit, and the client goes on from there (Client::send).
LEMMA SendInv ==
  ASSUME NEW c \in Client, MonInv, ~Closed(c), pending[c] = NoMsg, NEW m \in Msg,
         wire' = [wire EXCEPT ![c] = Append(@, [part |-> "len", msg |-> m])],
         pending' = [pending EXCEPT ![c] = m],
         UNCHANGED <<did, fbuf, spc, half, lists>>,
         Fits(spc[c], Mine(running, c), Stream(c), Len(Stream(c)), m),
         NEW p \in {"idle", "started"}, cpc' = [cpc EXCEPT ![c] = p],
         NEW f \in Func \cup {None}, cur' = [cur EXCEPT ![c] = f],
         NEW n \in 0 .. MaxUpdates, updates' = [updates EXCEPT ![c] = n],
         p = "started" => f \in Func /\ ~Named(did[c], f),
         m.type = "connect" => p = "idle" /\ n = 0,
         m.type \in {"started", "update"} => p = "started" /\ m.func = f /\ m.step = n,
         m.type = "completed" =>
           /\ p = "idle" /\ f \in Func /\ m.func = f
           /\ OpenAt(Mine(running, c), Stream(c), Len(Stream(c)), f, n)
  PROVE  MonInv'
<1> DEFINE s == Stream(c)
           u == [part |-> "len", msg |-> m]
           run == Mine(running, c)
           comp == Mine(completed, c)
           t == Append(s, u)
<1>1. /\ u \in Unit /\ ~IsCompletion(u) /\ u.part = "len" /\ u.msg = m
      /\ m # NoMsg /\ m.type \in Type
  BY DEF Unit, IsCompletion, Msg, Type, NoMsg
<1>2. TypeOK'
  <2>1. wire' \in [Client -> Seq(Unit)]
    BY <1>1 DEF MonInv, TypeOK
  <2> QED
    BY <2>1, Zenon DEF MonInv, TypeOK, CPC, lists
<1>3. OthersSame(c)
  <2>1. running' = running /\ completed' = completed /\ aborted' = aborted
    BY Zenon DEF lists
  <2> QED
    BY <2>1, Zenon DEF OthersSame, MonInv, TypeOK
<1>4. s \in Seq(Unit) /\ s' = t
  <2>1. wire'[c] = Append(wire[c], u) /\ fbuf'[c] = fbuf[c]
    BY Zenon DEF MonInv, TypeOK
  <2>2. fbuf[c] \in Seq(Unit) /\ wire[c] \in Seq(Unit) /\ Stream(c) \in Seq(Unit)
    BY ClientTypes, Zenon
  <2>3. fbuf[c] \o Append(wire[c], u) = Append(fbuf[c] \o wire[c], u)
    BY <1>1, <2>2, ConcatAppend, Zenon
  <2> QED
    BY <2>1, <2>2, <2>3, Zenon DEF Stream
<1>5. /\ StreamOK(spc[c], run, s, Want(c)) /\ ReportOK(run, s, did[c])
      /\ DidOK(run, comp, s, did[c])
      /\ ServerOK(cpc[c], spc[c], run, comp, Mine(aborted, c), s, did[c])
      /\ IF s = <<>> THEN Want(c) = "len" ELSE s[Len(s)].part = "body"
  BY ClientParts, GoesOn, Zenon
<1>6. Continues(spc[c], run, s, Want(c), Len(s), u)
  <2>1. s = <<>> <=> Len(s) = 0
    BY <1>4, EmptySeq, Zenon
  <2> QED
    BY <1>1, <1>5, <2>1, Zenon DEF Continues
<1>7. spc[c] \notin {"cleanup", "gone"}
  BY <1>5, Zenon DEF ServerOK, Closed
<1>8. /\ t # <<>> /\ Len(t) - 1 = Len(s) /\ t[Len(t)] = u
      /\ OpenAt(run, t, Len(s), f, n) <=> OpenAt(run, s, Len(s), f, n)
  <2>1. Len(s) \in Int /\ Len(s) <= Len(s)
    BY <1>4
  <2>2. OpenAt(run, t, Len(s), f, n) <=> OpenAt(run, s, Len(s), f, n)
    BY <1>1, <1>4, <2>1, AppendSame, Zenon
  <2> QED
    BY <1>1, <1>4, <2>2, AppendPlaces
<1>9. ClientOK(c)'
  <2> HIDE DEF s, u, run, comp, t
  <2>1. /\ StreamOK(spc[c], run, t, Want(c)) /\ ReportOK(run, t, did[c])
        /\ DidOK(run, comp, t, did[c])
    BY <1>1, <1>4, <1>5, <1>6, AppendStream, AppendReport, AppendDid, Zenon DEF t
  <2>2. ServerOK(p, spc[c], run, comp, Mine(aborted, c), t, did[c])
    BY <1>5, <1>7, Zenon DEF ServerOK
  <2>3. ClientAt(p, f, n, m, spc[c], run, t, Want(c), did[c])
    BY <1>1, <1>8, Zenon DEF ClientAt, u, s, run
  <2>4. /\ cpc'[c] = p /\ cur'[c] = f /\ updates'[c] = n /\ pending'[c] = m
        /\ Want(c)' = Want(c)
    BY Zenon DEF MonInv, TypeOK, Want
  <2> QED
    BY <1>4, <2>1, <2>2, <2>3, <2>4, SMTT(30) DEF ClientOK, s, run, comp, lists
<1> QED
  BY <1>2, <1>3, <1>9, OneClient, Zenon

\* Client::connect: the first message of a client.
LEMMA ConnectInv == ASSUME NEW c \in Client, MonInv, Connect(c) PROVE MonInv'
<1> DEFINE m == [type |-> "connect", func |-> None, step |-> 0]
           s == Stream(c)
<1>1. /\ m \in Msg /\ m.type = "connect" /\ 0 \in 0 .. MaxUpdates
      /\ m.type \notin {"started", "update"} /\ m.type # "completed"
  BY MonAssumption DEF Msg, Type
<1>2. /\ ~Closed(c) /\ pending[c] = NoMsg
      /\ wire' = [wire EXCEPT ![c] = Append(@, [part |-> "len", msg |-> m])]
      /\ pending' = [pending EXCEPT ![c] = m]
      /\ cpc' = [cpc EXCEPT ![c] = "idle"]
      /\ UNCHANGED <<did, fbuf, spc, half, lists>> /\ UNCHANGED <<cur, updates>>
  BY Zenon DEF Connect, Send, Closed
<1>3. s = <<>> /\ spc[c] = "listen" /\ updates[c] = 0 /\ cur[c] \in Func \cup {None}
  BY <1>2, GoesOn, ClientTypes, Zenon DEF Connect
<1>4. Fits(spc[c], Mine(running, c), s, Len(s), m)
  <2>1. Len(s) = 0
    BY <1>3, Zenon
  <2> QED
    BY <1>1, <1>3, <2>1 DEF Fits, Fresh
<1>5. cur' = [cur EXCEPT ![c] = cur[c]] /\ updates' = [updates EXCEPT ![c] = 0]
  BY <1>2, <1>3, Zenon DEF MonInv, TypeOK
<1> HIDE DEF m, s
<1> QED
  BY <1>1, <1>2, <1>3, <1>4, <1>5, SendInv, Zenon DEF s

\* The analysis of a function begins.
LEMMA FuncStartInv ==
  ASSUME NEW c \in Client, NEW f \in Func, MonInv, FuncStart(c, f) PROVE MonInv'
<1> DEFINE m == [type |-> "started", func |-> f, step |-> 0]
           s == Stream(c)
<1>1. /\ m \in Msg /\ m.type = "started" /\ 0 \in 0 .. MaxUpdates /\ f \in Func \cup {None}
      /\ m.func = f /\ m.step = 0 /\ m.type # "connect" /\ m.type # "completed"
  BY MonAssumption DEF Msg, Type
<1>2. /\ ~Closed(c) /\ pending[c] = NoMsg /\ cpc[c] = "idle" /\ ~Named(did[c], f)
      /\ wire' = [wire EXCEPT ![c] = Append(@, [part |-> "len", msg |-> m])]
      /\ pending' = [pending EXCEPT ![c] = m]
      /\ cpc' = [cpc EXCEPT ![c] = "started"] /\ cur' = [cur EXCEPT ![c] = f]
      /\ UNCHANGED <<did, fbuf, spc, half, lists>> /\ updates' = updates
  BY Zenon DEF FuncStart, Send, Closed, Named
<1>3. IdleAt(spc[c], Mine(running, c), s, Len(s)) /\ updates[c] = 0
  BY <1>2, GoesOn, Zenon
<1>4. Fits(spc[c], Mine(running, c), s, Len(s), m)
  BY <1>3, Zenon DEF Fits
<1>5. updates' = [updates EXCEPT ![c] = 0]
  BY <1>2, <1>3, Zenon DEF MonInv, TypeOK
<1> HIDE DEF m, s
<1> QED
  BY <1>1, <1>2, <1>4, <1>5, SendInv, Zenon DEF s

\* An update of the function under analysis.
LEMMA FuncUpdateInv == ASSUME NEW c \in Client, MonInv, FuncUpdate(c) PROVE MonInv'
<1> DEFINE m == [type |-> "update", func |-> cur[c], step |-> updates[c] + 1]
           s == Stream(c)
<1>1. /\ ~Closed(c) /\ pending[c] = NoMsg /\ cpc[c] = "started"
      /\ wire' = [wire EXCEPT ![c] = Append(@, [part |-> "len", msg |-> m])]
      /\ pending' = [pending EXCEPT ![c] = m]
      /\ updates' = [updates EXCEPT ![c] = updates[c] + 1]
      /\ UNCHANGED <<did, fbuf, spc, half, lists>> /\ UNCHANGED <<cpc, cur>>
  BY Zenon DEF FuncUpdate, Send, Closed
<1>2. /\ cur[c] \in Func /\ ~Named(did[c], cur[c])
      /\ OpenAt(Mine(running, c), s, Len(s), cur[c], updates[c])
  BY <1>1, GoesOn, Zenon
<1>3. /\ updates[c] + 1 \in 0 .. MaxUpdates /\ updates[c] + 1 > 0
      /\ (updates[c] + 1) - 1 = updates[c]
  <2>1. updates[c] \in 0 .. MaxUpdates /\ updates[c] < MaxUpdates
    BY ClientTypes, Zenon DEF FuncUpdate
  <2> QED
    BY <2>1, MonAssumption
<1>4. /\ m \in Msg /\ m.type = "update" /\ cur[c] \in Func \cup {None} /\ m.func = cur[c]
      /\ m.step = updates[c] + 1 /\ m.type # "connect" /\ m.type # "completed"
  BY <1>2, <1>3, SMTT(30) DEF Msg, Type
<1>5. Fits(spc[c], Mine(running, c), s, Len(s), m)
  <2>1. OpenAt(Mine(running, c), s, Len(s), m.func, m.step - 1)
    BY <1>2, <1>3, <1>4, Zenon
  <2> QED
    BY <1>3, <1>4, <2>1, SMTT(30) DEF Fits
<1>6. cpc' = [cpc EXCEPT ![c] = "started"] /\ cur' = [cur EXCEPT ![c] = cur[c]]
  BY <1>1, Zenon DEF MonInv, TypeOK
<1> HIDE DEF m, s
<1> QED
  BY <1>1, <1>2, <1>3, <1>4, <1>5, <1>6, SendInv, Zenon DEF s

\* The analysis of a function is complete.
LEMMA FuncCompleteInv == ASSUME NEW c \in Client, MonInv, FuncComplete(c) PROVE MonInv'
<1> DEFINE m == [type |-> "completed", func |-> cur[c], step |-> 0]
           s == Stream(c)
<1>1. /\ ~Closed(c) /\ pending[c] = NoMsg /\ cpc[c] = "started"
      /\ wire' = [wire EXCEPT ![c] = Append(@, [part |-> "len", msg |-> m])]
      /\ pending' = [pending EXCEPT ![c] = m]
      /\ cpc' = [cpc EXCEPT ![c] = "idle"]
      /\ UNCHANGED <<did, fbuf, spc, half, lists>> /\ UNCHANGED <<cur, updates>>
  BY Zenon DEF FuncComplete, Send, Closed
<1>2. cur[c] \in Func /\ OpenAt(Mine(running, c), s, Len(s), cur[c], updates[c])
  BY <1>1, GoesOn, Zenon
<1>3. /\ cur[c] \in Func \cup {None} /\ updates[c] \in 0 .. MaxUpdates
      /\ cur' = [cur EXCEPT ![c] = cur[c]] /\ updates' = [updates EXCEPT ![c] = updates[c]]
  BY <1>1, Zenon DEF MonInv, TypeOK
<1>4. /\ m \in Msg /\ m.type = "completed" /\ m.func = cur[c]
      /\ m.type # "connect" /\ m.type \notin {"started", "update"}
  BY <1>2, MonAssumption DEF Msg, Type
<1>5. Fits(spc[c], Mine(running, c), s, Len(s), m)
  BY <1>2, <1>3, Zenon DEF Fits
<1> HIDE DEF m, s
<1> QED
  BY <1>1, <1>2, <1>3, <1>4, <1>5, SendInv, Zenon DEF s

\* The body is written behind its length; if it completes a function, the
\* client did that function with the updates it has reported.
LEMMA SendBodyInv == ASSUME NEW c \in Client, MonInv, SendBody(c) PROVE MonInv'
<1> DEFINE m == pending[c]
           s == Stream(c)
           u == [part |-> "body", msg |-> m]
           run == Mine(running, c)
           comp == Mine(completed, c)
           t == Append(s, u)
           done == m.type = "completed"
           dd == IF done THEN did[c] \cup {<<cur[c], updates[c]>>} ELSE did[c]
           f == IF done THEN None ELSE cur[c]
           n == IF done THEN 0 ELSE updates[c]
<1>1. /\ ~Closed(c) /\ m # NoMsg /\ UNCHANGED <<cpc, fbuf, spc, half, lists>>
      /\ wire' = [wire EXCEPT ![c] = Append(@, u)]
      /\ pending' = [pending EXCEPT ![c] = NoMsg]
      /\ did' = [did EXCEPT ![c] = dd] /\ cur' = [cur EXCEPT ![c] = f]
      /\ updates' = [updates EXCEPT ![c] = n]
  <2>1. did \in [Client -> SUBSET (Func \X (0 .. MaxUpdates))]
    BY Zenon DEF MonInv, TypeOK
  <2>2. cur \in [Client -> Func \cup {None}] /\ updates \in [Client -> 0 .. MaxUpdates]
    BY Zenon DEF MonInv, TypeOK
  <2> QED
    BY <2>1, <2>2, Zenon DEF SendBody
<1>2. m \in Msg /\ m.type \in Type /\ u \in Unit /\ u.part = "body" /\ u.msg = m
  BY <1>1, ClientTypes, SMTT(30) DEF Unit, Msg
<1>3. /\ StreamOK(spc[c], run, s, Want(c)) /\ ReportOK(run, s, did[c])
      /\ DidOK(run, comp, s, did[c])
      /\ ServerOK(cpc[c], spc[c], run, comp, Mine(aborted, c), s, did[c])
      /\ ClientAt(cpc[c], cur[c], updates[c], m, spc[c], run, s, Want(c), did[c])
  BY <1>1, ClientParts, Zenon
<1>4. /\ done => /\ cpc[c] = "idle" /\ cur[c] \in Func /\ m.func = cur[c]
                 /\ OpenAt(run, s, Len(s) - 1, cur[c], updates[c])
      /\ m.type = "connect" => cpc[c] = "idle" /\ updates[c] = 0
      /\ m.type \in {"started", "update"} =>
           /\ cpc[c] = "started" /\ m.func = cur[c] /\ m.step = updates[c]
           /\ cur[c] \in Func /\ ~Named(did[c], cur[c])
      /\ IF s = <<>> THEN Want(c) = "body" /\ Fits(spc[c], run, s, 0, m)
                     ELSE s[Len(s)] = [part |-> "len", msg |-> m]
  BY <1>1, <1>3, Zenon DEF ClientAt
<1>5. TypeOK'
  <2>1. wire' \in [Client -> Seq(Unit)]
    BY <1>1, <1>2, SMTT(30) DEF MonInv, TypeOK
  <2>2. did' \in [Client -> SUBSET (Func \X (0 .. MaxUpdates))]
    <3>1. did \in [Client -> SUBSET (Func \X (0 .. MaxUpdates))] /\ updates[c] \in 0 .. MaxUpdates
      BY Zenon DEF MonInv, TypeOK
    <3>2. dd \in SUBSET (Func \X (0 .. MaxUpdates))
      <4>1. CASE done
        <5>1. <<cur[c], updates[c]>> \in Func \X (0 .. MaxUpdates)
          BY <1>4, <3>1, <4>1, Zenon
        <5>2. did[c] \in SUBSET (Func \X (0 .. MaxUpdates))
          BY <3>1, Zenon
        <5> QED
          BY <4>1, <5>1, <5>2, Zenon
      <4>2. CASE ~done
        BY <3>1, <4>2, Zenon
      <4> QED
        BY <4>1, <4>2, Zenon
    <3>3. did' = [did EXCEPT ![c] = dd]
      BY <1>1, Zenon
    <3> HIDE DEF dd
    <3> QED
      BY <3>1, <3>2, <3>3, Zenon
  <2>3. updates' \in [Client -> 0 .. MaxUpdates] /\ cur' \in [Client -> Func \cup {None}]
    BY <1>1, MonAssumption, SMTT(30) DEF MonInv, TypeOK
  <2> QED
    BY <1>1, <2>1, <2>2, <2>3, Zenon DEF MonInv, TypeOK, lists
<1>6. OthersSame(c)
  <2>1. running' = running /\ completed' = completed /\ aborted' = aborted
    BY <1>1, Zenon DEF lists
  <2> QED
    BY <1>1, <2>1, Zenon DEF OthersSame, MonInv, TypeOK
<1>7. s \in Seq(Unit) /\ s' = t
  <2>1. wire'[c] = Append(wire[c], u) /\ fbuf'[c] = fbuf[c]
    BY <1>1, Zenon DEF MonInv, TypeOK
  <2>2. fbuf[c] \in Seq(Unit) /\ wire[c] \in Seq(Unit) /\ Stream(c) \in Seq(Unit)
    BY ClientTypes, Zenon
  <2>3. fbuf[c] \o Append(wire[c], u) = Append(fbuf[c] \o wire[c], u)
    BY <1>2, <2>2, ConcatAppend, Zenon
  <2> QED
    BY <2>1, <2>2, <2>3, Zenon DEF Stream
<1>8. Continues(spc[c], run, s, Want(c), Len(s), u)
  <2>1. s = <<>> <=> Len(s) = 0
    BY <1>7, EmptySeq, Zenon
  <2> QED
    BY <1>2, <1>4, <2>1 DEF Continues
<1>9. t # <<>> /\ t[Len(t)] = u /\ Len(t) > 0
  BY <1>2, <1>7, AppendPlaces, SMTT(30)
<1>10. spc[c] \notin {"cleanup", "gone"} /\ Mine(aborted, c) = {}
  BY <1>1, <1>3, Zenon DEF ServerOK, Closed
<1> HIDE DEF t, s, u, m, run, comp
<1>11. StreamOK(spc[c], run, t, Want(c))
  BY <1>2, <1>3, <1>7, <1>8, AppendStream, Zenon DEF t
<1>12. ReportOK(run, t, dd) /\ DidOK(run, comp, t, dd)
  <2>1. CASE done
    <3>1. updates[c] \in 0 .. MaxUpdates /\ IsCompletion(u)
      BY <1>2, <2>1, ClientTypes, Zenon DEF IsCompletion
    <3>2. ReportOK(run, t, dd)
      BY <1>2, <1>3, <1>4, <1>7, <2>1, <3>1, AppendReport, Zenon DEF t
    <3>3. DidOK(run, comp, t, dd)
      BY <1>2, <1>3, <1>4, <1>7, <2>1, <3>1, AppendDone, Zenon DEF t
    <3> QED
      BY <3>2, <3>3, Zenon
  <2>2. CASE ~done
    BY <1>2, <1>3, <1>4, <1>7, <2>2, AppendReport, AppendDid, Zenon DEF t, IsCompletion
  <2> QED
    BY <2>1, <2>2, Zenon
<1>13. ServerOK(cpc[c], spc[c], run, comp, Mine(aborted, c), t, dd)
  BY <1>3, <1>10, Zenon DEF ServerOK
<1>14. ClientAt(cpc[c], f, n, NoMsg, spc[c], run, t, Want(c), dd)
  <2>1. m.type \in {"connect", "completed"} => IdleAt(spc[c], run, t, Len(t))
    BY <1>2, <1>9 DEF IdleAt
  <2>2. m.type \in {"started", "update"} => OpenAt(run, t, Len(t), m.func, m.step)
    BY <1>2, <1>9 DEF OpenAt
  <2> QED
    BY <1>2, <1>4, <1>9, <2>1, <2>2, Zenon DEF ClientAt, Type
<1>15. ClientOK(c)'
  <2>1. did'[c] = dd /\ cur'[c] = f /\ updates'[c] = n /\ pending'[c] = NoMsg
    BY <1>1, Zenon DEF MonInv, TypeOK
  <2> HIDE DEF dd, f, n
  <2>2. Want(c)' = Want(c) /\ Stream(c)' = t /\ cpc' = cpc /\ spc' = spc
    BY <1>1, <1>7, SMTT(30) DEF Want, s
  <2> QED
    BY <1>1, <1>11, <1>12, <1>13, <1>14, <2>1, <2>2, Zenon DEF ClientOK, lists, run, comp
<1> QED
  BY <1>5, <1>6, <1>15, OneClient, Zenon

\* The process ends: what it has written stays in the stream.
LEMMA ClientEndInv == ASSUME NEW c \in Client, MonInv, ClientEnd(c) PROVE MonInv'
<1>1. TypeOK'
  BY MonAssumption DEF MonInv, TypeOK, ClientEnd, CPC, lists
<1>2. running' = running /\ completed' = completed /\ aborted' = aborted
  BY SMTT(30) DEF ClientEnd, lists
<1>3. OthersSame(c)
  BY <1>2, Zenon DEF OthersSame, ClientEnd, MonInv, TypeOK
<1>4. ClientOK(c)'
  <2>1. Stream(c)' = Stream(c) /\ Want(c)' = Want(c) /\ Closed(c)' /\ cpc'[c] = "closed"
    BY Zenon DEF ClientEnd, Stream, Want, Closed, MonInv, TypeOK
  <2>2. ServerOK(cpc'[c], spc[c], Mine(running, c), Mine(completed, c),
                 Mine(aborted, c), Stream(c), did[c])
    BY <2>1, ClientParts, Zenon DEF ServerOK
  <2> QED
    BY <1>2, <2>1, <2>2, ClientParts, Zenon DEF ClientOK, ClientEnd
<1> QED
  BY <1>1, <1>3, <1>4, OneClient, Zenon

\* The thread of a client moves on without reading.
LEMMA MoveInv ==
  ASSUME NEW c \in Client, MonInv, NEW sp \in SPC,
         spc' = [spc EXCEPT ![c] = sp],
         UNCHANGED <<clientVars, half, lists>>,
         fbuf' \in [Client -> Seq(Unit)], wire' \in [Client -> Seq(Unit)],
         Stream(c)' = Stream(c),
         \A d \in Client \ {c} : fbuf'[d] = fbuf[d] /\ wire'[d] = wire[d],
         Fresh(spc[c]) <=> Fresh(sp),
         sp \notin {"cleanup", "gone"}, spc[c] # "gone", cpc[c] # "new"
  PROVE  MonInv'
<1>1. TypeOK'
  BY Zenon DEF MonInv, TypeOK, clientVars, lists
<1>2. running' = running /\ completed' = completed /\ aborted' = aborted
  BY Zenon DEF lists
<1>3. OthersSame(c)
  BY <1>2, Zenon DEF OthersSame, clientVars, MonInv, TypeOK
<1>4. ClientOK(c)'
  <2>1. spc'[c] = sp /\ Want(c)' = Want(c) /\ Closed(c)' = Closed(c)
    BY Zenon DEF MonInv, TypeOK, Want, Closed, clientVars
  <2>2. StreamOK(sp, Mine(running, c), Stream(c), Want(c))
    BY SameFresh, ClientParts, Zenon
  <2>3. ~Closed(c) => ClientAt(cpc[c], cur[c], updates[c], pending[c], sp,
                               Mine(running, c), Stream(c), Want(c), did[c])
    BY SameFresh, ClientParts, Zenon
  <2>4. ServerOK(cpc[c], sp, Mine(running, c), Mine(completed, c), Mine(aborted, c),
                 Stream(c), did[c])
    BY ClientParts, Zenon DEF ServerOK, Fresh
  <2> QED
    BY <1>2, <2>1, <2>2, <2>3, <2>4, ClientParts, Zenon DEF ClientOK, clientVars
<1> QED
  BY <1>1, <1>3, <1>4, OneClient, Zenon

\* While the client is new, its thread has not started.
LEMMA NewClient ==
  ASSUME NEW c \in Client, MonInv, spc[c] # "listen"
  PROVE  cpc[c] # "new"
<1> SUFFICES ASSUME cpc[c] = "new" PROVE FALSE
  BY Zenon
<1>1. ~Closed(c) /\ (pending[c] = NoMsg \/ pending[c] \in Msg)
  BY ClientTypes, Zenon DEF Closed
<1> QED
  BY <1>1, ClientParts, Zenon DEF ClientAt, Msg, Type

\* Accepting a client starts its thread and leaves its stream and jobs alone.
LEMMA AcceptInv == ASSUME NEW c \in Client, MonInv, Accept(c) PROVE MonInv'
<1>1. Fresh(spc[c]) /\ Fresh("connect") /\ spc[c] # "gone" /\ "connect" \in SPC
  BY Zenon DEF Accept, Fresh, SPC
<1>2. Stream(c)' = Stream(c)
  BY Zenon DEF Accept, Stream
<1> QED
  BY <1>1, <1>2, MoveInv, Zenon DEF Accept, MonInv, TypeOK

\* The thread wakes up from poll() and leaves the stream and the jobs alone.
LEMMA PollInv == ASSUME NEW c \in Client, MonInv, Poll(c) PROVE MonInv'
<1>1. ~Fresh(spc[c]) /\ ~Fresh("read") /\ spc[c] # "gone" /\ "read" \in SPC
  BY Zenon DEF Poll, Fresh, SPC
<1>2. Stream(c)' = Stream(c)
  BY Zenon DEF Poll, Stream
<1>3. cpc[c] # "new"
  BY NewClient, Zenon DEF Poll
<1> QED
  BY <1>1, <1>2, <1>3, MoveInv, Zenon DEF Poll, MonInv, TypeOK

\* A read moves units from the socket to the buffer: the stream is the same.
LEMMA FillInv == ASSUME NEW c \in Client, MonInv, Fill(c) PROVE MonInv'
<1>1. PICK k \in 1 .. Len(wire[c]) :
        /\ fbuf' = [fbuf EXCEPT ![c] = SubSeq(wire[c], 1, k)]
        /\ wire' = [wire EXCEPT ![c] = SubSeq(@, k + 1, Len(@))]
  BY Zenon DEF Fill
<1>2. /\ fbuf \in [Client -> Seq(Unit)] /\ wire \in [Client -> Seq(Unit)]
      /\ wire[c] \in Seq(Unit) /\ spc[c] \in SPC
  BY Zenon DEF MonInv, TypeOK
<1>3. /\ SubSeq(wire[c], 1, k) \in Seq(Unit)
      /\ SubSeq(wire[c], k + 1, Len(wire[c])) \in Seq(Unit)
      /\ SubSeq(wire[c], 1, k) \o SubSeq(wire[c], k + 1, Len(wire[c])) = <<>> \o wire[c]
  BY <1>2, ConcatSplit, Zenon
<1>4. fbuf'[c] = SubSeq(wire[c], 1, k) /\ wire'[c] = SubSeq(wire[c], k + 1, Len(wire[c]))
  BY <1>1, <1>2, Zenon
<1>5. Stream(c)' = Stream(c)
  BY <1>3, <1>4, Zenon DEF Stream, Fill
<1>6. fbuf' \in [Client -> Seq(Unit)] /\ wire' \in [Client -> Seq(Unit)]
  BY <1>1, <1>2, <1>3, Zenon
<1>7. \A d \in Client \ {c} : fbuf'[d] = fbuf[d] /\ wire'[d] = wire[d]
  BY <1>1, <1>2, Zenon
<1>8. cpc[c] # "new"
  BY NewClient, Zenon DEF Fill
<1>9. spc' = [spc EXCEPT ![c] = spc[c]]
  BY Zenon DEF Fill, MonInv, TypeOK
<1>10. spc[c] \notin {"cleanup", "gone"} /\ UNCHANGED <<clientVars, half, lists>>
  BY Zenon DEF Fill
<1> QED
  BY <1>2, <1>5, <1>6, <1>7, <1>8, <1>9, <1>10, MoveInv, Zenon

\* The end of the stream: there is nothing left to lose.
LEMMA EofInv == ASSUME NEW c \in Client, MonInv, Eof(c) PROVE MonInv'
<1>1. TypeOK'
  BY Zenon DEF MonInv, TypeOK, Eof, SPC, clientVars, lists
<1>2. running' = running /\ completed' = completed /\ aborted' = aborted
  BY Zenon DEF Eof, lists
<1>3. OthersSame(c)
  BY <1>2, Zenon DEF OthersSame, Eof, clientVars, MonInv, TypeOK
<1>4. ClientOK(c)'
  <2>1. spc'[c] = "cleanup" /\ Closed(c)' /\ Closed(c)
    BY SMTT(30) DEF Eof, Closed, clientVars, MonInv, TypeOK
  <2>2. Stream(c) = <<>> /\ Stream(c)' = <<>>
    BY DEF Eof, Stream
  <2>3. StreamOK("cleanup", Mine(running, c), <<>>, Want(c)')
    BY DEF StreamOK
  <2>4. ServerOK(cpc[c], "cleanup", Mine(running, c), Mine(completed, c),
                 Mine(aborted, c), <<>>, did[c])
    BY <2>1, ClientParts, Zenon DEF ServerOK, Eof, Closed
  <2> QED
    BY <1>2, <2>1, <2>2, <2>3, <2>4, ClientParts, Zenon DEF ClientOK, Eof, clientVars
<1> QED
  BY <1>1, <1>3, <1>4, OneClient, Zenon

\* The end of the thread: its client's running jobs have not been completed.
LEMMA CleanupInv == ASSUME NEW c \in Client, MonInv, Cleanup(c) PROVE MonInv'
<1> DEFINE run == Mine(running, c)
           comp == Mine(completed, c)
           ab == Mine(aborted, c)
           s == Stream(c)
<1>1. TypeOK'
  BY Zenon DEF MonInv, TypeOK, Cleanup, SPC, clientVars
<1>2. /\ Mine(running', c) = {} /\ Mine(aborted', c) = ab \cup run
      /\ \A d \in Client \ {c} : /\ Mine(running', d) = Mine(running, d)
                                 /\ Mine(aborted', d) = Mine(aborted, d)
  BY Zenon DEF Cleanup, Mine
<1>3. OthersSame(c)
  BY <1>2, Zenon DEF OthersSame, Cleanup, clientVars, MonInv, TypeOK
<1>4. ClientOK(c)'
  <2>1. spc'[c] = "gone" /\ s' = s /\ Want(c)' = Want(c) /\ Closed(c)' = Closed(c)
    BY SMTT(30) DEF Cleanup, Stream, Want, Closed, clientVars, MonInv, TypeOK
  <2>2. ServerOK(cpc[c], "cleanup", run, comp, ab, s, did[c])
    BY ClientParts, Zenon DEF Cleanup
  <2>3. s = <<>> /\ Closed(c) /\ Len(s) = 0
    BY <2>2, Zenon DEF ServerOK, Closed
  <2>4. \A f \in Func : Named(did[c], f) => (\E j \in comp : j.name = f) /\ \A j \in run : j.name # f
    <3>1. \A f, k : ~Coming(s, f, k)
      BY <2>3, SMTT(30) DEF Coming
    <3> QED
      BY <3>1, ClientParts, Zenon DEF DidOK
  <2>5. StreamOK("gone", {}, s, Want(c)) /\ ReportOK({}, s, did[c]) /\ DidOK({}, comp, s, did[c])
    BY <2>3, <2>4, SMTT(30) DEF StreamOK, ReportOK, DidOK
  <2>6. ServerOK(cpc[c], "gone", {}, comp, ab \cup run, s, did[c])
    <3>1. \A j \in run : j.name \in Func
      BY Zenon DEF MonInv, TypeOK, Job, Mine
    <3> QED
      BY <2>2, <2>4, <3>1, Zenon DEF ServerOK
  <2> HIDE DEF run, ab
  <2> QED
    BY <1>2, <2>1, <2>3, <2>5, <2>6, Zenon DEF ClientOK, Cleanup, clientVars
<1> QED
  BY <1>1, <1>3, <1>4, OneClient, Zenon

\* The first unit of the stream is the first one in the buffer.
LEMMA FirstUnit ==
  ASSUME NEW c \in Client, MonInv, fbuf[c] # <<>>,
         fbuf' = [fbuf EXCEPT ![c] = Tail(@)], wire' = wire
  PROVE  /\ Stream(c) \in Seq(Unit) /\ Stream(c) # <<>>
         /\ Stream(c)[1] = Head(fbuf[c]) /\ Stream(c)[1] \in Unit
         /\ Stream(c)' = Tail(Stream(c))
         /\ fbuf' \in [Client -> Seq(Unit)]
<1>1. fbuf[c] \in Seq(Unit) /\ wire[c] \in Seq(Unit) /\ Stream(c) \in Seq(Unit)
  BY ClientTypes, Zenon
<1>2. Tail(fbuf[c]) \in Seq(Unit) /\ Head(fbuf[c]) \in Unit
  BY <1>1, HeadTailProperties, Zenon
<1>3. fbuf'[c] = Tail(fbuf[c]) /\ fbuf' \in [Client -> Seq(Unit)]
  BY <1>2, Zenon DEF MonInv, TypeOK
<1>4. /\ Stream(c) # <<>> /\ Stream(c)[1] = Head(fbuf[c])
      /\ Stream(c)' = Tail(Stream(c))
  BY <1>1, <1>3, ConcatTail, SMTT(30) DEF Stream
<1> QED
  BY <1>1, <1>2, <1>3, <1>4, Zenon

\* The length of a message is read.
LEMMA ReadLenInv == ASSUME NEW c \in Client, MonInv, ReadLen(c) PROVE MonInv'
<1> DEFINE s == Stream(c)
           run == Mine(running, c)
           comp == Mine(completed, c)
<1>1. s \in Seq(Unit) /\ s # <<>> /\ s' = Tail(s) /\ fbuf' \in [Client -> Seq(Unit)]
  BY FirstUnit, Zenon DEF ReadLen
<1>2. TypeOK'
  BY <1>1, Zenon DEF MonInv, TypeOK, ReadLen, clientVars, lists
<1>3. running' = running /\ completed' = completed /\ aborted' = aborted
  BY Zenon DEF ReadLen, lists
<1>4. OthersSame(c)
  BY <1>3, SMTT(30) DEF OthersSame, ReadLen, clientVars, MonInv, TypeOK
<1>5. Want(c) = "len" /\ Want(c)' = "body" /\ Closed(c)' = Closed(c)
  BY Zenon DEF Want, ReadLen, Closed, clientVars, MonInv, TypeOK
<1>6. /\ StreamOK(spc[c], run, s, Want(c)) /\ ReportOK(run, s, did[c])
      /\ DidOK(run, comp, s, did[c])
      /\ ServerOK(cpc[c], spc[c], run, comp, Mine(aborted, c), s, did[c])
      /\ ~Closed(c) => ClientAt(cpc[c], cur[c], updates[c], pending[c], spc[c], run, s,
                                Want(c), did[c])
  BY ClientParts, Zenon
<1>7. ClientOK(c)'
  <2> HIDE DEF s, run, comp
  <2>1. /\ StreamOK(spc[c], run, Tail(s), Want(c)') /\ ReportOK(run, Tail(s), did[c])
        /\ DidOK(run, comp, Tail(s), did[c])
    BY <1>1, <1>5, <1>6, TailLen, Zenon
  <2>2. ServerOK(cpc[c], spc[c], run, comp, Mine(aborted, c), Tail(s), did[c])
    BY <1>6, Zenon DEF ServerOK, ReadLen
  <2>3. ~Closed(c) => ClientAt(cpc[c], cur[c], updates[c], pending[c], spc[c], run, Tail(s),
                               Want(c)', did[c])
    BY <1>1, <1>5, <1>6, TailLenClient, Zenon
  <2> QED
    BY <1>1, <1>3, <1>5, <2>1, <2>2, <2>3, Zenon DEF ClientOK, ReadLen, clientVars, s, run, comp
<1> QED
  BY <1>2, <1>4, <1>7, OneClient, Zenon

\* What the handlers do to the lists: they change only the jobs of the client
\* whose message they handle, and as the message says.
LEMMA HandlerLists ==
  ASSUME NEW c \in Client, MonInv, HandleBody(c)
  PROVE  /\ running' \subseteq Job /\ completed' \subseteq Job /\ aborted' = aborted
         /\ Handled(Head(fbuf[c]).msg, Mine(running', c), Mine(completed, c), Mine(completed', c))
         /\ \A i, j \in Mine(running', c) : i = j
         /\ \A j \in Mine(completed', c) : <<j.name, j.step>> \in did[c]
         /\ \A d \in Client \ {c} : /\ Mine(running', d) = Mine(running, d)
                                    /\ Mine(completed', d) = Mine(completed, d)
<1> DEFINE s == Stream(c)
           run == Mine(running, c)
           comp == Mine(completed, c)
           m == Head(fbuf[c]).msg
<1>1. s \in Seq(Unit) /\ s # <<>> /\ s[1] = Head(fbuf[c]) /\ s[1] \in Unit
  BY FirstUnit, Zenon DEF HandleBody
<1>2. m \in Msg /\ s[1].msg = m /\ m.type \in Type
  BY <1>1, Zenon DEF Unit, Msg
<1>3. /\ StreamOK(spc[c], run, s, Want(c)) /\ ReportOK(run, s, did[c])
      /\ ServerOK(cpc[c], spc[c], run, comp, Mine(aborted, c), s, did[c])
      /\ Want(c) = "body"
  BY ClientParts, Zenon DEF HandleBody, Want
<1>4. Fits(spc[c], run, s, 0, m) /\ s[1].part = "body"
  BY <1>1, <1>2, <1>3, Alternates, SMTT(30)
<1>5. /\ \A i, j \in run : i = j
      /\ Fresh(spc[c]) => run = {}
      /\ \A j \in comp : <<j.name, j.step>> \in did[c]
      /\ running \subseteq Job /\ completed \subseteq Job
  BY <1>3, Zenon DEF ServerOK, Fresh, MonInv, TypeOK
<1> HIDE DEF s, m
<1>6. CASE m.type = "connect"
  <2>1. running' = running /\ completed' = completed /\ aborted' = aborted
    BY <1>6, Zenon DEF HandleBody, lists, m
  <2>2. run = {}
    BY <1>4, <1>5, <1>6, Zenon DEF Fits
  <2>3. Handled(m, run, comp, comp)
    BY <1>6, <2>2, SMTT(30) DEF Handled
  <2> QED
    BY <1>5, <2>1, <2>3, Zenon DEF m
<1>7. CASE m.type = "started"
  <2> DEFINE k == [owner |-> c, name |-> m.func, step |-> 0]
  <2>1. running' = running \cup {k} /\ completed' = completed /\ aborted' = aborted
    BY <1>7, Zenon DEF HandleBody, Started, m
  <2>2. run = {} /\ m.step = 0 /\ m.func \in Func
    BY <1>4, <1>7 DEF Fits, IdleAt
  <2>3. k \in Job /\ k.owner = c /\ k.name = m.func /\ k.step = m.step
    BY <2>2, MonAssumption, SMTT(30) DEF Job
  <2> HIDE DEF k
  <2>4. Mine(running', c) = {k} /\ \A d \in Client \ {c} : Mine(running', d) = Mine(running, d)
    BY <2>1, <2>2, <2>3, Zenon DEF Mine
  <2>5. Handled(m, {k}, comp, comp)
    BY <1>7, <2>3, Zenon DEF Handled
  <2> QED
    BY <1>5, <2>1, <2>3, <2>4, <2>5, SMTT(30) DEF m
<1>8. CASE m.type = "update"
  <2>1. /\ running' = {IF j.owner = c /\ j.name = m.func
                         THEN [j EXCEPT !.step = m.step] ELSE j : j \in running}
        /\ completed' = completed /\ aborted' = aborted
    BY <1>8, SMTT(30) DEF HandleBody, Updated, m
  <2>2. PICK k \in run : k.name = m.func
    BY <1>4, <1>8 DEF Fits, OpenAt
  <2> DEFINE k2 == [k EXCEPT !.step = m.step]
  <2>3. k \in running /\ k.owner = c /\ k \in Job /\ \A j \in running : j.owner = c => j = k
    BY <1>5, <2>2, Zenon DEF Mine
  <2>4. k2 \in Job /\ k2.owner = c /\ k2.name = m.func /\ k2.step = m.step
    BY <1>2, <2>2, <2>3, Zenon DEF Job, Msg
  <2> HIDE DEF k2
  <2>5. running' = (running \ {k}) \cup {k2}
    BY <2>1, <2>2, <2>3, Zenon DEF k2
  <2>6. Mine(running', c) = {k2} /\ \A d \in Client \ {c} : Mine(running', d) = Mine(running, d)
    BY <2>3, <2>4, <2>5, Zenon DEF Mine
  <2>7. Handled(m, {k2}, comp, comp)
    BY <1>8, <2>4, Zenon DEF Handled
  <2> QED
    BY <1>5, <2>1, <2>4, <2>5, <2>6, <2>7, Zenon DEF m
<1>9. CASE m.type = "completed"
  <2>1. PICK n \in 0 .. MaxUpdates :
          OpenAt(run, s, 1 - 2, m.func, n) /\ <<m.func, n>> \in did[c]
    <3>1. IsCompletion(s[1]) /\ 1 \in 1 .. Len(s)
      BY <1>1, <1>2, <1>4, <1>9 DEF IsCompletion
    <3> QED
      BY <1>2, <1>3, <3>1, Zenon DEF ReportOK
  <2>2. PICK k \in run : k.name = m.func /\ k.step = n
    BY <2>1 DEF OpenAt
  <2>3. k \in running /\ k.owner = c /\ k \in Job /\ \A j \in running : j.owner = c => j = k
    BY <1>5, <2>2, Zenon DEF Mine
  <2>4. {j \in running : j.owner = c /\ j.name = m.func} = {k}
    BY <2>2, <2>3, Zenon
  <2>5. running' = running \ {k} /\ completed' = completed \cup {k} /\ aborted' = aborted
    BY <1>9, <2>4, Zenon DEF HandleBody, Completed, m
  <2>6. /\ Mine(running', c) = {} /\ Mine(completed', c) = comp \cup {k}
        /\ \A d \in Client \ {c} : /\ Mine(running', d) = Mine(running, d)
                                   /\ Mine(completed', d) = Mine(completed, d)
    BY <2>3, <2>5, SMTT(30) DEF Mine
  <2>7. Handled(m, {}, comp, comp \cup {k})
    BY <1>9, <2>2, Zenon DEF Handled
  <2>8. \A j \in comp \cup {k} : <<j.name, j.step>> \in did[c]
    BY <1>5, <2>1, <2>2, Zenon
  <2> QED
    BY <1>5, <2>3, <2>5, <2>6, <2>7, <2>8, Zenon DEF m
<1> QED
  BY <1>2, <1>6, <1>7, <1>8, <1>9, Zenon DEF Type

\* The body is read and its message handled.
LEMMA HandleBodyInv == ASSUME NEW c \in Client, MonInv, HandleBody(c) PROVE MonInv'
<1> DEFINE s == Stream(c)
           run == Mine(running, c)
           comp == Mine(completed, c)
           run2 == Mine(running', c)
           comp2 == Mine(completed', c)
<1>1. /\ s \in Seq(Unit) /\ s # <<>> /\ s' = Tail(s) /\ s[1] = Head(fbuf[c])
      /\ fbuf' \in [Client -> Seq(Unit)]
  BY FirstUnit, Zenon DEF HandleBody
<1>2. /\ running' \subseteq Job /\ completed' \subseteq Job /\ aborted' = aborted
      /\ Handled(s[1].msg, run2, comp, comp2)
      /\ \A i, j \in run2 : i = j
      /\ \A j \in comp2 : <<j.name, j.step>> \in did[c]
      /\ \A d \in Client \ {c} : /\ Mine(running', d) = Mine(running, d)
                                 /\ Mine(completed', d) = Mine(completed, d)
  BY <1>1, HandlerLists, Zenon
<1>3. /\ fbuf' = [fbuf EXCEPT ![c] = Tail(@)]
      /\ spc' = [spc EXCEPT ![c] = "poll"] /\ half' = [half EXCEPT ![c] = FALSE]
      /\ UNCHANGED <<clientVars, wire>>
  BY SMTT(30) DEF HandleBody
<1>4. TypeOK'
  BY <1>1, <1>2, <1>3, Zenon DEF MonInv, TypeOK, clientVars, SPC
<1>5. /\ Want(c) = "body" /\ Want(c)' = "len" /\ Closed(c)' = Closed(c)
      /\ spc'[c] = "poll" /\ ~Fresh("poll")
  BY <1>3, Zenon DEF Want, HandleBody, Closed, clientVars, MonInv, TypeOK, Fresh
<1>6. /\ StreamOK(spc[c], run, s, Want(c)) /\ ReportOK(run, s, did[c])
      /\ DidOK(run, comp, s, did[c])
      /\ ServerOK(cpc[c], spc[c], run, comp, Mine(aborted, c), s, did[c])
      /\ ~Closed(c) => ClientAt(cpc[c], cur[c], updates[c], pending[c], spc[c], run, s,
                                Want(c), did[c])
  BY ClientParts, Zenon
<1>7. ClientOK(c)'
  <2> HIDE DEF s, run, comp, run2, comp2
  <2>1. /\ StreamOK("poll", run2, Tail(s), Want(c)') /\ ReportOK(run2, Tail(s), did[c])
        /\ DidOK(run2, comp2, Tail(s), did[c])
    BY <1>1, <1>2, <1>5, <1>6, TailBody, Zenon
  <2>2. ServerOK(cpc[c], "poll", run2, comp2, Mine(aborted, c), Tail(s), did[c])
    BY <1>2, <1>6, Zenon DEF ServerOK, HandleBody
  <2>3. ~Closed(c) => ClientAt(cpc[c], cur[c], updates[c], pending[c], "poll", run2, Tail(s),
                               Want(c)', did[c])
    BY <1>1, <1>2, <1>5, <1>6, TailBodyClient, Zenon
  <2> QED
    BY <1>1, <1>2, <1>3, <1>5, <2>1, <2>2, <2>3, Zenon DEF ClientOK, clientVars, s, run2, comp2
<1>8. OthersSame(c)
  BY <1>2, <1>3, Zenon DEF OthersSame, clientVars, MonInv, TypeOK
<1> QED
  BY <1>4, <1>7, <1>8, OneClient, Zenon

-----------------------------------------------------------------------------
(* The theorems. *)

\* The monitor starts with no client and no job.
LEMMA MonInitInv == Init => MonInv
<1> SUFFICES ASSUME Init PROVE MonInv
  BY Zenon
<1>1. TypeOK
  <2>1. fbuf \in [Client -> Seq(Unit)] /\ wire \in [Client -> Seq(Unit)]
    BY DEF Init
  <2>2. /\ did \in [Client -> SUBSET (Func \X (0 .. MaxUpdates))]
        /\ updates \in [Client -> 0 .. MaxUpdates]
    BY MonAssumption DEF Init
  <2> QED
    BY <2>1, <2>2, Zenon DEF Init, TypeOK, CPC, SPC
<1>2. ASSUME NEW c \in Client
      PROVE  ClientOK(c)
  <2>1. Stream(c) = <<>> /\ Len(Stream(c)) = 0 /\ Want(c) = "len"
    BY DEF Init, Stream, Want
  <2>2. Mine(running, c) = {} /\ Mine(completed, c) = {} /\ Mine(aborted, c) = {}
    BY Zenon DEF Init, Mine
  <2>3. cpc[c] = "new" /\ updates[c] = 0 /\ did[c] = {} /\ pending[c] = NoMsg
        /\ spc[c] = "listen"
    BY Zenon DEF Init
  <2>4. StreamOK(spc[c], {}, Stream(c), Want(c)) /\ ReportOK({}, Stream(c), {})
    BY <2>1 DEF StreamOK, ReportOK
  <2>5. DidOK({}, {}, Stream(c), {}) /\ ServerOK(cpc[c], spc[c], {}, {}, {}, Stream(c), {})
    BY <2>3, Zenon DEF DidOK, Named, ServerOK
  <2>6. ClientAt(cpc[c], cur[c], updates[c], pending[c], spc[c], {}, Stream(c), Want(c), {})
    BY <2>1, <2>3, Zenon DEF ClientAt
  <2> QED
    BY <2>2, <2>3, <2>4, <2>5, <2>6, Zenon DEF ClientOK
<1> QED
  BY <1>1, <1>2, Zenon DEF MonInv

\* The invariant of the streams and the lists holds throughout.
THEOREM MonitorInvariant == Spec => []MonInv
<1>1. ASSUME MonInv, [Next]_vars
      PROVE  MonInv'
  <2>1. ASSUME NEW c \in Client, ClientStep(c)
        PROVE  MonInv'
    BY <1>1, <2>1, ConnectInv, FuncStartInv, FuncUpdateInv, FuncCompleteInv, ClientEndInv, Zenon
       DEF ClientStep
  <2>2. ASSUME NEW c \in Client, SendBody(c)
        PROVE  MonInv'
    BY <1>1, <2>2, SendBodyInv, Zenon
  <2>3. ASSUME NEW c \in Client, ServerStep(c)
        PROVE  MonInv'
    BY Zenon, <1>1, <2>3, AcceptInv, PollInv, FillInv, EofInv, ReadLenInv, HandleBodyInv,
       CleanupInv DEF ServerStep
  <2>4. CASE UNCHANGED vars
    <3>1. TypeOK'
      BY <1>1, <2>4, Zenon DEF MonInv, TypeOK, vars, clientVars, lists
    <3>2. ASSUME NEW c \in Client PROVE ClientOK(c)'
      <4>1. Stream(c)' = Stream(c) /\ Want(c)' = Want(c) /\ Closed(c)' = Closed(c)
        BY <2>4, Zenon DEF vars, clientVars, Stream, Want, Closed
      <4> QED
        BY <1>1, <2>4, <4>1, Zenon DEF MonInv, ClientOK, vars, clientVars, lists
    <3> QED
      BY <3>1, <3>2, SMTT(30) DEF MonInv
  <2> QED
    BY <1>1, <2>1, <2>2, <2>3, <2>4, Zenon DEF Next
<1> QED
  BY <1>1, MonInitInv, PTL DEF Spec

\* A job shown as aborted was not completed by its client, however late the
\* client's thread reads its messages (main.cc:487-521).
THEOREM MonitorAbortedNotCompleted == Spec => []AbortedNotCompleted
<1>1. MonInv => AbortedNotCompleted
  <2> SUFFICES ASSUME MonInv, NEW j \in aborted PROVE \A d \in did[j.owner] : d[1] # j.name
    BY Zenon DEF AbortedNotCompleted
  <2>1. j.owner \in Client /\ j \in Mine(aborted, j.owner)
    BY Zenon DEF MonInv, TypeOK, Job, Mine
  <2>2. ~Named(did[j.owner], j.name)
    BY <2>1, ClientParts, Zenon DEF ServerOK
  <2> QED
    BY <2>2, Zenon DEF Named
<1> QED
  BY <1>1, MonitorInvariant, PTL

\* A completed job is shown as its client reported it (main.cc:595-649).
THEOREM MonitorCompletedAsReported == Spec => []CompletedAsReported
<1>1. MonInv => CompletedAsReported
  <2> SUFFICES ASSUME MonInv, NEW j \in completed PROVE <<j.name, j.step>> \in did[j.owner]
    BY Zenon DEF CompletedAsReported
  <2>1. j.owner \in Client /\ j \in Mine(completed, j.owner)
    BY Zenon DEF MonInv, TypeOK, Job, Mine
  <2> QED
    BY <2>1, ClientParts, Zenon DEF ServerOK
<1> QED
  BY <1>1, MonitorInvariant, PTL

\* Once the thread of a client is gone, none of its jobs is running and all it
\* completed is shown as completed (main.cc:505-521).
THEOREM MonitorGoneMeansSettled == Spec => []GoneMeansSettled
<1>1. MonInv => GoneMeansSettled
  <2> SUFFICES ASSUME MonInv, NEW c \in Client, spc[c] = "gone"
               PROVE  /\ \A j \in running : j.owner # c
                      /\ \A d \in did[c] :
                           \E j \in completed : j.owner = c /\ j.name = d[1]
    BY Zenon DEF GoneMeansSettled
  <2>1. Mine(running, c) = {} /\ Stream(c) = <<>> /\ Len(Stream(c)) = 0
    BY ClientParts, EmptySeq, Zenon DEF ServerOK
  <2>2. \A f, k : ~Coming(Stream(c), f, k)
    BY <2>1 DEF Coming
  <2>3. \A d \in did[c] : d[1] \in Func /\ Named(did[c], d[1])
    BY DEF MonInv, TypeOK, Named
  <2>4. \A d \in did[c] : \E j \in Mine(completed, c) : j.name = d[1]
    BY <2>2, <2>3, ClientParts, Zenon DEF DidOK
  <2> QED
    BY <2>1, <2>4, Zenon DEF Mine
<1> QED
  BY <1>1, MonitorInvariant, PTL
=============================================================================
