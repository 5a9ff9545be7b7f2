---------------------------- MODULE MonitorStreams ----------------------------
(***************************************************************************)
(* Lemmas about the values that Monitor's invariant speaks of: what        *)
(* appending a unit to the stream of a client, and taking its first one,   *)
(* do to what the invariant says of the stream, of the client's jobs and   *)
(* of where the client goes on.                                            *)
(***************************************************************************)
EXTENDS Monitor, SequenceTheorems, TLAPS

-----------------------------------------------------------------------------
(* Places of streams. *)

\* What is open before the stream depends on the jobs only.
LEMMA BeforeStream ==
  ASSUME NEW run, NEW sp, NEW s, NEW t, NEW i \in Int, NEW k \in Int,
         i <= 0, k <= 0
  PROVE  /\ \A f, n : OpenAt(run, t, k, f, n) <=> OpenAt(run, s, i, f, n)
         /\ IdleAt(sp, run, t, k) <=> IdleAt(sp, run, s, i)
         /\ \A m : Fits(sp, run, t, k, m) <=> Fits(sp, run, s, i, m)
  BY DEF OpenAt, IdleAt, Fits

\* What is open at a place of the stream depends on the unit there only.
LEMMA SameUnit ==
  ASSUME NEW run, NEW sp, NEW run2, NEW sp2, NEW s, NEW t,
         NEW i \in Int, NEW k \in Int, i > 0, k > 0, t[k] = s[i]
  PROVE  /\ \A f, n : OpenAt(run2, t, k, f, n) <=> OpenAt(run, s, i, f, n)
         /\ IdleAt(sp2, run2, t, k) <=> IdleAt(sp, run, s, i)
         /\ \A m : Fits(sp2, run2, t, k, m) <=> Fits(sp, run, s, i, m)
  BY DEF OpenAt, IdleAt, Fits

\* Appending a unit changes no place of the stream.
LEMMA AppendPlaces ==
  ASSUME NEW s \in Seq(Unit), NEW u \in Unit
  PROVE  /\ Append(s, u) \in Seq(Unit) /\ Len(Append(s, u)) = Len(s) + 1
         /\ \A k \in 1 .. Len(s) : Append(s, u)[k] = s[k]
         /\ Append(s, u)[Len(s) + 1] = u
         /\ 1 .. Len(Append(s, u)) = (1 .. Len(s)) \cup {Len(s) + 1}
  OBVIOUS

\* A write at the end of the stream (Client::write) leaves what holds after the
\* units already in it.
LEMMA AppendSame ==
  ASSUME NEW run, NEW sp, NEW s \in Seq(Unit), NEW u \in Unit,
         NEW i \in Int, i <= Len(s)
  PROVE  /\ \A f, n : OpenAt(run, Append(s, u), i, f, n) <=> OpenAt(run, s, i, f, n)
         /\ IdleAt(sp, run, Append(s, u), i) <=> IdleAt(sp, run, s, i)
         /\ \A m : Fits(sp, run, Append(s, u), i, m) <=> Fits(sp, run, s, i, m)
<1>1. CASE i <= 0
  BY <1>1, BeforeStream, Zenon
<1>2. CASE i > 0
  <2>1. Append(s, u)[i] = s[i]
    BY <1>2, AppendPlaces
  <2> QED
    BY <1>2, <2>1, SameUnit, Zenon
<1> QED
  BY <1>1, <1>2

\* Taking the first unit moves every place by one.
LEMMA TailPlaces ==
  ASSUME NEW s \in Seq(Unit), s # <<>>
  PROVE  /\ Tail(s) \in Seq(Unit) /\ Len(Tail(s)) = Len(s) - 1 /\ Len(s) >= 1
         /\ \A k \in 1 .. Len(s) - 1 : Tail(s)[k] = s[k + 1]
  OBVIOUS

\* A stream has one unit, two, or more.
LEMMA LenCases ==
  ASSUME NEW s \in Seq(Unit), s # <<>>
  PROVE  /\ Len(s) = 1 \/ Len(s) > 1
         /\ Len(s) # 1 => Len(s) = 2 \/ Len(s) > 2
         /\ Tail(s) = <<>> <=> Len(s) = 1
<1>1. Len(s) \in Nat /\ Len(s) # 0
  OBVIOUS
<1>2. Tail(s) = <<>> <=> Len(Tail(s)) = 0
  BY TailPlaces, EmptySeq, Zenon
<1>3. Len(Tail(s)) = Len(s) - 1
  BY TailPlaces, Zenon
<1> QED
  BY <1>1, <1>2, <1>3

\* Reading the first unit (fread in the client's thread) moves every later place
\* of the stream down by one, and what holds there stays, whatever the thread
\* does with the unit.
LEMMA TailSame ==
  ASSUME NEW run, NEW sp, NEW run2, NEW sp2, NEW s \in Seq(Unit), s # <<>>,
         NEW i \in 2 .. Len(s)
  PROVE  /\ \A f, n : OpenAt(run2, Tail(s), i - 1, f, n) <=> OpenAt(run, s, i, f, n)
         /\ IdleAt(sp2, run2, Tail(s), i - 1) <=> IdleAt(sp, run, s, i)
         /\ \A m : Fits(sp2, run2, Tail(s), i - 1, m) <=> Fits(sp, run, s, i, m)
<1> DEFINE t == Tail(s)
<1>1. PICK k \in Int : k = i - 1
  OBVIOUS
<1>2. t[k] = s[i] /\ k > 0 /\ i > 0 /\ i \in Int
  BY <1>1, TailPlaces
<1> HIDE DEF t
<1>3. /\ \A f, n : OpenAt(run2, t, k, f, n) <=> OpenAt(run, s, i, f, n)
      /\ IdleAt(sp2, run2, t, k) <=> IdleAt(sp, run, s, i)
  BY <1>2 DEF OpenAt, IdleAt
<1>4. \A m : Fits(sp2, run2, t, k, m) <=> Fits(sp, run, s, i, m)
  BY <1>2, <1>3 DEF Fits
<1> QED
  BY <1>1, <1>3, <1>4, Zenon DEF t

-----------------------------------------------------------------------------
(* Appending a unit: Client::send. *)

\* A unit that continues the stream may be written at its end: Client::send keeps
\* lengths and bodies alternating and the messages in order.
LEMMA AppendStream ==
  ASSUME NEW run, NEW sp, NEW w, NEW s \in Seq(Unit), NEW u \in Unit,
         StreamOK(sp, run, s, w), Continues(sp, run, s, w, Len(s), u)
  PROVE  StreamOK(sp, run, Append(s, u), w)
<1> DEFINE t == Append(s, u)
<1> SUFFICES ASSUME NEW k \in 1 .. Len(t)
             PROVE  Continues(sp, run, t, w, k - 1, t[k])
  BY Zenon DEF StreamOK
<1>1. Continues(sp, run, s, w, k - 1, t[k])
  BY AppendPlaces DEF StreamOK
<1>2. k - 1 <= Len(s) /\ k - 1 \in Int /\ 0 <= Len(s)
  BY AppendPlaces
<1>3. k - 1 # 0 => t[k - 1] = s[k - 1]
  BY AppendPlaces, <1>2
<1>4. \A i \in {0, k - 1} : \A m : Fits(sp, run, t, i, m) <=> Fits(sp, run, s, i, m)
  <2> SUFFICES ASSUME NEW i \in {0, k - 1}, NEW m
               PROVE  Fits(sp, run, t, i, m) <=> Fits(sp, run, s, i, m)
    BY Zenon
  <2>1. i \in Int /\ i <= Len(s)
    BY <1>2
  <2> QED
    BY <2>1, AppendSame, Zenon
<1> HIDE DEF t
<1> QED
  BY <1>1, <1>3, <1>4, Zenon DEF Continues

\* Writing a unit keeps the completions in the stream true to what the client
\* did; if the unit is itself the body of a FuncCompleted, the function was open
\* with the step that is recorded.
LEMMA AppendReport ==
  ASSUME NEW run, NEW s \in Seq(Unit), NEW u \in Unit, NEW dd, NEW dd2,
         ReportOK(run, s, dd), dd \subseteq dd2,
         IsCompletion(u) => \E n \in 0 .. MaxUpdates :
           OpenAt(run, s, Len(s) - 1, u.msg.func, n) /\ <<u.msg.func, n>> \in dd2
  PROVE  ReportOK(run, Append(s, u), dd2)
<1> DEFINE t == Append(s, u)
<1> SUFFICES ASSUME NEW k \in 1 .. Len(t), IsCompletion(t[k])
             PROVE  \E n \in 0 .. MaxUpdates :
                      OpenAt(run, t, k - 2, t[k].msg.func, n) /\ <<t[k].msg.func, n>> \in dd2
  BY Zenon DEF ReportOK
<1>1. \E n \in 0 .. MaxUpdates :
        OpenAt(run, s, k - 2, t[k].msg.func, n) /\ <<t[k].msg.func, n>> \in dd2
  <2>1. CASE k \in 1 .. Len(s)
    <3>1. t[k] = s[k]
      BY <2>1, AppendPlaces
    <3> QED
      BY <2>1, <3>1, Zenon DEF ReportOK
  <2>2. CASE k = Len(s) + 1
    <3>1. k - 2 = Len(s) - 1
      BY <2>2
    <3> QED
      BY <2>2, <3>1, AppendPlaces
  <2>3. k \in (1 .. Len(s)) \cup {Len(s) + 1}
    BY AppendPlaces, Zenon
  <2> QED
    BY <2>1, <2>2, <2>3, Zenon
<1>2. k - 2 <= Len(s) /\ k - 2 \in Int
  BY AppendPlaces
<1> HIDE DEF t
<1> QED
  BY <1>1, <1>2, AppendSame, Zenon DEF t

\* A completion that is on its way stays on its way when more is written.
LEMMA AppendComing ==
  ASSUME NEW s \in Seq(Unit), NEW u \in Unit, NEW f, NEW k, Coming(s, f, k)
  PROVE  Coming(Append(s, u), f, k)
  BY AppendPlaces DEF Coming

\* A unit other than a completion.
LEMMA AppendDid ==
  ASSUME NEW run, NEW comp, NEW s \in Seq(Unit), NEW u \in Unit, NEW dd,
         DidOK(run, comp, s, dd),
         u.msg.type \in {"started", "update"} => ~Named(dd, u.msg.func)
  PROVE  DidOK(run, comp, Append(s, u), dd)
<1> DEFINE t == Append(s, u)
<1> SUFFICES ASSUME NEW f \in Func, Named(dd, f)
             PROVE  /\ (\E j \in comp : j.name = f) \/ Coming(t, f, 0)
                    /\ \A j \in run : j.name = f => Coming(t, f, 0)
                    /\ \A k \in 1 .. Len(t) :
                         t[k].msg.type \in {"started", "update"} /\ t[k].msg.func = f
                           => Coming(t, f, k)
  BY Zenon DEF DidOK
<1>1. /\ (\E j \in comp : j.name = f) \/ Coming(s, f, 0)
      /\ \A j \in run : j.name = f => Coming(s, f, 0)
      /\ \A k \in 1 .. Len(s) :
           s[k].msg.type \in {"started", "update"} /\ s[k].msg.func = f => Coming(s, f, k)
  BY Zenon DEF DidOK
<1>2. \A k : Coming(s, f, k) => Coming(t, f, k)
  BY AppendComing, Zenon
<1>3. ASSUME NEW k \in 1 .. Len(t), t[k].msg.type \in {"started", "update"},
             t[k].msg.func = f
      PROVE  Coming(t, f, k)
  <2>1. k # Len(s) + 1
    BY <1>3, AppendPlaces
  <2>2. k \in 1 .. Len(s) /\ t[k] = s[k]
    BY <2>1, AppendPlaces
  <2> QED
    BY <1>1, <1>2, <1>3, <2>2, Zenon
<1> HIDE DEF t
<1> QED
  BY <1>1, <1>2, <1>3, Zenon

\* A completion: from now on the function is among those the client did.
LEMMA AppendDone ==
  ASSUME NEW run, NEW comp, NEW s \in Seq(Unit), NEW u \in Unit, NEW dd, NEW n,
         DidOK(run, comp, s, dd), IsCompletion(u)
  PROVE  DidOK(run, comp, Append(s, u), dd \cup {<<u.msg.func, n>>})
<1> DEFINE t == Append(s, u)
           dd2 == dd \cup {<<u.msg.func, n>>}
<1> SUFFICES ASSUME NEW f \in Func, Named(dd2, f)
             PROVE  /\ (\E j \in comp : j.name = f) \/ Coming(t, f, 0)
                    /\ \A j \in run : j.name = f => Coming(t, f, 0)
                    /\ \A k \in 1 .. Len(t) :
                         t[k].msg.type \in {"started", "update"} /\ t[k].msg.func = f
                           => Coming(t, f, k)
  BY Zenon DEF DidOK
<1>1. \A k : Coming(s, f, k) => Coming(t, f, k)
  BY AppendComing, Zenon
<1>2. \A k \in 1 .. Len(t) :
        t[k].msg.type \in {"started", "update"} => k \in 1 .. Len(s) /\ t[k] = s[k]
  BY AppendPlaces DEF IsCompletion
<1>3. CASE f = u.msg.func
  <2>1. \A k \in 0 .. Len(s) : Coming(t, f, k)
    BY <1>3, AppendPlaces DEF Coming
  <2>2. 0 \in 0 .. Len(s) /\ \A k \in 1 .. Len(s) : k \in 0 .. Len(s)
    OBVIOUS
  <2> HIDE DEF t
  <2> QED
    BY <1>2, <2>1, <2>2, Zenon
<1>4. CASE f # u.msg.func
  <2>1. Named(dd, f)
    BY <1>4 DEF Named
  <2>2. /\ (\E j \in comp : j.name = f) \/ Coming(s, f, 0)
        /\ \A j \in run : j.name = f => Coming(s, f, 0)
        /\ \A k \in 1 .. Len(s) :
             s[k].msg.type \in {"started", "update"} /\ s[k].msg.func = f => Coming(s, f, k)
    BY <2>1, Zenon DEF DidOK
  <2> HIDE DEF t
  <2> QED
    BY <1>1, <1>2, <2>2, Zenon
<1> QED
  BY <1>3, <1>4, Zenon

-----------------------------------------------------------------------------
(* Taking the first unit: the thread of the client reads a length, or a body *)
(* whose message it handles.                                                 *)

\* Where lengths and bodies stand.
LEMMA Alternates ==
  ASSUME NEW run, NEW sp, NEW w, NEW s \in Seq(Unit), StreamOK(sp, run, s, w)
  PROVE  /\ s # <<>> => /\ s[1].part = w
                        /\ Fits(sp, run, s, 0, s[1].msg)
         /\ \A k \in 2 .. Len(s) :
              \/ s[k - 1].part = "len" /\ s[k].part = "body" /\ s[k].msg = s[k - 1].msg
              \/ /\ s[k - 1].part = "body" /\ s[k].part = "len"
                 /\ Fits(sp, run, s, k - 1, s[k].msg)
<1>1. s # <<>> => Continues(sp, run, s, w, 0, s[1])
  <2> SUFFICES ASSUME s # <<>> PROVE Continues(sp, run, s, w, 1 - 1, s[1])
    OBVIOUS
  <2> QED
    BY DEF StreamOK
<1>2. \A k \in 2 .. Len(s) : k - 1 # 0 /\ Continues(sp, run, s, w, k - 1, s[k])
  BY DEF StreamOK
<1> QED
  BY <1>1, <1>2, Zenon DEF Continues

\* The rest of the stream, when its first unit fits and each place after the
\* first one taken is as before.
LEMMA TailStream ==
  ASSUME NEW run, NEW sp, NEW w, NEW s \in Seq(Unit), StreamOK(sp, run, s, w),
         s # <<>>, NEW run2, NEW sp2, NEW w2,
         Len(s) >= 2 => /\ s[2].part = w2
                        /\ Fits(sp2, run2, Tail(s), 0, s[2].msg)
  PROVE  StreamOK(sp2, run2, Tail(s), w2)
<1> DEFINE t == Tail(s)
<1> SUFFICES ASSUME NEW k \in 1 .. Len(t)
             PROVE  Continues(sp2, run2, t, w2, k - 1, t[k])
  BY Zenon DEF StreamOK
<1>1. k + 1 \in 2 .. Len(s) /\ t[k] = s[k + 1] /\ Len(s) >= 2
  BY TailPlaces
<1>2. CASE k = 1
  <2>1. t[k] = s[2] /\ k - 1 = 0
    BY <1>1, <1>2
  <2> HIDE DEF t
  <2> QED
    BY <1>1, <2>1, Zenon DEF Continues, t
<1>3. CASE k > 1
  <2>1. k \in 2 .. Len(s) /\ t[k - 1] = s[k]
    BY <1>1, <1>3, TailPlaces
  <2>2. \/ s[k].part = "len" /\ s[k + 1].part = "body" /\ s[k + 1].msg = s[k].msg
        \/ s[k].part = "body" /\ s[k + 1].part = "len"
           /\ Fits(sp, run, s, k, s[k + 1].msg)
    <3>1. (k + 1) - 1 = k
      OBVIOUS
    <3> QED
      BY <1>1, <3>1, Alternates
  <2>3. \A m : Fits(sp2, run2, t, k - 1, m) <=> Fits(sp, run, s, k, m)
    BY <2>1, TailSame, Zenon
  <2>4. k - 1 # 0
    BY <1>3
  <2> HIDE DEF t
  <2> QED
    BY <1>1, <2>1, <2>2, <2>3, <2>4, Zenon DEF Continues
<1> QED
  BY <1>2, <1>3

\* A completion that is on its way is still on its way after one unit is read,
\* unless it was that unit.
LEMMA TailComing ==
  ASSUME NEW s \in Seq(Unit), s # <<>>, NEW f, NEW k \in Nat, Coming(s, f, k),
         k = 0 => ~(IsCompletion(s[1]) /\ s[1].msg.func = f)
  PROVE  Coming(Tail(s), f, IF k = 0 THEN 0 ELSE k - 1)
<1>1. PICK i \in 1 .. Len(s) : i > k /\ IsCompletion(s[i]) /\ s[i].msg.func = f
  BY Zenon DEF Coming
<1>2. i # 1
  BY <1>1
<1>3. i - 1 \in 1 .. Len(Tail(s)) /\ Tail(s)[i - 1] = s[i]
  BY <1>2, TailPlaces
<1> QED
  BY <1>1, <1>2, <1>3 DEF Coming

\* A length is read: the rest of the stream.
LEMMA TailLen ==
  ASSUME NEW run, NEW comp, NEW sp, NEW s \in Seq(Unit), NEW dd, s # <<>>,
         NEW w, NEW w2, w = "len", w2 = "body",
         StreamOK(sp, run, s, w), ReportOK(run, s, dd), DidOK(run, comp, s, dd)
  PROVE  /\ StreamOK(sp, run, Tail(s), w2)
         /\ ReportOK(run, Tail(s), dd)
         /\ DidOK(run, comp, Tail(s), dd)
<1> DEFINE t == Tail(s)
<1>1. s[1].part = "len" /\ Fits(sp, run, s, 0, s[1].msg)
  BY Alternates, Zenon
<1>2. Len(s) >= 2 => s[2].part = "body" /\ s[2].msg = s[1].msg
  <2>1. Len(s) >= 2 => 2 \in 2 .. Len(s) /\ 2 - 1 = 1
    OBVIOUS
  <2> QED
    BY <1>1, <2>1, Alternates
<1>3. StreamOK(sp, run, t, w2)
  <2>1. \A m : Fits(sp, run, t, 0, m) <=> Fits(sp, run, s, 0, m)
    BY DEF Fits, OpenAt, IdleAt
  <2> QED
    BY <1>1, <1>2, <2>1, TailStream, Zenon
<1>4. ReportOK(run, t, dd)
  <2> SUFFICES ASSUME NEW k \in 1 .. Len(t), IsCompletion(t[k])
               PROVE  \E n \in 0 .. MaxUpdates :
                        OpenAt(run, t, k - 2, t[k].msg.func, n) /\ <<t[k].msg.func, n>> \in dd
    BY Zenon DEF ReportOK
  <2>1. k + 1 \in 2 .. Len(s) /\ t[k] = s[k + 1] /\ (k + 1) - 2 = k - 1
    BY TailPlaces
  <2>2. PICK n \in 0 .. MaxUpdates :
          OpenAt(run, s, k - 1, t[k].msg.func, n) /\ <<t[k].msg.func, n>> \in dd
    <3>1. k + 1 \in 1 .. Len(s) /\ IsCompletion(s[k + 1])
      BY <2>1
    <3> QED
      BY <2>1, <3>1, Zenon DEF ReportOK
  <2>3. k # 2
    <3> SUFFICES ASSUME k = 2 PROVE FALSE
      BY Zenon
    <3>1. s[3].part = "body" /\ 3 \in 2 .. Len(s) /\ 3 - 1 = 2 /\ Len(s) >= 2
      BY <2>1 DEF IsCompletion
    <3> QED
      BY <1>2, <3>1, Alternates
  <2>4. OpenAt(run, t, k - 2, t[k].msg.func, n)
    <3>1. CASE k = 1
      <4>1. k - 1 <= 0 /\ k - 2 <= 0 /\ k - 1 \in Int /\ k - 2 \in Int
        BY <3>1
      <4> QED
        BY <2>2, <4>1, Zenon DEF OpenAt
    <3>2. CASE k > 2
      <4>1. k - 1 \in 2 .. Len(s) /\ k - 2 = (k - 1) - 1
        BY <2>1, <3>2
      <4> QED
        BY <2>2, <4>1, TailSame, Zenon
    <3> QED
      BY <2>3, <3>1, <3>2
  <2> QED
    BY <2>2, <2>4, Zenon
<1>5. DidOK(run, comp, t, dd)
  <2> SUFFICES ASSUME NEW f \in Func, Named(dd, f)
               PROVE  /\ (\E j \in comp : j.name = f) \/ Coming(t, f, 0)
                      /\ \A j \in run : j.name = f => Coming(t, f, 0)
                      /\ \A k \in 1 .. Len(t) :
                           t[k].msg.type \in {"started", "update"} /\ t[k].msg.func = f
                             => Coming(t, f, k)
    BY Zenon DEF DidOK
  <2>1. /\ (\E j \in comp : j.name = f) \/ Coming(s, f, 0)
        /\ \A j \in run : j.name = f => Coming(s, f, 0)
        /\ \A k \in 1 .. Len(s) :
             s[k].msg.type \in {"started", "update"} /\ s[k].msg.func = f => Coming(s, f, k)
    BY Zenon DEF DidOK
  <2>2. Coming(s, f, 0) => Coming(t, f, 0)
    BY <1>1, TailComing, Zenon DEF IsCompletion
  <2>3. ASSUME NEW k \in 1 .. Len(t),
               t[k].msg.type \in {"started", "update"}, t[k].msg.func = f
        PROVE  Coming(t, f, k)
    <3>1. t[k] = s[k + 1] /\ k + 1 \in 1 .. Len(s) /\ k + 1 \in Nat /\ k + 1 # 0
          /\ (k + 1) - 1 = k
      BY TailPlaces
    <3>2. Coming(s, f, k + 1)
      BY <2>1, <2>3, <3>1, Zenon
    <3> QED
      BY <3>1, <3>2, TailComing, Zenon
  <2> HIDE DEF t
  <2> QED
    BY <2>1, <2>2, <2>3, Zenon
<1> QED
  BY <1>3, <1>4, <1>5, Zenon

\* What the handler of message m makes of the jobs of its client: run2 is what
\* is running then, and comp and comp2 are what is completed before and after.
Handled(m, run2, comp, comp2) ==
  /\ m.type \in {"started", "update"} =>
       \E j : run2 = {j} /\ j.name = m.func /\ j.step = m.step
  /\ m.type \in {"connect", "completed"} => run2 = {}
  /\ comp \subseteq comp2
  /\ m.type = "completed" => \E j \in comp2 : j.name = m.func

\* A body is read and its message handled: what was open after the first unit
\* of the stream is now what the client's jobs say.
LEMMA HandledFirst ==
  ASSUME NEW run, NEW run2, NEW sp, NEW sp2, ~Fresh(sp2), NEW t,
         NEW s \in Seq(Unit), s # <<>>,
         NEW comp, NEW comp2, Handled(s[1].msg, run2, comp, comp2)
  PROVE  /\ \A f, n : OpenAt(run2, t, 0, f, n) <=> OpenAt(run, s, 1, f, n)
         /\ IdleAt(sp2, run2, t, 0) <=> IdleAt(sp, run, s, 1)
         /\ \A m : Fits(sp2, run2, t, 0, m) <=> Fits(sp, run, s, 1, m)
<1>1. s[1].msg.type \in {"started", "update", "connect", "completed"}
  <2>1. s[1] \in Unit
    OBVIOUS
  <2> QED
    BY <2>1, Zenon DEF Unit, Msg, Type
<1>2. \A f, n : OpenAt(run2, t, 0, f, n) <=> OpenAt(run, s, 1, f, n)
  BY <1>1 DEF OpenAt, Handled
<1>3. IdleAt(sp2, run2, t, 0) <=> IdleAt(sp, run, s, 1)
  <2>1. run2 = {} <=> s[1].msg.type \in {"connect", "completed"}
    BY <1>1, Zenon DEF Handled
  <2> QED
    BY <2>1 DEF IdleAt
<1>4. \A m : Fits(sp2, run2, t, 0, m) <=> Fits(sp, run, s, 1, m)
  BY <1>2, <1>3 DEF Fits
<1> QED
  BY <1>2, <1>3, <1>4, Zenon

\* A body is read and its message is handled: the rest of the stream goes on from
\* the client's new jobs (the handlers of main.cc).
LEMMA TailBody ==
  ASSUME NEW run, NEW comp, NEW sp, NEW s \in Seq(Unit), NEW dd, s # <<>>,
         NEW run2, NEW comp2, NEW sp2, ~Fresh(sp2),
         NEW w, NEW w2, w = "body", w2 = "len",
         StreamOK(sp, run, s, w), ReportOK(run, s, dd), DidOK(run, comp, s, dd),
         Handled(s[1].msg, run2, comp, comp2)
  PROVE  /\ StreamOK(sp2, run2, Tail(s), w2)
         /\ ReportOK(run2, Tail(s), dd)
         /\ DidOK(run2, comp2, Tail(s), dd)
<1> DEFINE t == Tail(s)
<1>1. s[1].part = "body"
  BY Alternates
<1>2. Len(s) >= 2 => s[2].part = "len" /\ Fits(sp, run, s, 1, s[2].msg)
  <2>1. Len(s) >= 2 => 2 \in 2 .. Len(s) /\ 2 - 1 = 1
    OBVIOUS
  <2> QED
    BY <1>1, <2>1, Alternates
<1>3. /\ \A f, n : OpenAt(run2, t, 0, f, n) <=> OpenAt(run, s, 1, f, n)
      /\ \A m : Fits(sp2, run2, t, 0, m) <=> Fits(sp, run, s, 1, m)
  BY HandledFirst, Zenon
<1>4. StreamOK(sp2, run2, t, w2)
  BY <1>2, <1>3, TailStream, Zenon
<1>5. ReportOK(run2, t, dd)
  <2> SUFFICES ASSUME NEW k \in 1 .. Len(t), IsCompletion(t[k])
               PROVE  \E n \in 0 .. MaxUpdates :
                        OpenAt(run2, t, k - 2, t[k].msg.func, n) /\ <<t[k].msg.func, n>> \in dd
    BY Zenon DEF ReportOK
  <2>1. k + 1 \in 2 .. Len(s) /\ t[k] = s[k + 1] /\ (k + 1) - 2 = k - 1
    BY TailPlaces
  <2>2. PICK n \in 0 .. MaxUpdates :
          OpenAt(run, s, k - 1, t[k].msg.func, n) /\ <<t[k].msg.func, n>> \in dd
    <3>1. k + 1 \in 1 .. Len(s) /\ IsCompletion(s[k + 1])
      BY <2>1
    <3> QED
      BY <2>1, <3>1, Zenon DEF ReportOK
  <2>3. k # 1
    BY <1>2, <2>1 DEF IsCompletion
  <2>4. OpenAt(run2, t, k - 2, t[k].msg.func, n)
    <3>1. CASE k = 2
      <4>1. k - 1 = 1 /\ k - 2 = 0
        BY <3>1, SMTT(30)
      <4> QED
        BY <1>3, <2>2, <4>1, Zenon
    <3>2. CASE k > 2
      <4>1. k - 1 \in 2 .. Len(s) /\ k - 2 = (k - 1) - 1
        BY <2>1, <3>2
      <4> QED
        BY <2>2, <4>1, TailSame
    <3> QED
      BY <2>3, <3>1, <3>2
  <2> QED
    BY <2>2, <2>4, Zenon
<1>6. DidOK(run2, comp2, t, dd)
  <2> SUFFICES ASSUME NEW f \in Func, Named(dd, f)
               PROVE  /\ (\E j \in comp2 : j.name = f) \/ Coming(t, f, 0)
                      /\ \A j \in run2 : j.name = f => Coming(t, f, 0)
                      /\ \A k \in 1 .. Len(t) :
                           t[k].msg.type \in {"started", "update"} /\ t[k].msg.func = f
                             => Coming(t, f, k)
    BY Zenon DEF DidOK
  <2>1. /\ (\E j \in comp : j.name = f) \/ Coming(s, f, 0)
        /\ \A k \in 1 .. Len(s) :
             s[k].msg.type \in {"started", "update"} /\ s[k].msg.func = f => Coming(s, f, k)
    BY SMTT(30) DEF DidOK
  <2>2. (\E j \in comp2 : j.name = f) \/ Coming(t, f, 0)
    <3>1. CASE IsCompletion(s[1]) /\ s[1].msg.func = f
      BY <3>1, Zenon DEF IsCompletion, Handled
    <3>2. CASE ~(IsCompletion(s[1]) /\ s[1].msg.func = f)
      <4>1. Coming(s, f, 0) => Coming(t, f, 0)
        BY <3>2, TailComing, Zenon
      <4> QED
        BY <2>1, <4>1, Zenon DEF Handled
    <3> QED
      BY <3>1, <3>2, Zenon
  <2>3. ASSUME NEW j \in run2, j.name = f
        PROVE  Coming(t, f, 0)
    <3>1. s[1] \in Unit /\ 1 \in 1 .. Len(s)
      OBVIOUS
    <3>2. s[1].msg.type \in {"started", "update"}
      BY <2>3, <3>1, Zenon DEF Unit, Msg, Type, Handled
    <3>3. s[1].msg.func = f
      BY <2>3, <3>2, Zenon DEF Handled
    <3>4. Coming(s, f, 1) /\ 1 \in Nat /\ 1 # 0 /\ 1 - 1 = 0
      BY <2>1, <3>1, <3>2, <3>3
    <3> QED
      BY <3>4, TailComing, Zenon
  <2>4. ASSUME NEW k \in 1 .. Len(t),
               t[k].msg.type \in {"started", "update"}, t[k].msg.func = f
        PROVE  Coming(t, f, k)
    <3>1. t[k] = s[k + 1] /\ k + 1 \in 1 .. Len(s) /\ k + 1 \in Nat /\ k + 1 # 0
          /\ (k + 1) - 1 = k
      BY TailPlaces
    <3>2. Coming(s, f, k + 1)
      BY <2>1, <2>4, <3>1, Zenon
    <3> QED
      BY <3>1, <3>2, TailComing, Zenon
  <2> HIDE DEF t
  <2> QED
    BY <2>2, <2>3, <2>4, Zenon
<1> QED
  BY <1>4, <1>5, <1>6, Zenon

\* Where the client goes on does not depend on what its thread reads: enough
\* that the last places of the stream are as before.
LEMMA TailClient ==
  ASSUME NEW p, NEW f, NEW n, NEW m, NEW dd, NEW sp, NEW run, NEW w, NEW sp2, NEW run2,
         NEW w2, NEW s \in Seq(Unit), s # <<>>,
         ClientAt(p, f, n, m, sp, run, s, w, dd),
         m = NoMsg =>
           /\ Len(s) = 1 => w2 = "len"
           /\ IdleAt(sp, run, s, Len(s)) => IdleAt(sp2, run2, Tail(s), Len(s) - 1)
           /\ OpenAt(run, s, Len(s), f, n) => OpenAt(run2, Tail(s), Len(s) - 1, f, n),
         m # NoMsg =>
           /\ Len(s) = 1 => w2 = "body" /\ Fits(sp2, run2, Tail(s), 0, m)
           /\ OpenAt(run, s, Len(s) - 1, f, n) => OpenAt(run2, Tail(s), Len(s) - 2, f, n)
  PROVE  ClientAt(p, f, n, m, sp2, run2, Tail(s), w2, dd)
<1> DEFINE t == Tail(s)
<1>1. t = <<>> <=> Len(s) = 1
  BY LenCases, Zenon
<1>2. t # <<>> => t[Len(t)] = s[Len(s)]
  <2> SUFFICES ASSUME t # <<>> PROVE t[Len(t)] = s[Len(s)]
    BY Zenon
  <2>1. Len(t) = Len(s) - 1 /\ Len(t) \in 1 .. Len(s) - 1 /\ Len(t) + 1 = Len(s)
    BY TailPlaces
  <2>2. t[Len(t)] = s[Len(t) + 1]
    BY <2>1, TailPlaces, Zenon
  <2> QED
    BY <2>1, <2>2, Zenon
<1>3. Len(t) = Len(s) - 1 /\ Len(t) - 1 = Len(s) - 2
  BY TailPlaces, SMTT(30)
<1>4. CASE m = NoMsg
  <2> HIDE DEF t
  <2> QED
    BY <1>1, <1>2, <1>3, <1>4, SMTT(30) DEF ClientAt, t
<1>5. CASE m # NoMsg
  <2> HIDE DEF t
  <2> QED
    BY <1>1, <1>2, <1>3, <1>5, Zenon DEF ClientAt, t
<1> QED
  BY <1>4, <1>5, Zenon

\* A length is read: the client still goes on where the stream ends, also when
\* the length was all that it had written.
LEMMA TailLenClient ==
  ASSUME NEW p, NEW f, NEW n, NEW m, NEW dd, NEW sp, NEW run, NEW w, NEW w2,
         NEW s \in Seq(Unit), s # <<>>, w = "len", w2 = "body",
         StreamOK(sp, run, s, w), ClientAt(p, f, n, m, sp, run, s, w, dd)
  PROVE  ClientAt(p, f, n, m, sp, run, Tail(s), w2, dd)
<1> DEFINE t == Tail(s)
<1>1. s[1].part = "len" /\ Fits(sp, run, s, 0, s[1].msg) /\ Len(s) \in Nat /\ Len(s) >= 1
  BY Alternates
<1>2. ASSUME m = NoMsg
      PROVE  /\ Len(s) = 1 => w2 = "len"
             /\ IdleAt(sp, run, s, Len(s)) => IdleAt(sp, run, t, Len(s) - 1)
             /\ OpenAt(run, s, Len(s), f, n) => OpenAt(run, t, Len(s) - 1, f, n)
  <2>1. s[Len(s)].part = "body"
    BY <1>2, Zenon DEF ClientAt
  <2>2. Len(s) \in 2 .. Len(s) /\ Len(s) # 1
    BY <1>1, <2>1
  <2> QED
    BY <2>2, TailSame, Zenon
<1>3. ASSUME m # NoMsg
      PROVE  /\ Len(s) = 1 => w2 = "body" /\ Fits(sp, run, t, 0, m)
             /\ OpenAt(run, s, Len(s) - 1, f, n) => OpenAt(run, t, Len(s) - 2, f, n)
  <2>1. s[Len(s)].part = "len" /\ s[Len(s)].msg = m
    BY <1>3 DEF ClientAt
  <2>2. Len(s) # 2
    <3> SUFFICES ASSUME Len(s) = 2 PROVE FALSE
      BY Zenon
    <3>1. 2 \in 2 .. Len(s) /\ 2 - 1 = 1
      OBVIOUS
    <3>2. s[1].part = "len" => s[2].part = "body"
      <4>1. \A k \in 2 .. Len(s) : s[k - 1].part = "len" => s[k].part = "body"
        BY Alternates
      <4> QED
        BY <3>1, <4>1, Zenon
    <3> QED
      BY <1>1, <2>1, <3>2, Zenon
  <2>3. CASE Len(s) = 1
    <3>1. Fits(sp, run, s, 0, m)
      BY <1>1, <2>1, <2>3, SMTT(30)
    <3>2. Fits(sp, run, t, 0, m)
      BY <3>1 DEF Fits, OpenAt, IdleAt
    <3>3. Len(s) - 1 = 0 /\ Len(s) - 2 = -1
      BY <2>3
    <3>4. OpenAt(run, s, 0, f, n) => OpenAt(run, t, -1, f, n)
      BY DEF OpenAt
    <3> QED
      BY <3>2, <3>3, <3>4, Zenon
  <2>4. CASE Len(s) > 2
    <3>1. PICK l \in Nat : l = Len(s) /\ l > 2
      BY <1>1, <2>4, Zenon
    <3>2. l - 1 \in 2 .. l /\ l - 2 = (l - 1) - 1 /\ l # 1
      BY <3>1
    <3> QED
      BY <3>1, <3>2, TailSame, Zenon
  <2>5. Len(s) = 1 \/ Len(s) > 2
    BY <2>2, LenCases, Zenon
  <2> QED
    BY <2>3, <2>4, <2>5, Zenon
<1> QED
  BY <1>2, <1>3, TailClient, SMTT(30)

\* A body is read and handled: the client still goes on where the stream ends,
\* or from the thread's new jobs when nothing is left of it.
LEMMA TailBodyClient ==
  ASSUME NEW p, NEW f, NEW n, NEW m, NEW dd, NEW sp, NEW run, NEW w, NEW w2,
         NEW sp2, NEW run2, ~Fresh(sp2), NEW comp, NEW comp2,
         NEW s \in Seq(Unit), s # <<>>, w = "body", w2 = "len",
         Handled(s[1].msg, run2, comp, comp2),
         StreamOK(sp, run, s, w), ClientAt(p, f, n, m, sp, run, s, w, dd)
  PROVE  ClientAt(p, f, n, m, sp2, run2, Tail(s), w2, dd)
<1> DEFINE t == Tail(s)
<1>1. s[1].part = "body" /\ Len(s) \in Nat /\ Len(s) >= 1
  BY Alternates
<1>2. /\ \A g, k : OpenAt(run2, t, 0, g, k) <=> OpenAt(run, s, 1, g, k)
      /\ IdleAt(sp2, run2, t, 0) <=> IdleAt(sp, run, s, 1)
  BY HandledFirst, Zenon
<1>3. /\ IdleAt(sp, run, s, Len(s)) => IdleAt(sp2, run2, t, Len(s) - 1)
      /\ OpenAt(run, s, Len(s), f, n) => OpenAt(run2, t, Len(s) - 1, f, n)
  <2>1. CASE Len(s) = 1
    <3>1. Len(s) - 1 = 0
      BY <2>1
    <3> QED
      BY <1>2, <2>1, <3>1, Zenon
  <2>2. CASE Len(s) > 1
    <3>1. Len(s) \in 2 .. Len(s)
      BY <1>1, <2>2
    <3> QED
      BY <3>1, TailSame, Zenon
  <2>3. Len(s) = 1 \/ Len(s) > 1
    BY LenCases, Zenon
  <2> QED
    BY <2>1, <2>2, <2>3, Zenon
<1>4. ASSUME m # NoMsg
      PROVE  /\ Len(s) # 1
             /\ OpenAt(run, s, Len(s) - 1, f, n) => OpenAt(run2, t, Len(s) - 2, f, n)
  <2>1. Len(s) # 1
    BY <1>1, <1>4 DEF ClientAt
  <2>2. CASE Len(s) = 2
    <3>1. Len(s) - 1 = 1 /\ Len(s) - 2 = 0
      BY <2>2
    <3> QED
      BY <1>2, <2>1, <3>1, Zenon
  <2>3. CASE Len(s) > 2
    <3>1. Len(s) - 1 \in 2 .. Len(s) /\ Len(s) - 2 = (Len(s) - 1) - 1
      BY <1>1, <2>3
    <3> QED
      BY <2>1, <3>1, TailSame, Zenon
  <2>4. Len(s) = 2 \/ Len(s) > 2
    BY <2>1, LenCases, Zenon
  <2> QED
    BY <2>2, <2>3, <2>4, Zenon
<1> QED
  BY <1>3, <1>4, TailClient, Zenon

\* Of where the thread is, what the invariant says of the stream and of the
\* client depends only on whether the thread has handled a message.
LEMMA SameFresh ==
  ASSUME NEW sp, NEW sp2, Fresh(sp) <=> Fresh(sp2), NEW run, NEW s, NEW w
  PROVE  /\ StreamOK(sp, run, s, w) => StreamOK(sp2, run, s, w)
         /\ \A p, f, n, m, dd : p # "new" /\ ClientAt(p, f, n, m, sp, run, s, w, dd)
              => ClientAt(p, f, n, m, sp2, run, s, w, dd)
<1>1. \A i : IdleAt(sp, run, s, i) <=> IdleAt(sp2, run, s, i)
  BY Zenon DEF IdleAt
<1>2. \A i, m : Fits(sp, run, s, i, m) <=> Fits(sp2, run, s, i, m)
  BY <1>1 DEF Fits
<1>3. StreamOK(sp, run, s, w) => StreamOK(sp2, run, s, w)
  BY <1>2, Zenon DEF StreamOK, Continues
<1>4. ASSUME NEW p, NEW f, NEW n, NEW m, NEW dd, p # "new",
             ClientAt(p, f, n, m, sp, run, s, w, dd)
      PROVE  ClientAt(p, f, n, m, sp2, run, s, w, dd)
  <2>1. CASE m = NoMsg
    BY <1>1, <1>4, <2>1, SMTT(30) DEF ClientAt
  <2>2. CASE m # NoMsg
    BY <1>2, <1>4, <2>2, Zenon DEF ClientAt
  <2> QED
    BY <2>1, <2>2, SMTT(30)
<1> QED
  BY <1>3, <1>4, Zenon

-----------------------------------------------------------------------------
(* The parts of a stream: the FILE's buffer, then the socket. *)

\* A write to the socket is a write at the end of the client's stream.
LEMMA ConcatAppend ==
  ASSUME NEW a \in Seq(Unit), NEW b \in Seq(Unit), NEW u \in Unit
  PROVE  a \o Append(b, u) = Append(a \o b, u)
<1>1. <<u>> \in Seq(Unit) /\ a \o b \in Seq(Unit)
  BY ConcatProperties
<1>2. a \o (b \o <<u>>) = (a \o b) \o <<u>>
  BY <1>1, ConcatAssociative
<1> QED
  BY <1>1, <1>2, AppendIsConcat, Zenon

\* A unit read from the FILE's buffer is the first unit of the stream.
LEMMA ConcatTail ==
  ASSUME NEW a \in Seq(Unit), NEW b \in Seq(Unit), a # <<>>
  PROVE  /\ a \o b # <<>> /\ (a \o b)[1] = Head(a)
         /\ Tail(a) \o b = Tail(a \o b)
<1>1. /\ a \o b \in Seq(Unit) /\ Len(a \o b) = Len(a) + Len(b)
      /\ \A i \in 1 .. Len(a) + Len(b) :
           (a \o b)[i] = IF i <= Len(a) THEN a[i] ELSE b[i - Len(a)]
  BY ConcatProperties, Zenon
<1>2. Len(a) \in Nat \ {0} /\ Len(b) \in Nat
  BY EmptySeq
<1>3. a \o b # <<>> /\ (a \o b)[1] = Head(a)
  BY <1>1, <1>2
<1>4. /\ Tail(a) \in Seq(Unit) /\ Len(Tail(a)) = Len(a) - 1
      /\ \A i \in 1 .. Len(a) - 1 : Tail(a)[i] = a[i + 1]
  BY TailPlaces, SMTT(30)
<1>5. /\ Tail(a) \o b \in Seq(Unit) /\ Len(Tail(a) \o b) = Len(a) - 1 + Len(b)
      /\ \A i \in 1 .. Len(a) - 1 + Len(b) :
           (Tail(a) \o b)[i] = IF i <= Len(a) - 1 THEN Tail(a)[i] ELSE b[i - (Len(a) - 1)]
  BY <1>4, ConcatProperties
<1>6. /\ Tail(a \o b) \in Seq(Unit) /\ Len(Tail(a \o b)) = Len(a) + Len(b) - 1
      /\ \A i \in 1 .. Len(a) + Len(b) - 1 : Tail(a \o b)[i] = (a \o b)[i + 1]
  BY <1>1, <1>3, TailPlaces
<1>7. ASSUME NEW i \in 1 .. Len(a) - 1 + Len(b)
      PROVE  (Tail(a) \o b)[i] = Tail(a \o b)[i]
  <2>1. i + 1 \in 1 .. Len(a) + Len(b) /\ (i + 1) - Len(a) = i - (Len(a) - 1)
    BY <1>2
  <2>2. Tail(a \o b)[i] = (a \o b)[i + 1]
    BY <1>2, <1>6
  <2>3. CASE i <= Len(a) - 1
    BY <1>1, <1>2, <1>4, <1>5, <2>1, <2>2, <2>3
  <2>4. CASE i > Len(a) - 1
    BY <1>1, <1>2, <1>5, <2>1, <2>2, <2>4
  <2> QED
    BY <1>2, <2>3, <2>4
<1>8. Tail(a) \o b = Tail(a \o b)
  <2>1. Len(Tail(a) \o b) = Len(Tail(a \o b))
    BY <1>2, <1>5, <1>6
  <2> QED
    BY <1>5, <1>6, <1>7, <2>1, SeqEqual, Zenon
<1> QED
  BY <1>3, <1>8, Zenon

\* A read() that moves units from the socket into the empty buffer of the FILE
\* leaves the stream as it is.
LEMMA ConcatSplit ==
  ASSUME NEW b \in Seq(Unit), NEW k \in 1 .. Len(b)
  PROVE  /\ SubSeq(b, 1, k) \in Seq(Unit) /\ SubSeq(b, k + 1, Len(b)) \in Seq(Unit)
         /\ SubSeq(b, 1, k) \o SubSeq(b, k + 1, Len(b)) = <<>> \o b
<1>1. SubSeq(b, 1, k) \in Seq(Unit) /\ SubSeq(b, k + 1, Len(b)) \in Seq(Unit)
  OBVIOUS
<1>2. SubSeq(b, 1, k) \o SubSeq(b, k + 1, Len(b)) = SubSeq(b, 1, Len(b))
  <2>1. 1 \in 1 .. Len(b) + 1 /\ k \in (1 - 1) .. Len(b) /\ Len(b) \in k .. Len(b)
    OBVIOUS
  <2> QED
    BY <2>1, ConcatAdjacentSubSeq, Zenon
<1>3. SubSeq(b, 1, Len(b)) = b /\ <<>> \o b = b
  BY SubSeqFull, ConcatEmptySeq, Zenon
<1> QED
  BY <1>1, <1>2, <1>3, Zenon
===============================================================================
