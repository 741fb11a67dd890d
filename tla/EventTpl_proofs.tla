-------------------------- MODULE EventTpl_proofs --------------------------
(* Proofs about EventTpl for any events, groups, timers and calls, however   *)
(* the timer interrupts nest: the type of the state, that priorities hold,   *)
(* that no signal is lost, that the timers stay sorted, that closed events   *)
(* are forgotten, and that EventTpl implements Notifications.                *)
EXTENDS EventTpl, SequenceTheorems, FiniteSetTheorems, WellFoundedInduction, TLAPS

Tpls == Levels \cup {Application}
Frames == [at : Labels, to : Tpls, ev : Code, n : Int]
TimerLabels == TimerSections \cup CheckSections
Calling == {"dispatch", "notify"}
Last(s) == s[Len(s)]
Front(s) == SubSeq(s, 1, Len(s) - 1)

\* A frame, by itself.
Shape(f) ==
  /\ f \in Frames
  /\ f.at = "code" =>
       \/ f.ev = App /\ f.to = Application
       \/ f.ev \in Events /\ f.to = NotifyTpl[f.ev]
  /\ f.at \in Calling => f.to \in Levels
  /\ f.at = "notify" => f.ev \in All /\ f.to = TplOf(f.ev)
  /\ f.at \in {"group", "list", "relock"} => f.ev \in NotifySignal
  /\ f.at \in {"list", "wait"} => f.n \in Nat \ {0}
  /\ f.at \in {"signal", "rearm"} \cup TimerSections => f.ev \in Timers
  /\ f.at \in TimerTypes => f.n \in Nat
  /\ f.at \in {"unlink", "free", "look"} => f.ev \in Events
  /\ f.at \in CheckSections => f.to = TimerLevel
  /\ f.at = "wait" => f.to = Application

\* The TPL at which the code of a frame may run.
Fits(f, l) ==
  /\ l \in Tpls \cup {High} /\ f.to <= l
  /\ f.at = "code" => l <= Notify
  /\ f.at = "lower" => l # High
  /\ f.at \in TimerLabels => l = TimerLevel
  /\ f.at = "list" => l = High
  /\ f.at \notin {"code", "restore", "lower", "list"} \cup TimerLabels => l = f.to

\* A frame g somewhere above f: g never goes back below the TPL that f holds, calls
\* notification functions above it, and does not enter a second timer section.
Floor(f) == IF f.at \in TimerLabels THEN TimerLevel ELSE f.to
Over(f, g) ==
  /\ Floor(f) <= g.to
  /\ g.at \in Calling => Floor(f) < g.to
  /\ ~(f.at \in TimerLabels /\ g.at \in TimerLabels)

Body(s) ==
  /\ s \in Seq(Frames) /\ s # <<>>
  /\ s[1].at = "code" /\ s[1].ev = App
  /\ \A i \in 1..Len(s) : Shape(s[i])
  /\ \A i, j \in 1..Len(s) : i < j => Over(s[i], s[j])
  /\ \A i \in 1..Len(s) - 1 : Fits(s[i], s[i + 1].to)

StackOK(s, l) == Body(s) /\ Fits(Last(s), l)

QueuesOK == /\ queue \in [Levels -> Seq(All)]
            /\ \A l \in Levels : \A p \in 1..Len(queue[l]) : TplOf(queue[l][p]) = l
DataOK ==
  /\ pending \subseteq Levels
  /\ QueuesOK
  /\ signalQueue \in Seq(NotifySignal)
  /\ signalCount \in [All -> 0..1]
  /\ status \in [All -> {"none", "live", "freed"}]
  /\ timers \in Seq(Timers)
  /\ due \in [Events -> Int] /\ period \in [Events -> Nat]
CpuOK ==
  /\ tpl \in Tpls \cup {High} /\ interrupts \in BOOLEAN
  /\ interrupts <=> tpl # High
  /\ StackOK(stack, tpl)
Inv == DataOK /\ CpuOK

-----------------------------------------------------------------------------
(* Stacks.                                                                   *)

LEMMA FrontLast ==
  ASSUME NEW s \in Seq(Frames), s # <<>>
  PROVE  /\ Len(s) \in Nat \ {0} /\ Last(s) \in Frames
         /\ Front(s) \in Seq(Frames) /\ Len(Front(s)) = Len(s) - 1
         /\ \A i \in 1..Len(s) - 1 : Front(s)[i] = s[i]
<1>1. Len(s) \in Nat \ {0}
  BY EmptySeq
<1>2. \A i \in 1..Len(s) : s[i] \in Frames
  BY ElementOfSeq
<1>3. \A i \in 1..Len(s) - 1 : s[i] \in Frames
  BY <1>1, <1>2
<1>4. Last(s) \in Frames
  BY <1>1, <1>2 DEF Last
<1>5. /\ Front(s) \in Seq(Frames)
      /\ Len(Front(s)) = IF 1 <= Len(s) - 1 THEN (Len(s) - 1) - 1 + 1 ELSE 0
      /\ \A i \in 1..(Len(s) - 1) - 1 + 1 : Front(s)[i] = s[1 + i - 1]
  BY <1>1, <1>3, SubSeqProperties DEF Front
<1>6. \A i \in 1..Len(s) - 1 : Front(s)[i] = s[i]
  BY <1>1, <1>5
<1>7. Len(Front(s)) = Len(s) - 1
  <2>1. ASSUME NEW n \in Nat \ {0}, NEW m, m = IF 1 <= n - 1 THEN (n - 1) - 1 + 1 ELSE 0
        PROVE  m = n - 1
    BY <2>1
  <2>2. Len(Front(s)) = IF 1 <= Len(s) - 1 THEN (Len(s) - 1) - 1 + 1 ELSE 0
    BY <1>5
  <2> QED BY <1>1, <2>1, <2>2
<1> QED BY <1>1, <1>4, <1>5, <1>6, <1>7

LEMMA Appended ==
  ASSUME NEW s \in Seq(Frames), NEW f \in Frames
  PROVE  /\ Append(s, f) \in Seq(Frames) /\ Append(s, f) # <<>>
         /\ Len(Append(s, f)) = Len(s) + 1
         /\ \A i \in 1..Len(s) : Append(s, f)[i] = s[i]
         /\ Append(s, f)[Len(s) + 1] = f
         /\ Last(Append(s, f)) = f
BY AppendProperties DEF Last

LEMMA FitsFloor ==
  ASSUME NEW f, NEW l, Shape(f), Fits(f, l)
  PROVE  /\ l \in {4, 8, 16, 30, 31} /\ f.to \in {4, 8, 16, 30}
         /\ f.to <= l
         /\ l \in Tpls => Floor(f) <= l
BY DEF Fits, Shape, Floor, Frames, Tpls, Levels, Application, Callback, Notify,
       TimerLevel, High, TimerLabels, TimerSections, CheckSections

\* A frame pushed at the TPL that the top runs at.
LEMMA PushAny ==
  ASSUME NEW s, Body(s), NEW g, Shape(g), Fits(Last(s), g.to),
         \A i \in 1..Len(s) : Over(s[i], g)
  PROVE  Body(Append(s, g))
<1> DEFINE t == Append(s, g)
<1>1. s \in Seq(Frames) /\ s # <<>> /\ g \in Frames
  BY DEF Body, Shape
<1>2. /\ t \in Seq(Frames) /\ t # <<>> /\ Len(t) = Len(s) + 1
      /\ \A i \in 1..Len(s) : t[i] = s[i]
      /\ t[Len(s) + 1] = g
      /\ Len(s) \in Nat \ {0}
  BY <1>1, Appended, FrontLast
<1> HIDE DEF t
<1>3. t[1].at = "code" /\ t[1].ev = App
  BY <1>2 DEF Body
<1>4. \A i \in 1..Len(t) : Shape(t[i])
  BY <1>2 DEF Body
<1>5. \A i, j \in 1..Len(t) : i < j => Over(t[i], t[j])
  <2> SUFFICES ASSUME NEW i \in 1..Len(t), NEW j \in 1..Len(t), i < j
               PROVE  Over(t[i], t[j])
    OBVIOUS
  <2>1. i \in 1..Len(s) /\ t[i] = s[i]
    BY <1>2
  <2>2. CASE j = Len(s) + 1
    BY <2>1, <2>2, <1>2
  <2>3. CASE j # Len(s) + 1
    <3>1. j \in 1..Len(s) /\ t[j] = s[j]
      BY <2>3, <1>2
    <3> QED BY <2>1, <3>1 DEF Body
  <2> QED BY <2>2, <2>3
<1>6. \A i \in 1..Len(t) - 1 : Fits(t[i], t[i + 1].to)
  <2> SUFFICES ASSUME NEW i \in 1..Len(t) - 1
               PROVE  Fits(t[i], t[i + 1].to)
    OBVIOUS
  <2>1. i \in 1..Len(s) /\ t[i] = s[i]
    BY <1>2
  <2>2. CASE i = Len(s)
    BY <2>1, <2>2, <1>2 DEF Last
  <2>3. CASE i # Len(s)
    <3>1. i \in 1..Len(s) - 1 /\ i + 1 \in 1..Len(s) /\ t[i + 1] = s[i + 1]
      BY <2>1, <2>3, <1>2
    <3> QED BY <2>1, <3>1 DEF Body
  <2> QED BY <2>2, <2>3
<1> QED BY <1>1, <1>2, <1>3, <1>4, <1>5, <1>6 DEF Body, t

\* What is above the frames below the top is above the top too.
LEMMA OverTop ==
  ASSUME NEW s, Body(s), NEW l, Fits(Last(s), l), l \in Tpls,
         NEW i \in 1..Len(s)
  PROVE  /\ Shape(s[i])
         /\ Floor(s[i]) \in Int
         /\ Floor(s[i]) <= l
         /\ Last(s).to < l /\ Last(s).at \notin TimerLabels => Floor(s[i]) < l
<1>1. Len(s) \in Nat \ {0} /\ Shape(Last(s)) /\ Shape(s[i])
  BY FrontLast DEF Body, Last
<1>2. Last(s).to \in {4, 8, 16, 30} /\ l \in {4, 8, 16, 30, 31} /\ Last(s).to <= l
      /\ Floor(Last(s)) <= l
  BY <1>1, FitsFloor
<1>3. Floor(s[i]) \in {4, 8, 16, 30}
  BY <1>1 DEF Floor, Shape, Frames, Tpls, Levels, Application, Callback, Notify, TimerLevel
<1>4. CASE i = Len(s)
  BY <1>1, <1>2, <1>3, <1>4 DEF Last, Floor
<1>5. CASE i # Len(s)
  <2>1. Over(s[i], Last(s))
    BY <1>1, <1>5 DEF Body, Last
  <2>2. Floor(s[i]) <= Last(s).to
    BY <2>1 DEF Over
  <2> QED BY <2>2, <1>1, <1>2, <1>3
<1> QED BY <1>4, <1>5

LEMMA Push ==
  ASSUME NEW s, NEW g, Body(s), Shape(g), Fits(Last(s), g.to),
         g.at \notin Calling, g.at \notin TimerLabels,
         NEW l, Fits(g, l)
  PROVE  StackOK(Append(s, g), l)
<1>1. g.to \in Tpls /\ s \in Seq(Frames) /\ g \in Frames
  BY DEF Shape, Frames, Body
<1>2. \A i \in 1..Len(s) : Over(s[i], g)
  BY <1>1, OverTop DEF Over
<1> QED BY <1>1, <1>2, PushAny, Appended DEF StackOK

\* A notification function is dispatched from CoreRestoreTpl.
LEMMA PushDispatch ==
  ASSUME NEW s, NEW g, Body(s), Shape(g), Fits(Last(s), g.to),
         g.at = "dispatch", Last(s).to < g.to, Last(s).at \notin TimerLabels
  PROVE  StackOK(Append(s, g), g.to)
<1>1. g.to \in Tpls /\ s \in Seq(Frames) /\ g \in Frames
  BY DEF Shape, Frames, Body
<1>2. \A i \in 1..Len(s) : Over(s[i], g)
  BY <1>1, OverTop DEF Over, TimerLabels, TimerSections, CheckSections
<1>3. Fits(g, g.to)
  BY <1>1 DEF Fits, TimerLabels, TimerSections, CheckSections, Tpls, Levels,
              Application, Callback, Notify, TimerLevel
<1> QED BY <1>1, <1>2, <1>3, PushAny, Appended DEF StackOK

\* A timer section is entered.
LEMMA PushTimer ==
  ASSUME NEW s, NEW g, Body(s), Shape(g), Fits(Last(s), g.to),
         g.at \in TimerLabels,
         \A i \in 1..Len(s) : s[i].at \notin TimerLabels
  PROVE  StackOK(Append(s, g), TimerLevel)
<1>1. g.to \in Tpls /\ s \in Seq(Frames) /\ g \in Frames
  BY DEF Shape, Frames, Body
<1>2. \A i \in 1..Len(s) : Over(s[i], g)
  BY <1>1, OverTop DEF Over, TimerLabels, TimerSections, CheckSections, Calling
<1>3. Fits(g, TimerLevel)
  BY <1>1 DEF Fits, TimerLabels, TimerSections, CheckSections, Tpls, Levels,
              Application, Callback, Notify, TimerLevel
<1> QED BY <1>1, <1>2, <1>3, PushAny, Appended DEF StackOK

\* The top is replaced by a frame that goes back to the same TPL.
LEMMA Replace ==
  ASSUME NEW s, NEW g, Body(s), Shape(g), g.to = Last(s).to, Last(s).at # "code",
         g.at \in Calling => Last(s).at \in Calling,
         g.at \in TimerLabels => Last(s).at \in TimerLabels,
         NEW l, Fits(g, l)
  PROVE  StackOK(Append(Front(s), g), l)
<1> DEFINE b == Front(s)
           t == Append(b, g)
<1>1. s \in Seq(Frames) /\ s # <<>> /\ g \in Frames
  BY DEF Body, Shape
<1>2. /\ b \in Seq(Frames) /\ Len(b) = Len(s) - 1 /\ Len(s) \in Nat \ {0}
      /\ \A i \in 1..Len(s) - 1 : b[i] = s[i]
  BY <1>1, FrontLast
<1>3. Len(s) # 1
  BY DEF Body, Last
<1>4. /\ t \in Seq(Frames) /\ t # <<>> /\ Len(t) = Len(s) /\ Last(t) = g
      /\ \A i \in 1..Len(s) - 1 : t[i] = s[i]
      /\ t[Len(s)] = g
  <2> HIDE DEF b
  <2> QED BY <1>1, <1>2, Appended
<1> HIDE DEF t, b
<1>5. t[1].at = "code" /\ t[1].ev = App
  BY <1>2, <1>3, <1>4 DEF Body
<1>6. \A i \in 1..Len(t) : Shape(t[i])
  BY <1>2, <1>4 DEF Body
<1>7. \A i, j \in 1..Len(t) : i < j => Over(t[i], t[j])
  <2> SUFFICES ASSUME NEW i \in 1..Len(t), NEW j \in 1..Len(t), i < j
               PROVE  Over(t[i], t[j])
    OBVIOUS
  <2>1. i \in 1..Len(s) /\ i \in 1..Len(s) - 1 /\ t[i] = s[i]
    BY <1>2, <1>4
  <2>2. CASE j = Len(s)
    <3>1. Over(s[i], Last(s))
      BY <2>1, <2>2, <1>2 DEF Body, Last
    <3> QED BY <3>1, <2>1, <2>2, <1>4 DEF Over
  <2>3. CASE j # Len(s)
    <3>1. j \in 1..Len(s) /\ t[j] = s[j]
      BY <2>3, <1>2, <1>4
    <3> QED BY <2>1, <3>1 DEF Body
  <2> QED BY <2>2, <2>3
<1>8. \A i \in 1..Len(t) - 1 : Fits(t[i], t[i + 1].to)
  <2> SUFFICES ASSUME NEW i \in 1..Len(t) - 1
               PROVE  Fits(t[i], t[i + 1].to)
    OBVIOUS
  <2>1. i \in 1..Len(s) - 1 /\ t[i] = s[i] /\ Fits(s[i], s[i + 1].to)
    BY <1>2, <1>4 DEF Body
  <2>2. CASE i = Len(s) - 1
    BY <2>1, <2>2, <1>2, <1>4 DEF Last
  <2>3. CASE i # Len(s) - 1
    <3>1. i + 1 \in 1..Len(s) - 1 /\ t[i + 1] = s[i + 1]
      BY <2>1, <2>3, <1>2, <1>4
    <3> QED BY <2>1, <3>1
  <2> QED BY <2>2, <2>3
<1>9. Body(t)
  BY <1>4, <1>5, <1>6, <1>7, <1>8 DEF Body
<1> QED BY <1>4, <1>9 DEF StackOK, t, b

\* The top returns, to the TPL it goes back to.
LEMMA Pop ==
  ASSUME NEW s, Body(s), Last(s).at # "code" \/ Last(s).ev # App
  PROVE  /\ StackOK(Front(s), Last(s).to)
         /\ Len(s) - 1 \in 1..Len(s)
         /\ Last(Front(s)) = s[Len(s) - 1]
<1> DEFINE t == Front(s)
<1>1. s \in Seq(Frames) /\ s # <<>>
  BY DEF Body
<1>2. /\ t \in Seq(Frames) /\ Len(t) = Len(s) - 1 /\ Len(s) \in Nat \ {0}
      /\ \A i \in 1..Len(s) - 1 : t[i] = s[i]
  BY <1>1, FrontLast
<1> HIDE DEF t
<1>3. Len(s) # 1
  BY DEF Body, Last
<1>4. Len(t) \in 1..Len(s) /\ Len(t) < Len(s) /\ t # <<>>
  BY <1>2, <1>3, EmptySeq
<1>5. Last(t) = s[Len(s) - 1] /\ Len(s) - 1 \in 1..Len(s) /\ Len(s) - 1 + 1 = Len(s)
  BY <1>2, <1>4 DEF Last
<1>6. t[1].at = "code" /\ t[1].ev = App
  BY <1>2, <1>4 DEF Body
<1>7. \A i \in 1..Len(t) : Shape(t[i])
  BY <1>2, <1>4 DEF Body
<1>8. \A i, j \in 1..Len(t) : i < j => Over(t[i], t[j])
  BY <1>2, <1>4 DEF Body
<1>9. \A i \in 1..Len(t) - 1 : Fits(t[i], t[i + 1].to)
  <2> SUFFICES ASSUME NEW i \in 1..Len(t) - 1
               PROVE  Fits(t[i], t[i + 1].to)
    OBVIOUS
  <2>1. i \in 1..Len(s) - 1 /\ i + 1 \in 1..Len(s) - 1
    BY <1>2
  <2> QED BY <2>1, <1>2 DEF Body
<1>10. Fits(s[Len(s) - 1], s[Len(s)].to)
  <2>1. Len(s) - 1 \in 1..Len(s) - 1
    BY <1>2, <1>3
  <2>2. Fits(s[Len(s) - 1], s[Len(s) - 1 + 1].to)
    BY <2>1 DEF Body
  <2> QED BY <2>2, <1>5
<1>11. Body(t)
  BY <1>2, <1>4, <1>6, <1>7, <1>8, <1>9 DEF Body
<1> QED BY <1>5, <1>10, <1>11 DEF StackOK, Last, t

\* Frames change their counts only.
LEMMA SameFrames ==
  ASSUME NEW s, NEW l, StackOK(s, l), NEW t \in Seq(Frames), Len(t) = Len(s),
         \A i \in 1..Len(s) : /\ t[i].at = s[i].at /\ t[i].to = s[i].to
                              /\ t[i].ev = s[i].ev /\ Shape(t[i])
  PROVE  StackOK(t, l)
<1>1. s \in Seq(Frames) /\ s # <<>> /\ Len(s) \in Nat \ {0}
  BY FrontLast DEF Body, StackOK
<1>2. t # <<>> /\ t[1].at = "code" /\ t[1].ev = App
  BY <1>1, EmptySeq DEF Body, StackOK
<1>3. \A i, j \in 1..Len(t) : i < j => Over(t[i], t[j])
  BY <1>1 DEF Body, StackOK, Over, Floor
<1>4. \A i \in 1..Len(t) - 1 : Fits(t[i], t[i + 1].to)
  <2> SUFFICES ASSUME NEW i \in 1..Len(t) - 1
               PROVE  Fits(t[i], t[i + 1].to)
    OBVIOUS
  <2>1. i \in 1..Len(s) /\ i + 1 \in 1..Len(s) /\ Fits(s[i], s[i + 1].to)
    BY <1>1 DEF Body, StackOK
  <2> QED BY <2>1 DEF Fits
<1>5. Fits(Last(t), l)
  BY <1>1 DEF StackOK, Last, Fits
<1> QED BY <1>2, <1>3, <1>4, <1>5 DEF StackOK, Body

\* The release of gEventQueueLock, on top of frames that run at the owner's TPL.
LEMMA Releases ==
  ASSUME NEW s, NEW owner \in Tpls, StackOK(s, owner), Release(s, owner)
  PROVE  CpuOK'
<1>1. /\ Shape(Restore(owner)) /\ Restore(owner).to = owner
      /\ Restore(owner).at = "restore"
      /\ Fits(Restore(owner), High)
  BY DEF Shape, Restore, Frame, Frames, Labels, Code, Fits, Tpls, Levels, High,
         Application, Callback, Notify, TimerLevel, TimerLabels, TimerSections,
         CheckSections, Calling, TimerTypes
<1>2. StackOK(Append(s, Restore(owner)), High)
  BY <1>1, Push DEF StackOK, Calling, TimerLabels, TimerSections, CheckSections
<1> QED BY <1>2 DEF Release, CpuOK, High

-----------------------------------------------------------------------------
(* Queues and timers.                                                        *)

LEMMA Lengths ==
  \A n, k \in Nat : k <= n =>
    /\ (IF k + 1 <= n THEN n - (k + 1) + 1 ELSE 0) = n - k
    /\ \A p \in 1..n - k : p \in 1..n - (k + 1) + 1 /\ k + 1 + p - 1 = k + p
OBVIOUS

\* Without takes the first e out.
LEMMA WithoutForm ==
  ASSUME NEW S, NEW s \in Seq(S), NEW e, \E p \in 1..Len(s) : s[p] = e
  PROVE  /\ Without(s, e) \in Seq(S) /\ Len(Without(s, e)) = Len(s) - 1
         /\ \E k \in 1..Len(s) : s[k] = e /\
              \A p \in 1..Len(s) - 1 : Without(s, e)[p] = IF p < k THEN s[p] ELSE s[p + 1]
<1>0. DOMAIN s = 1..Len(s) /\ Len(s) \in Nat /\ \A q \in 1..Len(s) : s[q] \in S
  BY LenProperties, ElementOfSeq
<1>p. ~(\A p \in DOMAIN s : s[p] # e)
  BY <1>0
<1> DEFINE k == CHOOSE p \in DOMAIN s : s[p] = e
           a == SubSeq(s, 1, k - 1)
           b == SubSeq(s, k + 1, Len(s))
<1>1. k \in 1..Len(s) /\ s[k] = e
  BY <1>0, <1>p
<1>2. Without(s, e) = a \o b
  BY <1>p DEF Without
<1> HIDE DEF k
<1>3. k \in Nat \ {0} /\ k <= Len(s)
  BY <1>0, <1>1
<1>4. /\ a \in Seq(S) /\ Len(a) = IF 1 <= k - 1 THEN (k - 1) - 1 + 1 ELSE 0
      /\ \A p \in 1..(k - 1) - 1 + 1 : a[p] = s[1 + p - 1]
  <2>1. \A p \in 1..k - 1 : s[p] \in S
    BY <1>0, <1>3
  <2> QED BY <2>1, <1>3, SubSeqProperties
<1>5. /\ b \in Seq(S) /\ Len(b) = IF k + 1 <= Len(s) THEN Len(s) - (k + 1) + 1 ELSE 0
      /\ \A p \in 1..Len(s) - (k + 1) + 1 : b[p] = s[k + 1 + p - 1]
  <2>1. \A p \in k + 1..Len(s) : s[p] \in S
    BY <1>0, <1>3
  <2> QED BY <1>0, <2>1, <1>3, SubSeqProperties
<1> HIDE DEF a, b
<1>6. Len(a) = k - 1 /\ \A p \in 1..k - 1 : a[p] = s[p]
  <2>1. ASSUME NEW m, m = IF 1 <= k - 1 THEN (k - 1) - 1 + 1 ELSE 0 PROVE m = k - 1
    BY <1>3, <2>1
  <2>2. \A p \in 1..k - 1 : a[p] = s[p]
    BY <1>3, <1>4
  <2> QED BY <1>4, <2>1, <2>2
<1>7. Len(b) = Len(s) - k /\ \A p \in 1..Len(s) - k : b[p] = s[k + p]
  <2>1. (IF k + 1 <= Len(s) THEN Len(s) - (k + 1) + 1 ELSE 0) = Len(s) - k
    BY <1>0, <1>3, Lengths
  <2>2. \A p \in 1..Len(s) - k : p \in 1..Len(s) - (k + 1) + 1 /\ k + 1 + p - 1 = k + p
    BY <1>0, <1>3, Lengths
  <2> QED BY <1>5, <2>1, <2>2
<1>8. /\ a \o b \in Seq(S) /\ Len(a \o b) = Len(a) + Len(b)
      /\ \A p \in 1..Len(a) + Len(b) : (a \o b)[p] = IF p <= Len(a) THEN a[p] ELSE b[p - Len(a)]
  BY <1>4, <1>5, ConcatProperties
<1> DEFINE c == a \o b
<1> HIDE DEF c
<1>9. /\ c \in Seq(S) /\ Len(c) = Len(s) - 1
      /\ \A p \in 1..Len(s) - 1 : c[p] = IF p < k THEN s[p] ELSE s[p + 1]
  <2>1. Len(c) = Len(s) - 1
    BY <1>0, <1>3, <1>6, <1>7, <1>8 DEF c
  <2>2. ASSUME NEW p \in 1..Len(s) - 1
        PROVE  c[p] = IF p < k THEN s[p] ELSE s[p + 1]
    <3>1. c[p] = IF p <= Len(a) THEN a[p] ELSE b[p - Len(a)]
      BY <1>0, <1>3, <1>6, <1>7, <1>8 DEF c
    <3>2. CASE p < k
      BY <1>0, <1>3, <1>6, <3>1, <3>2
    <3>3. CASE ~(p < k)
      <4>1. p - Len(a) \in 1..Len(s) - k /\ k + (p - Len(a)) = p + 1
        BY <1>0, <1>3, <1>6, <3>3
      <4>2. c[p] = b[p - Len(a)]
        BY <1>0, <1>3, <1>6, <3>1, <3>3
      <4> QED BY <4>1, <4>2, <1>7, <3>3
    <3> QED BY <3>2, <3>3
  <2> QED BY <1>8, <2>1, <2>2 DEF c
<1>12. Without(s, e) = c
  BY <1>2 DEF c
<1> QED BY <1>1, <1>9, <1>12

\* Without keeps the elements other than e, in their order.
LEMMA WithoutElements ==
  ASSUME NEW S, NEW s \in Seq(S), NEW e
  PROVE  /\ Without(s, e) \in Seq(S)
         /\ \A p \in 1..Len(Without(s, e)) : \E q \in 1..Len(s) : Without(s, e)[p] = s[q]
         /\ \A q \in 1..Len(s) : s[q] # e =>
              \E p \in 1..Len(Without(s, e)) : Without(s, e)[p] = s[q]
<1>0. DOMAIN s = 1..Len(s) /\ Len(s) \in Nat /\ \A q \in 1..Len(s) : s[q] \in S
  BY LenProperties, ElementOfSeq
<1>1. CASE \A p \in DOMAIN s : s[p] # e
  <2>1. Without(s, e) = s
    BY <1>1 DEF Without
  <2> QED BY <2>1
<1>2. CASE \E p \in 1..Len(s) : s[p] = e
  <2> DEFINE c == Without(s, e)
  <2>1. c \in Seq(S) /\ Len(c) = Len(s) - 1
    BY <1>2, WithoutForm
  <2>2. PICK k \in 1..Len(s) : s[k] = e /\
          \A p \in 1..Len(s) - 1 : c[p] = IF p < k THEN s[p] ELSE s[p + 1]
    BY <1>2, WithoutForm
  <2>3. k \in Nat \ {0} /\ k <= Len(s)
    BY <1>0, <2>2
  <2> HIDE DEF c
  <2>10. ASSUME NEW p \in 1..Len(c) PROVE \E q \in 1..Len(s) : c[p] = s[q]
    <3>1. CASE p < k
      BY <1>0, <2>1, <2>2, <3>1
    <3>2. CASE ~(p < k)
      <4>1. p + 1 \in 1..Len(s) /\ c[p] = s[p + 1]
        BY <1>0, <2>1, <2>2, <3>2
      <4> QED BY <4>1
    <3> QED BY <3>1, <3>2
  <2>11. ASSUME NEW q \in 1..Len(s), s[q] # e PROVE \E p \in 1..Len(c) : c[p] = s[q]
    <3>1. CASE q < k
      <4>1. q \in 1..Len(c) /\ c[q] = s[q]
        BY <1>0, <2>3, <2>1, <2>2, <3>1
      <4> QED BY <4>1
    <3>2. CASE ~(q < k)
      <4>1. q # k
        BY <2>2, <2>11
      <4>2. q - 1 \in 1..Len(c) /\ ~(q - 1 < k) /\ q - 1 + 1 = q
        BY <1>0, <2>3, <2>1, <2>2, <3>2, <4>1
      <4>3. c[q - 1] = s[q]
        BY <4>2, <2>1, <2>2
      <4> QED BY <4>2, <4>3
    <3> QED BY <3>1, <3>2
  <2> QED BY <2>1, <2>10, <2>11 DEF c
<1> QED BY <1>0, <1>1, <1>2

LEMMA NotifyData ==
  ASSUME NEW e \in All, DataOK, CoreNotifyEvent(e)
  PROVE  pending' \subseteq Levels /\ QueuesOK'
<1> DEFINE l == TplOf(e)
           c == Without(queue[l], e)
<1>1. l \in Levels
  BY EventAssumption DEF TplOf, Levels, All
<1>2. queue[l] \in Seq(All) /\ \A p \in 1..Len(queue[l]) : TplOf(queue[l][p]) = l
  BY <1>1 DEF DataOK, QueuesOK
<1>3. c \in Seq(All) /\ \A p \in 1..Len(c) : \E q \in 1..Len(queue[l]) : c[p] = queue[l][q]
  BY <1>2, WithoutElements
<1>4. \A p \in 1..Len(c) : TplOf(c[p]) = l
  BY <1>2, <1>3
<1>5. queue' = [queue EXCEPT ![l] = Append(c, e)] /\ pending' = pending \cup {l}
  BY DEF CoreNotifyEvent
<1> HIDE DEF c
<1>6. /\ Append(c, e) \in Seq(All) /\ Len(Append(c, e)) = Len(c) + 1 /\ Len(c) \in Nat
      /\ \A p \in 1..Len(c) : Append(c, e)[p] = c[p]
      /\ Append(c, e)[Len(c) + 1] = e
  BY <1>3, AppendProperties, LenProperties
<1>7. \A p \in 1..Len(Append(c, e)) : TplOf(Append(c, e)[p]) = l
  <2>1. \A p \in 1..Len(Append(c, e)) : p \in 1..Len(c) \/ p = Len(c) + 1
    BY <1>6
  <2> QED BY <2>1, <1>4, <1>6
<1> HIDE DEF l
<1>8. queue' \in [Levels -> Seq(All)] /\ queue'[l] = Append(c, e)
      /\ \A m \in Levels : m # l => queue'[m] = queue[m]
  BY <1>1, <1>5, <1>6 DEF DataOK, QueuesOK
<1>9. ASSUME NEW m \in Levels, NEW p \in 1..Len(queue'[m])
      PROVE  TplOf(queue'[m][p]) = m
  <2>1. CASE m = l
    BY <2>1, <1>7, <1>8, <1>9
  <2>2. CASE m # l
    BY <2>2, <1>8, <1>9 DEF DataOK, QueuesOK
  <2> QED BY <2>1, <2>2
<1>10. \A e1 : TplOf(e1)' = TplOf(e1)
  BY DEF TplOf
<1> QED BY <1>1, <1>5, <1>8, <1>9, <1>10 DEF QueuesOK, DataOK

LEMMA SignalData ==
  ASSUME NEW e \in All, DataOK, SignalSection(e)
  PROVE  pending' \subseteq Levels /\ QueuesOK' /\ signalCount' \in [All -> 0..1]
<1>1. signalCount' \in [All -> 0..1]
  BY DEF SignalSection, DataOK
<1>2. CASE FirstSignal(e) /\ ~SignalsGroup(e)
  <2>1. CoreNotifyEvent(e)
    BY <1>2 DEF SignalSection
  <2> QED BY <1>1, <2>1, NotifyData
<1>3. CASE ~(FirstSignal(e) /\ ~SignalsGroup(e))
  <2>1. UNCHANGED <<pending, queue>>
    BY <1>3 DEF SignalSection
  <2> QED BY <1>1, <2>1 DEF DataOK, QueuesOK
<1> QED BY <1>2, <1>3

\* CoreSignalEvent called at t.
LEMMA SignalCpu ==
  ASSUME NEW e \in All, NEW base, NEW t \in Tpls, StackOK(base, t),
         CoreSignalEvent(e, base, t)
  PROVE  CpuOK'
<1>1. CASE SignalsGroup(e)
  <2>1. e \in NotifySignal
    BY <1>1 DEF SignalsGroup, FirstSignal, OfSignalType, GroupOf
  <2>2. Shape(Frame("group", t, e, 0)) /\ Fits(Frame("group", t, e, 0), t)
    BY <2>1, EventAssumption DEF Shape, Frame, Frames, Labels, Code, All, Fits, Tpls,
       TimerLabels, TimerSections, CheckSections, Calling, TimerTypes,
       Levels, Application, Callback, Notify, TimerLevel
  <2>3. StackOK(Append(base, Frame("group", t, e, 0)), t)
    BY <2>2, Push DEF StackOK, Frame, Calling, TimerLabels, TimerSections, CheckSections
  <2>4. Release(Append(base, Frame("group", t, e, 0)), t)
    BY <1>1 DEF CoreSignalEvent
  <2> QED BY <2>3, <2>4, Releases
<1>2. CASE ~SignalsGroup(e)
  <2>1. Release(base, t)
    BY <1>2 DEF CoreSignalEvent
  <2> QED BY <2>1, Releases
<1> QED BY <1>1, <1>2

-----------------------------------------------------------------------------
(* The place of a timer in the list.                                         *)

LessOnNat == {p \in Nat \X Nat : p[1] < p[2]}
LEMMA LessOnNatWF == IsWellFoundedOn(LessOnNat, Nat)
BY NatLessThanWellFounded DEF OpToRel, LessOnNat

LEMMA LeastNatural ==
  ASSUME NEW T \in SUBSET Nat, T # {}
  PROVE  \E m \in T : \A y \in T : m <= y
<1>1. \E x \in T : \A y \in T : ~ (<<y, x>> \in LessOnNat)
  BY LessOnNatWF, WFMin
<1>2. PICK x \in T : \A y \in T : ~ (<<y, x>> \in LessOnNat)
  BY <1>1
<1>3. ASSUME NEW y \in T
      PROVE  x <= y
  <2>1. x \in Nat /\ y \in Nat
    OBVIOUS
  <2>2. <<y, x>> \notin LessOnNat
    BY <1>2
  <2>3. CASE y < x
    BY <2>1, <2>2, <2>3 DEF LessOnNat
  <2> QED BY <2>1, <2>3
<1> QED BY <1>3

\* The first of n places where F does not hold.
LEMMA FirstPlace ==
  ASSUME NEW n \in Nat, NEW F
  PROVE  \E k \in 0..n : (\A p \in 1..k : p \in F) /\ (k < n => k + 1 \notin F)
<1> DEFINE T == {m \in 0..n : m = n \/ m + 1 \notin F}
<1>1. T \in SUBSET Nat /\ n \in T
  OBVIOUS
<1>2. PICK m \in T : \A y \in T : m <= y
  BY <1>1, LeastNatural
<1>3. m \in 0..n /\ (m < n => m + 1 \notin F)
  OBVIOUS
<1>4. ASSUME NEW p \in 1..m
      PROVE  p \in F
  <2>1. p - 1 \in 0..n /\ p - 1 < m /\ p - 1 # n /\ p - 1 + 1 = p
    BY <1>3
  <2>2. p - 1 \notin T
    BY <1>2, <2>1
  <2> QED BY <2>1, <2>2
<1> QED BY <1>3, <1>4

\* An element is put behind the first k.
Put(s, e, k) == SubSeq(s, 1, k) \o <<e>> \o SubSeq(s, k + 1, Len(s))
LEMMA PutAt ==
  ASSUME NEW S, NEW s \in Seq(S), NEW e \in S, NEW k \in 0..Len(s)
  PROVE  /\ Put(s, e, k) \in Seq(S) /\ Len(Put(s, e, k)) = Len(s) + 1
         /\ Put(s, e, k)[k + 1] = e
         /\ \A p \in 1..k : Put(s, e, k)[p] = s[p]
         /\ \A p \in k + 1..Len(s) : Put(s, e, k)[p + 1] = s[p]
<1> DEFINE n == Len(s)
           c == Put(s, e, k)
           a == SubSeq(s, 1, k)
           b == SubSeq(s, k + 1, n)
           one == <<e>>
           front == a \o one
<1>1. n \in Nat /\ k \in Nat /\ k <= n /\ \A p \in 1..n : s[p] \in S
  BY LenProperties, ElementOfSeq
<1>2. c = front \o b
  BY DEF Put
<1>3. one \in Seq(S) /\ Len(one) = 1 /\ one[1] = e
  OBVIOUS
<1> HIDE DEF n, one, c
<1>4. a \in Seq(S) /\ Len(a) = k /\ \A p \in 1..k : a[p] = s[p]
  <2>1. /\ a \in Seq(S) /\ Len(a) = IF 1 <= k THEN k - 1 + 1 ELSE 0
        /\ \A p \in 1..k - 1 + 1 : a[p] = s[1 + p - 1]
    <3>1. \A p \in 1..k : s[p] \in S
      BY <1>1
    <3> QED BY <3>1, <1>1, SubSeqProperties
  <2> HIDE DEF a
  <2>2. (IF 1 <= k THEN k - 1 + 1 ELSE 0) = k
    BY <1>1
  <2>3. \A p \in 1..k : p \in 1..k - 1 + 1 /\ 1 + p - 1 = p
    BY <1>1
  <2> QED BY <2>1, <2>2, <2>3
<1>5. b \in Seq(S) /\ Len(b) = n - k /\ \A p \in 1..n - k : b[p] = s[k + p]
  <2>1. /\ b \in Seq(S) /\ Len(b) = IF k + 1 <= n THEN n - (k + 1) + 1 ELSE 0
        /\ \A p \in 1..n - (k + 1) + 1 : b[p] = s[k + 1 + p - 1]
    <3>1. \A p \in k + 1..n : s[p] \in S
      BY <1>1
    <3> QED BY <3>1, <1>1, SubSeqProperties
  <2> HIDE DEF b
  <2>2. (IF k + 1 <= n THEN n - (k + 1) + 1 ELSE 0) = n - k
    BY <1>1, Lengths
  <2>3. \A p \in 1..n - k : p \in 1..n - (k + 1) + 1 /\ k + 1 + p - 1 = k + p
    BY <1>1, Lengths
  <2> QED BY <2>1, <2>2, <2>3
<1> HIDE DEF a, b
<1>6. front \in Seq(S) /\ Len(front) = Len(a) + Len(one)
      /\ \A p \in 1..Len(a) + Len(one) :
           front[p] = IF p <= Len(a) THEN a[p] ELSE one[p - Len(a)]
  BY <1>3, <1>4, ConcatProperties
<1> HIDE DEF front
<1>7. Len(front) = k + 1 /\ (\A p \in 1..k : front[p] = s[p]) /\ front[k + 1] = e
  <2>1. k + 1 \in 1..k + 1 /\ ~(k + 1 <= k) /\ k + 1 - k = 1
    BY <1>1
  <2>2. \A p \in 1..k : p \in 1..k + 1 /\ p <= k
    BY <1>1
  <2>3. Len(a) + Len(one) = k + 1 /\ Len(a) = k
    BY <1>3, <1>4
  <2>4. \A p \in 1..k + 1 : front[p] = IF p <= k THEN a[p] ELSE one[p - k]
    BY <1>6, <2>3
  <2> QED BY <1>3, <1>4, <1>6, <2>1, <2>2, <2>3, <2>4
<1>8. c \in Seq(S) /\ Len(c) = Len(front) + Len(b)
      /\ \A p \in 1..Len(front) + Len(b) :
           c[p] = IF p <= Len(front) THEN front[p] ELSE b[p - Len(front)]
  <2>1. front \in Seq(S) /\ b \in Seq(S)
    BY <1>5, <1>6
  <2> QED BY ZenonT(40), <1>2, <2>1, ConcatProperties
<1>9. Len(front) + Len(b) = n + 1 /\ Len(front) = k + 1
  BY <1>1, <1>5, <1>7
<1>10. \A p \in 1..n + 1 : c[p] = IF p <= k + 1 THEN front[p] ELSE b[p - (k + 1)]
  BY <1>8, <1>9
<1>11. ASSUME NEW p \in k + 1..n
       PROVE  c[p + 1] = s[p]
  <2> DEFINE q == p + 1
  <2>1. q \in 1..n + 1 /\ ~(q <= k + 1) /\ q - (k + 1) = p - k
    BY <1>1
  <2>2. p - k \in 1..n - k /\ k + (p - k) = p
    BY <1>1
  <2> HIDE DEF q
  <2>3. c[q] = b[q - (k + 1)]
    BY <2>1, <1>10
  <2>4. c[q] = s[p]
    BY <2>1, <2>2, <2>3, <1>5
  <2> QED BY <2>4 DEF q
<1>12. \A p \in 1..k + 1 : p \in 1..n + 1 /\ p <= k + 1
  BY <1>1
<1>13. \A p \in 1..k + 1 : c[p] = front[p]
  BY <1>10, <1>12
<1>14. k + 1 \in 1..k + 1 /\ \A p \in 1..k : p \in 1..k + 1
  BY <1>1
<1>15. c[k + 1] = e /\ \A p \in 1..k : c[p] = s[p]
  BY <1>7, <1>13, <1>14
<1> QED BY <1>8, <1>9, <1>11, <1>15 DEF n, c

\* CoreInsertEventTimer puts e behind the timers that are due no later.
LEMMA InsertForm ==
  ASSUME NEW e \in Timers, NEW d \in [Events -> Int],
         timers \in Seq(Timers), CoreInsertEventTimer(e, d)
  PROVE  \E k \in 0..Len(timers) :
           /\ \A p \in 1..k : d[timers[p]] <= d[e]
           /\ k < Len(timers) => d[timers[k + 1]] > d[e]
           /\ timers' \in Seq(Timers) /\ Len(timers') = Len(timers) + 1
           /\ timers'[k + 1] = e
           /\ \A p \in 1..k : timers'[p] = timers[p]
           /\ \A p \in k + 1..Len(timers) : timers'[p + 1] = timers[p]
<1> DEFINE n == Len(timers)
           P(k) == /\ \A p \in 1..k : d[timers[p]] <= d[e]
                   /\ k < n => d[timers[k + 1]] > d[e]
           k == CHOOSE m \in 0..n : P(m)
           F == {p \in 1..n : d[timers[p]] <= d[e]}
<1>1. n \in Nat /\ \A p \in 1..n : d[timers[p]] \in Int
  <2>1. \A p \in 1..n : timers[p] \in Timers
    BY ElementOfSeq
  <2> QED BY <2>1, LenProperties, EventAssumption
<1>2. d[e] \in Int
  BY EventAssumption
<1>3. timers' = Put(timers, e, k)
  BY DEF CoreInsertEventTimer, Put
<1> HIDE DEF n
<1>4. \E m \in 0..n : P(m)
  <2>1. PICK m \in 0..n : (\A p \in 1..m : p \in F) /\ (m < n => m + 1 \notin F)
    <3> HIDE DEF F
    <3> QED BY <1>1, FirstPlace
  <2>2. ASSUME m < n
        PROVE  d[timers[m + 1]] > d[e]
    <3>1. m + 1 \in 1..n
      BY <1>1, <2>1, <2>2
    <3>2. ~(d[timers[m + 1]] <= d[e])
      BY <2>1, <2>2, <3>1
    <3> QED BY <1>1, <1>2, <3>1, <3>2
  <2> QED BY <2>1, <2>2
<1>5. k \in 0..n /\ P(k)
  <2> HIDE DEF P
  <2> QED BY <1>4
<1> HIDE DEF k, P
<1>6. /\ timers' \in Seq(Timers) /\ Len(timers') = n + 1 /\ timers'[k + 1] = e
      /\ \A p \in 1..k : timers'[p] = timers[p]
      /\ \A p \in k + 1..n : timers'[p + 1] = timers[p]
  <2>1. k \in 0..Len(timers)
    BY <1>5 DEF n
  <2>2. Put(timers, e, k) \in Seq(Timers)
    BY <2>1, PutAt
  <2>3. Len(Put(timers, e, k)) = Len(timers) + 1
    BY <2>1, PutAt
  <2>4. Put(timers, e, k)[k + 1] = e
    BY <2>1, PutAt
  <2>5. \A p \in 1..k : Put(timers, e, k)[p] = timers[p]
    BY <2>1, PutAt
  <2>6. \A p \in k + 1..Len(timers) : Put(timers, e, k)[p + 1] = timers[p]
    BY <2>1, PutAt
  <2> QED BY <1>3, <2>2, <2>3, <2>4, <2>5, <2>6 DEF n
<1> QED BY <1>5, <1>6 DEF n, P

-----------------------------------------------------------------------------
(* The actions.  The sets of labels and the levels are small and are always  *)
(* expanded from here on.                                                    *)

USE DEF Calling, TimerLabels, TimerSections, CheckSections, TimerTypes,
        Tpls, Levels, Application, Callback, Notify, TimerLevel, High

LEMMA TopFacts ==
  ASSUME CpuOK
  PROVE  /\ Body(stack) /\ Top = Last(stack) /\ Below = Front(stack)
         /\ stack \in Seq(Frames) /\ Len(stack) \in Nat \ {0}
         /\ Shape(Top) /\ Fits(Top, tpl) /\ Top \in Frames
         /\ tpl \in Tpls \cup {High} /\ Top.to \in Tpls
<1>1. Body(stack) /\ Fits(Last(stack), tpl) /\ Top = Last(stack) /\ Below = Front(stack)
  BY DEF CpuOK, StackOK, Last, Front, Top, Below
<1>2. stack \in Seq(Frames) /\ stack # <<>>
  BY <1>1 DEF Body
<1>3. Len(stack) \in Nat \ {0}
  BY <1>2, FrontLast
<1>4. Shape(Top)
  BY <1>1, <1>3 DEF Body, Last
<1>5. Top \in Frames /\ Top.to \in Tpls
  BY <1>4 DEF Shape, Frames
<1>6. tpl \in Tpls \cup {High}
  BY <1>1 DEF Fits
<1> QED BY <1>1, <1>2, <1>3, <1>4, <1>5, <1>6

\* Below TPL_HIGH_LEVEL interrupts are enabled.
LEMMA Enabled ==
  ASSUME NEW l \in Tpls, tpl' = l, interrupts' = TRUE, StackOK(stack', l)
  PROVE  CpuOK'
BY DEF CpuOK

LEMMA SameQueues ==
  ASSUME QueuesOK, queue' = queue
  PROVE  QueuesOK'
BY DEF QueuesOK, TplOf

LEMMA SameData ==
  ASSUME DataOK, UNCHANGED <<database, signalQueue, status, timing>>
  PROVE  DataOK'
BY DEF DataOK, QueuesOK, database, timing, TplOf

LEMMA ListGroupInv ==
  ASSUME Inv, ListGroup
  PROVE  Inv'
<1>1. PICK n \in Nat \ {0} : stack' = Append(Below, [Top EXCEPT !.at = "list", !.n = n])
  <2>1. Len(signalQueue) \in Nat
    BY LenProperties DEF Inv, DataOK
  <2>2. PICK n \in {1} \cup {Len(signalQueue) + 1} :
          stack' = Append(Below, [Top EXCEPT !.at = "list", !.n = n])
    BY DEF ListGroup
  <2>3. n \in Nat \ {0}
    BY <2>1
  <2> QED BY <2>2, <2>3
<1> DEFINE f == [Top EXCEPT !.at = "list", !.n = n]
<1>2. Top.at = "group" /\ tpl' = High /\ interrupts' = FALSE
  BY DEF ListGroup, At
<1>3. Shape(f) /\ Fits(f, High) /\ f.to = Top.to /\ f.at = "list"
  <2>1. Top \in Frames /\ Top.to \in Tpls /\ Top.ev \in NotifySignal
    BY <1>2, TopFacts DEF Inv, Shape
  <2>2. f.at = "list" /\ f.to = Top.to /\ f.ev = Top.ev /\ f.n = n /\ f \in Frames
    <3>1. "list" \in Labels /\ n \in Int
      BY DEF Labels
    <3>2. PICK top \in Frames : top = Top
      BY <2>1
    <3>3. ASSUME NEW g, g = [top EXCEPT !.at = "list", !.n = n]
          PROVE  g.at = "list" /\ g.to = top.to /\ g.ev = top.ev /\ g.n = n /\ g \in Frames
      <4>1. g \in Frames
        BY <3>1, <3>3 DEF Frames
      <4>2. g.at = "list" /\ g.n = n
        BY <3>1, <3>3 DEF Frames
      <4>3. g.to = top.to /\ g.ev = top.ev
        BY <3>1, <3>3 DEF Frames
      <4> QED BY <4>1, <4>2, <4>3
    <3> QED BY <3>2, <3>3
  <2> HIDE DEF f
  <2> QED BY <2>1, <2>2 DEF Shape, Fits
<1> HIDE DEF f
<1>4. StackOK(stack', High)
  BY <1>1, <1>2, <1>3, TopFacts, Replace DEF Inv, f
<1>5. CpuOK'
  BY <1>2, <1>4 DEF CpuOK
<1> QED BY <1>5, SameData DEF Inv, ListGroup

LEMMA ListNotifiesInv ==
  ASSUME Inv, ListNotifies
  PROVE  Inv'
<1> DEFINE f == [Top EXCEPT !.n = @ + 1]
<1>1. Top.at = "list" /\ Top.n \in 1..Len(signalQueue) /\ stack' = Append(Below, f)
      /\ UNCHANGED cpu
  BY TopFacts, LenProperties DEF ListNotifies, At, Inv, Shape, DataOK
<1>2. Shape(f) /\ Fits(f, tpl) /\ f.to = Top.to /\ f.at = "list"
  BY <1>1, TopFacts DEF Inv, Shape, Fits, Frames, Labels
<1> HIDE DEF f
<1>3. StackOK(stack', tpl)
  BY <1>1, <1>2, TopFacts, Replace DEF Inv
<1>4. CpuOK'
  BY <1>1, <1>3 DEF CpuOK, cpu, Inv
<1>5. signalQueue[Top.n] \in All
  <2>1. signalQueue[Top.n] \in NotifySignal
    BY <1>1, ElementOfSeq DEF Inv, DataOK
  <2> QED BY <2>1, EventAssumption DEF All
<1>6. pending' \subseteq Levels /\ QueuesOK'
  <2>1. PICK e \in All : e = signalQueue[Top.n]
    BY <1>5
  <2>2. CASE CoreNotifyEvent(e)
    BY <2>2, NotifyData DEF Inv
  <2>3. CASE UNCHANGED <<pending, queue>>
    BY <2>3 DEF Inv, DataOK, QueuesOK, TplOf
  <2> QED BY <2>1, <2>2, <2>3 DEF ListNotifies
<1> QED BY <1>4, <1>6 DEF Inv, DataOK, ListNotifies, timing

LEMMA ListEndsInv ==
  ASSUME Inv, ListEnds
  PROVE  Inv'
<1> DEFINE f == [Top EXCEPT !.at = "relock"]
<1>1. Top.at = "list" /\ Release(Append(Below, f), Top.to)
  BY DEF ListEnds, At
<1>2. Shape(f) /\ Fits(f, Top.to) /\ f.to = Top.to /\ f.at = "relock"
  BY <1>1, TopFacts DEF Inv, Shape, Fits, Frames, Labels
<1> HIDE DEF f
<1>3. StackOK(Append(Below, f), Top.to)
  BY <1>1, <1>2, TopFacts, Replace DEF Inv
<1>4. CpuOK'
  BY <1>1, <1>3, TopFacts, Releases DEF Inv
<1> QED BY <1>4, SameData DEF Inv, ListEnds

LEMMA RelockInv ==
  ASSUME Inv, Relock
  PROVE  Inv'
<1>1. Top.at = "relock" /\ Release(Below, Top.to)
  BY DEF Relock, At
<1>2. StackOK(Below, Top.to)
  BY <1>1, TopFacts, Pop DEF Inv
<1>3. CpuOK'
  BY <1>1, <1>2, TopFacts, Releases DEF Inv
<1> QED BY <1>3, SameData DEF Inv, Relock

\* CoreRestoreTpl dispatches the highest pending level, which is above the TPL that
\* it restores.
LEMMA HighestPending ==
  ASSUME DataOK, pending # {}
  PROVE  Highest \in pending /\ \A q \in pending : q <= Highest
<1>1. pending \subseteq {8, 16, 30}
  BY DEF DataOK
<1>2. \E p \in pending : \A q \in pending : q <= p
  <2>1. CASE 30 \in pending
    BY <1>1, <2>1
  <2>2. CASE 30 \notin pending /\ 16 \in pending
    BY <1>1, <2>2
  <2>3. CASE 30 \notin pending /\ 16 \notin pending
    <3>1. 8 \in pending /\ \A q \in pending : q = 8
      BY <1>1, <2>3
    <3> QED BY <3>1
  <2> QED BY <2>1, <2>2, <2>3
<1> QED BY <1>2 DEF Highest

LEMMA RestoreDispatchesInv ==
  ASSUME Inv, RestoreDispatches
  PROVE  Inv'
<1>1. Top.at = "restore" /\ Top.to \in Tpls
  BY TopFacts DEF RestoreDispatches, At, Inv
<1>2. Highest \in Levels /\ Top.to < Highest
  <2>1. PICK q \in pending : q > Top.to
    BY DEF RestoreDispatches, Unmasked
  <2>2. Highest \in pending /\ q <= Highest
    BY <2>1, HighestPending DEF Inv
  <2>3. q \in Levels /\ Highest \in Levels
    BY <2>2 DEF Inv, DataOK
  <2> QED BY <2>1, <2>2, <2>3, <1>1
<1>3. PICK l \in Levels : l = Highest
  BY <1>2
<1> DEFINE g == Frame("dispatch", l, App, 0)
<1>4. g.at = "dispatch" /\ g.to = l /\ Shape(g)
  BY DEF Shape, Frame, Frames, Labels, Code
<1>5. stack' = Append(stack, g) /\ tpl' = l /\ interrupts' = TRUE
  BY <1>3 DEF RestoreDispatches
<1> HIDE DEF g
<1>6. Fits(Top, l)
  BY <1>1, <1>2, <1>3 DEF Fits
<1>7. StackOK(stack', g.to)
  BY <1>1, <1>2, <1>3, <1>4, <1>5, <1>6, TopFacts, PushDispatch DEF Inv
<1>8. CpuOK'
  BY <1>4, <1>5, <1>7 DEF CpuOK
<1> QED BY <1>8, SameData DEF Inv, RestoreDispatches

LEMMA RestoreEndsInv ==
  ASSUME Inv, RestoreEnds
  PROVE  Inv'
<1>1. Top.at = "restore" /\ Top.to \in Tpls
  BY TopFacts DEF RestoreEnds, At, Inv
<1>2. CASE interrupts
  <2> DEFINE f == [Top EXCEPT !.at = "lower"]
  <2>1. stack' = Append(Below, f) /\ UNCHANGED cpu /\ tpl # High
    BY <1>2 DEF RestoreEnds, Inv, CpuOK
  <2>2. Shape(f) /\ Fits(f, tpl) /\ f.to = Top.to /\ f.at = "lower"
    BY <1>1, <2>1, TopFacts DEF Inv, Shape, Fits, Frames, Labels
  <2> HIDE DEF f
  <2>3. StackOK(stack', tpl)
    BY <1>1, <2>1, <2>2, TopFacts, Replace DEF Inv
  <2>4. CpuOK'
    BY <2>1, <2>3 DEF CpuOK, cpu, Inv
  <2> QED BY <2>4, SameData DEF Inv, RestoreEnds
<1>3. CASE ~interrupts
  <2>1. stack' = Below /\ tpl' = Top.to /\ interrupts' = TRUE
    BY <1>3 DEF RestoreEnds
  <2>2. StackOK(stack', Top.to)
    BY <1>1, <2>1, TopFacts, Pop DEF Inv
  <2>3. CpuOK'
    BY <1>1, <2>1, <2>2 DEF CpuOK
  <2> QED BY <2>3, SameData DEF Inv, RestoreEnds
<1> QED BY <1>2, <1>3

LEMMA RestoreLowersInv ==
  ASSUME Inv, RestoreLowers
  PROVE  Inv'
<1>1. Top.at = "lower" /\ Top.to \in Tpls /\ stack' = Below /\ tpl' = Top.to
      /\ interrupts' = interrupts
  BY TopFacts DEF RestoreLowers, At, Inv
<1>2. interrupts = TRUE
  <2>1. tpl # High
    BY <1>1, TopFacts DEF Inv, Fits
  <2> QED BY <2>1 DEF Inv, CpuOK
<1>3. StackOK(stack', Top.to)
  BY <1>1, TopFacts, Pop DEF Inv
<1>4. CpuOK'
  BY <1>1, <1>2, <1>3 DEF CpuOK
<1> QED BY <1>4, SameData DEF Inv, RestoreLowers

LEMMA DispatchTakesInv ==
  ASSUME Inv, DispatchTakes
  PROVE  Inv'
<1>1. Top.at = "dispatch" /\ Top.to \in Levels /\ tpl = Top.to
  BY TopFacts DEF DispatchTakes, At, Inv, Shape, Fits
<1>2. PICK l \in Levels : l = Top.to
  BY <1>1
<1>3. queue[l] \in Seq(All) /\ queue[l] # <<>>
      /\ \A p \in 1..Len(queue[l]) : TplOf(queue[l][p]) = l
  BY <1>1, <1>2 DEF DispatchTakes, Inv, DataOK, QueuesOK
<1>4. PICK e \in All : e = Head(queue[l]) /\ TplOf(e) = l
  <2>1. 1 \in 1..Len(queue[l]) /\ Head(queue[l]) = queue[l][1] /\ Head(queue[l]) \in All
    BY <1>3, HeadTailProperties, EmptySeq
  <2> QED BY <2>1, <1>3
<1> DEFINE g == Frame("notify", l, e, 0)
<1>5. g.at = "notify" /\ g.to = l /\ Shape(g) /\ Fits(g, l)
  BY <1>4 DEF Shape, Frame, Frames, Labels, Code, Fits
<1>6. Release(Append(Below, g), l)
  BY <1>1, <1>2, <1>4 DEF DispatchTakes
<1> HIDE DEF g
<1>7. StackOK(Append(Below, g), l)
  BY <1>1, <1>2, <1>5, TopFacts, Replace DEF Inv
<1>8. CpuOK'
  BY <1>6, <1>7, Releases
<1>9. QueuesOK'
  <2> DEFINE t == Tail(queue[l])
  <2>1. t \in Seq(All) /\ Len(t) = Len(queue[l]) - 1 /\ Len(queue[l]) \in Nat
        /\ \A p \in 1..Len(t) : t[p] = queue[l][p + 1]
    BY <1>3, HeadTailProperties, LenProperties
  <2>2. queue' = [queue EXCEPT ![l] = t]
    BY <1>2 DEF DispatchTakes
  <2> HIDE DEF t
  <2>3. queue' \in [Levels -> Seq(All)] /\ queue'[l] = t
        /\ \A m \in Levels : m # l => queue'[m] = queue[m]
    BY <2>1, <2>2 DEF Inv, DataOK, QueuesOK
  <2>4. ASSUME NEW m \in Levels, NEW p \in 1..Len(queue'[m])
        PROVE  TplOf(queue'[m][p]) = m
    <3>1. CASE m = l
      <4>1. p + 1 \in 1..Len(queue[l]) /\ queue'[m][p] = queue[l][p + 1]
        BY <3>1, <2>1, <2>3, <2>4
      <4> QED BY <4>1, <1>3, <3>1
    <3>2. CASE m # l
      BY <3>2, <2>3, <2>4 DEF Inv, DataOK, QueuesOK
    <3> QED BY <3>1, <3>2
  <2>5. \A e1 : TplOf(e1)' = TplOf(e1)
    BY DEF TplOf
  <2> QED BY <2>3, <2>4, <2>5 DEF QueuesOK
<1>10. signalCount' \in [All -> 0..1]
  <2>1. CASE signalCount' = signalCount
    BY <2>1 DEF Inv, DataOK
  <2>2. CASE signalCount' = [signalCount EXCEPT ![e] = 0]
    BY <2>2 DEF Inv, DataOK
  <2> QED BY <2>1, <2>2, <1>2, <1>4 DEF DispatchTakes
<1> QED BY <1>8, <1>9, <1>10 DEF Inv, DataOK, DispatchTakes, timing

LEMMA DispatchEndsInv ==
  ASSUME Inv, DispatchEnds
  PROVE  Inv'
<1>1. Top.at = "dispatch" /\ tpl = Top.to /\ Top.to \in Tpls /\ Release(Below, tpl)
  BY TopFacts DEF DispatchEnds, At, Inv, Fits
<1>2. StackOK(Below, Top.to)
  BY <1>1, TopFacts, Pop DEF Inv
<1>3. CpuOK'
  BY <1>1, <1>2, Releases
<1>4. QueuesOK'
  BY SameQueues DEF Inv, DataOK, DispatchEnds
<1>5. pending' \subseteq Levels
  BY DEF Inv, DataOK, DispatchEnds
<1> QED BY <1>3, <1>4, <1>5 DEF Inv, DataOK, DispatchEnds, timing

LEMMA CallNotifyInv ==
  ASSUME Inv, CallNotify
  PROVE  Inv'
<1>1. /\ Top.at = "notify" /\ tpl = Top.to /\ Top.to \in Levels
      /\ Top.ev \in All /\ Top.to = TplOf(Top.ev)
  BY TopFacts DEF CallNotify, At, Inv, Shape, Fits
<1>2. PICK l \in Levels, e \in All : l = Top.to /\ e = Top.ev /\ l = TplOf(e)
  BY <1>1
<1> DEFINE g == Frame("dispatch", l, App, 0)
           base == Append(Below, g)
           h == IF e = CheckTimers THEN Frame("expire", l, App, 0)
                                   ELSE Frame("code", l, e, MaxOps)
<1>3. stack' = Append(base, h) /\ UNCHANGED cpu
  BY <1>2 DEF CallNotify
<1>4. g.at = "dispatch" /\ g.to = l /\ Shape(g) /\ Fits(g, l)
  BY DEF Shape, Frame, Frames, Labels, Code, Fits
<1> HIDE DEF g
<1>5. StackOK(base, l)
  BY <1>1, <1>2, <1>4, TopFacts, Replace DEF Inv
<1>6. Last(base) = g
  BY <1>4, TopFacts, FrontLast, Appended DEF Inv, Body, Shape
<1>7. StackOK(Append(base, h), l)
  <2>1. CASE e = CheckTimers
    <3>1. h.at = "expire" /\ h.to = l /\ Shape(h) /\ l = TimerLevel /\ h.at \in TimerLabels
      BY <2>1, <1>2, EventAssumption DEF Shape, Frame, Frames, Labels, Code, TplOf
    <3> HIDE DEF h
    <3>2. \A i \in 1..Len(base) : base[i].at \notin TimerLabels
      <4> SUFFICES ASSUME NEW i \in 1..Len(base), base[i].at \in TimerLabels
                   PROVE  FALSE
        OBVIOUS
      <4>1. Len(base) \in Nat \ {0} /\ Body(base) /\ base[Len(base)] = g
        BY <1>5, <1>6, FrontLast DEF StackOK, Body, Last
      <4>2. i # Len(base)
        BY <4>1, <1>4
      <4>3. Over(base[i], g)
        BY <4>1, <4>2 DEF Body
      <4>4. Floor(base[i]) < g.to /\ Floor(base[i]) = 30 /\ g.to = 30
        BY <4>3, <1>4, <3>1 DEF Over, Floor
      <4> QED BY <4>4
    <3> QED BY <1>5, <3>1, <3>2, PushTimer DEF StackOK
  <2>2. CASE e # CheckTimers
    <3>1. e \in Events /\ l = NotifyTpl[e] /\ l <= Notify
      BY <2>2, <1>2, EventAssumption DEF All, TplOf
    <3>2. h.at = "code" /\ h.to = l /\ Shape(h) /\ Fits(h, l)
      BY <2>2, <3>1, EventAssumption DEF Shape, Frame, Frames, Labels, Code, All, Fits
    <3> HIDE DEF h
    <3> QED BY <1>5, <3>2, Push DEF StackOK
  <2> QED BY <2>1, <2>2
<1>8. CpuOK'
  BY <1>1, <1>2, <1>3, <1>7 DEF CpuOK, cpu, Inv
<1> QED BY <1>8, SameData DEF Inv, CallNotify

LEMMA ExpireTakesInv ==
  ASSUME Inv, ExpireTakes
  PROVE  Inv'
<1>1. Top.at = "expire" /\ Top \in Frames /\ Top.to = TimerLevel
  BY TopFacts DEF ExpireTakes, At, Inv, Shape
<1>2. timers \in Seq(Timers) /\ timers # <<>>
  BY DEF ExpireTakes, HeadExpired, Inv, DataOK
<1>3. PICK e \in Timers : e = Head(timers)
  BY <1>2, HeadTailProperties
<1>4. timers' \in Seq(Timers)
  BY <1>2, HeadTailProperties DEF ExpireTakes
<1> DEFINE f == [Top EXCEPT !.at = "signal", !.ev = e]
<1>5. stack' = Append(Below, f) /\ UNCHANGED cpu
  BY <1>3 DEF ExpireTakes
<1>6. "signal" \in Labels /\ e \in Code
  BY EventAssumption DEF Labels, Code, All
<1>7. f \in Frames
  BY <1>1, <1>6 DEF Frames
<1>8. f.at = "signal" /\ f.ev = e
  BY <1>1 DEF Frames
<1>9. f.to = Top.to
  BY <1>1 DEF Frames
<1> HIDE DEF f
<1>10. Shape(f)
  BY <1>1, <1>7, <1>8, <1>9 DEF Shape
<1>11. Fits(f, tpl)
  BY <1>1, <1>8, <1>9, TopFacts DEF Fits, Inv
<1>12. StackOK(stack', tpl)
  BY <1>1, <1>5, <1>8, <1>9, <1>10, <1>11, TopFacts, Replace DEF Inv
<1>13. CpuOK'
  BY <1>5, <1>12 DEF CpuOK, cpu, Inv
<1> QED BY <1>4, <1>13, SameQueues DEF Inv, DataOK, ExpireTakes, database

LEMMA ExpireEndsInv ==
  ASSUME Inv, ExpireEnds
  PROVE  Inv'
<1>1. Top.at = "expire" /\ Top.to = TimerLevel /\ tpl = TimerLevel
      /\ stack' = Below /\ UNCHANGED cpu
  BY TopFacts DEF ExpireEnds, At, Inv, Shape, Fits
<1>2. StackOK(stack', tpl)
  BY <1>1, TopFacts, Pop DEF Inv
<1>3. CpuOK'
  BY <1>1, <1>2 DEF CpuOK, cpu, Inv
<1> QED BY <1>3, SameData DEF Inv, ExpireEnds

LEMMA ExpireSignalsInv ==
  ASSUME Inv, ExpireSignals
  PROVE  Inv'
<1> DEFINE f == [Top EXCEPT !.at = "rearm"]
           base == Append(Below, f)
<1>1. Top.at = "signal" /\ tpl = TimerLevel /\ Top.ev \in Timers
  BY TopFacts DEF ExpireSignals, At, Inv, Shape, Fits
<1>2. PICK e \in All : e = Top.ev
  BY <1>1, EventAssumption DEF All
<1>3. CoreSignalEvent(e, base, tpl) /\ SignalSection(e)
  BY <1>2 DEF ExpireSignals, CoreSignalEvent
<1>4. Shape(f) /\ Fits(f, tpl) /\ f.to = Top.to /\ f.at = "rearm"
  BY <1>1, TopFacts DEF Inv, Shape, Fits, Frames, Labels
<1> HIDE DEF f
<1>5. StackOK(base, tpl)
  BY <1>1, <1>4, TopFacts, Replace DEF Inv
<1> HIDE DEF base
<1>6. CpuOK'
  BY <1>1, <1>3, <1>5, SignalCpu
<1>7. pending' \subseteq Levels /\ QueuesOK' /\ signalCount' \in [All -> 0..1]
  BY <1>3, SignalData DEF Inv
<1> QED BY <1>6, <1>7 DEF Inv, DataOK, ExpireSignals, timing

LEMMA CheckAgain ==
  ASSUME Inv, SignalSection(CheckTimers) \/ UNCHANGED database
  PROVE  pending' \subseteq Levels /\ QueuesOK' /\ signalCount' \in [All -> 0..1]
<1>1. CASE SignalSection(CheckTimers)
  BY <1>1, SignalData DEF Inv, All
<1>2. CASE UNCHANGED database
  BY <1>2, SameQueues DEF Inv, DataOK, database
<1> QED BY <1>1, <1>2

LEMMA RearmInv ==
  ASSUME Inv, Rearm
  PROVE  Inv'
<1>1. Top.at = "rearm" /\ tpl = TimerLevel /\ Top.ev \in Timers /\ Top \in Frames
      /\ Top.to = TimerLevel /\ Top.n \in Int
  BY TopFacts DEF Rearm, At, Inv, Shape, Fits, Frames
<1>2. PICK e \in Timers : e = Top.ev
  BY <1>1
<1>3. PICK n \in Int : n = Top.n
  BY <1>1
<1>4. e \in Events /\ due[e] \in Int /\ period[e] \in Nat /\ due \in [Events -> Int]
      /\ timers \in Seq(Timers)
  BY EventAssumption DEF Inv, DataOK
<1>5. due' \in [Events -> Int] /\ timers' \in Seq(Timers)
      /\ (SignalSection(CheckTimers) \/ UNCHANGED database)
  <2>1. CASE period[e] # 0
    <3>1. /\ due' = [due EXCEPT ![e] = IF due[e] + period[e] + n <= 0
                                         THEN -n ELSE due[e] + period[e]]
          /\ CoreInsertEventTimer(e, due')
          /\ IF due[e] + period[e] + n <= 0
               THEN SignalSection(CheckTimers) ELSE UNCHANGED database
      BY <1>2, <1>3, <2>1 DEF Rearm
    <3>2. (IF due[e] + period[e] + n <= 0 THEN -n ELSE due[e] + period[e]) \in Int
      BY <1>3, <1>4
    <3>3. due' \in [Events -> Int]
      BY <1>4, <3>1, <3>2
    <3>4. PICK d \in [Events -> Int] : d = due'
      BY <3>3
    <3>5. timers' \in Seq(Timers)
      BY <1>4, <3>1, <3>4, InsertForm
    <3> QED BY <3>1, <3>3, <3>5
  <2>2. CASE period[e] = 0
    <3>1. due' = [due EXCEPT ![e] = 0] /\ UNCHANGED <<database, timers>>
      BY <1>2, <1>3, <2>2 DEF Rearm
    <3> QED BY <1>4, <3>1
  <2> QED BY <2>1, <2>2
<1> DEFINE f == [Top EXCEPT !.at = "expire", !.ev = App]
<1>6. stack' = Append(Below, f) /\ UNCHANGED cpu
  BY DEF Rearm
<1>7. "expire" \in Labels /\ App \in Code
  BY DEF Labels, Code
<1>8. f \in Frames
  BY <1>1, <1>7 DEF Frames
<1>9. f.at = "expire" /\ f.ev = App
  BY <1>1 DEF Frames
<1>10. f.to = Top.to
  BY <1>1 DEF Frames
<1> HIDE DEF f
<1>11. Shape(f)
  BY <1>1, <1>8, <1>9, <1>10 DEF Shape
<1>12. Fits(f, tpl)
  BY <1>1, <1>9, <1>10 DEF Fits
<1>13. StackOK(stack', tpl)
  BY <1>1, <1>6, <1>9, <1>10, <1>11, <1>12, TopFacts, Replace DEF Inv
<1>14. CpuOK'
  BY <1>6, <1>13 DEF CpuOK, cpu, Inv
<1>15. pending' \subseteq Levels /\ QueuesOK' /\ signalCount' \in [All -> 0..1]
  BY <1>5, CheckAgain
<1> QED BY <1>5, <1>14, <1>15 DEF Inv, DataOK, Rearm

\* A section under mEfiTimerLock ends: CoreReleaseLock restores the owner's TPL.
LEMMA TimerEnds ==
  ASSUME Inv, Top.at \in TimerSections, stack' = Append(Below, Restore(Top.to)),
         UNCHANGED cpu
  PROVE  CpuOK'
<1>1. tpl = TimerLevel /\ Top.to \in Tpls /\ Top.to <= tpl
  BY TopFacts DEF Inv, Fits
<1>2. PICK l \in Tpls : l = Top.to
  BY <1>1
<1> DEFINE g == Restore(l)
<1>3. g.at = "restore" /\ g.to = l /\ Shape(g)
  BY DEF Shape, Restore, Frame, Frames, Labels, Code
<1>4. stack' = Append(Below, g)
  BY <1>2
<1> HIDE DEF g
<1>5. Fits(g, tpl)
  BY <1>1, <1>2, <1>3, TopFacts DEF Fits, Inv
<1>6. StackOK(stack', tpl)
  BY <1>2, <1>3, <1>4, <1>5, TopFacts, Replace DEF Inv
<1> QED BY <1>6 DEF CpuOK, cpu, Inv

LEMMA CancelTimerInv ==
  ASSUME Inv, CancelTimer
  PROVE  Inv'
<1>1. CpuOK'
  BY TimerEnds DEF CancelTimer, At
<1>2. timers' \in Seq(Timers)
  BY WithoutElements DEF CancelTimer, Inv, DataOK
<1>3. due' \in [Events -> Int] /\ period' \in [Events -> Nat]
  <2>0. PICK e : e = Top.ev
    OBVIOUS
  <2>1. PICK zero \in Nat : zero = 0
    OBVIOUS
  <2>2. due' = [due EXCEPT ![e] = zero] /\ period' = [period EXCEPT ![e] = zero]
    BY <2>0, <2>1 DEF CancelTimer
  <2>3. due \in [Events -> Int] /\ period \in [Events -> Nat] /\ zero \in Int
    BY DEF Inv, DataOK
  <2>4. due' \in [Events -> Int]
    BY <2>2, <2>3
  <2>5. period' \in [Events -> Nat]
    BY <2>2, <2>3
  <2> QED BY <2>4, <2>5
<1>4. QueuesOK'
  BY SameQueues DEF Inv, DataOK, CancelTimer, database
<1> QED BY <1>1, <1>2, <1>3, <1>4 DEF Inv, DataOK, CancelTimer, database

LEMMA SetTimerInv ==
  ASSUME Inv, SetTimer
  PROVE  Inv'
<1>1. Top.at \in {"TimerPeriodic", "TimerRelative"} /\ Top \in Frames /\ Top.n \in Nat
      /\ Top.ev \in Timers
  BY TopFacts DEF SetTimer, Inv, Shape
<1>2. PICK periodic \in BOOLEAN : periodic <=> At("TimerPeriodic")
  OBVIOUS
<1>3. PICK delay \in Nat : delay = IF periodic /\ Top.n = 0 THEN 1 ELSE Top.n
  BY <1>1
<1> DEFINE f == [Top EXCEPT !.at = "insert", !.n = delay]
<1>4. /\ timers' = Without(timers, Top.ev)
      /\ due' = [due EXCEPT ![Top.ev] = delay]
      /\ period' = [period EXCEPT ![Top.ev] = IF periodic THEN delay ELSE 0]
      /\ stack' = Append(Below, f)
      /\ UNCHANGED <<cpu, database, signalQueue, status>>
  BY Zenon, <1>2, <1>3 DEF SetTimer
<1>5. "insert" \in Labels /\ delay \in Int
  BY DEF Labels
<1>6. f \in Frames
  BY <1>1, <1>5 DEF Frames
<1>7. f.at = "insert" /\ f.n = delay
  BY <1>1 DEF Frames
<1>8. f.to = Top.to /\ f.ev = Top.ev
  BY <1>1 DEF Frames
<1> HIDE DEF f
<1>9. Shape(f)
  BY <1>1, <1>6, <1>7, <1>8 DEF Shape
<1>10. Fits(f, tpl)
  BY <1>1, <1>7, <1>8, TopFacts DEF Fits, Inv
<1>11. StackOK(stack', tpl)
  BY <1>1, <1>4, <1>7, <1>8, <1>9, <1>10, TopFacts, Replace DEF Inv
<1>12. CpuOK'
  BY <1>4, <1>11 DEF CpuOK, cpu, Inv
<1>13. timers' \in Seq(Timers)
  BY <1>4, WithoutElements DEF Inv, DataOK
<1>14. due' \in [Events -> Int]
  <2>1. PICK e : e = Top.ev
    OBVIOUS
  <2>2. due' = [due EXCEPT ![e] = delay] /\ delay \in Int
    BY <1>4, <2>1
  <2>3. due \in [Events -> Int]
    BY DEF Inv, DataOK
  <2> QED BY <2>2, <2>3
<1>15. period' \in [Events -> Nat]
  <2>1. (IF periodic THEN delay ELSE 0) \in Nat
    OBVIOUS
  <2> QED BY <1>4, <2>1 DEF Inv, DataOK
<1>16. QueuesOK'
  BY <1>4, SameQueues DEF Inv, DataOK, database
<1> QED BY <1>4, <1>12, <1>13, <1>14, <1>15, <1>16 DEF Inv, DataOK, database

LEMMA InsertTimerInv ==
  ASSUME Inv, InsertTimer
  PROVE  Inv'
<1>1. CpuOK'
  BY TimerEnds DEF InsertTimer, At
<1>2. PICK e \in Timers : e = Top.ev
  BY TopFacts DEF InsertTimer, At, Inv, Shape
<1>3. PICK d \in [Events -> Int] : d = due
  BY DEF Inv, DataOK
<1>4. timers' \in Seq(Timers)
  BY <1>2, <1>3, InsertForm DEF InsertTimer, Inv, DataOK
<1>5. pending' \subseteq Levels /\ QueuesOK' /\ signalCount' \in [All -> 0..1]
  BY CheckAgain DEF InsertTimer
<1> QED BY <1>1, <1>4, <1>5 DEF Inv, DataOK, InsertTimer

LEMMA UnlinkInv ==
  ASSUME Inv, Unlink
  PROVE  Inv'
<1> DEFINE f == [Top EXCEPT !.at = "free"]
<1>1. Top.at = "unlink" /\ Top.ev \in Events /\ tpl = Top.to /\ Top.to \in Tpls
  BY TopFacts DEF Unlink, At, Inv, Shape, Fits
<1>2. Shape(f) /\ Fits(f, Top.to) /\ f.to = Top.to /\ f.at = "free"
  BY <1>1, TopFacts DEF Inv, Shape, Fits, Frames, Labels
<1>3. Release(Append(Below, f), Top.to)
  BY DEF Unlink
<1> HIDE DEF f
<1>4. StackOK(Append(Below, f), Top.to)
  BY <1>1, <1>2, TopFacts, Replace DEF Inv
<1>5. CpuOK'
  BY <1>1, <1>3, <1>4, Releases
<1>6. signalQueue' \in Seq(NotifySignal)
  BY WithoutElements DEF Unlink, Inv, DataOK
<1>7. QueuesOK'
  <2>1. PICK e \in All : e = Top.ev
    BY <1>1 DEF All
  <2>2. PICK l \in Levels : l = TplOf(e)
    BY EventAssumption DEF TplOf, All
  <2> DEFINE t == Without(queue[l], e)
  <2>3. queue[l] \in Seq(All) /\ \A p \in 1..Len(queue[l]) : TplOf(queue[l][p]) = l
    BY DEF Inv, DataOK, QueuesOK
  <2>4. t \in Seq(All) /\ \A p \in 1..Len(t) : \E q \in 1..Len(queue[l]) : t[p] = queue[l][q]
    BY <2>3, WithoutElements
  <2>5. queue' = [queue EXCEPT ![l] = t]
    BY <2>1, <2>2 DEF Unlink
  <2> HIDE DEF t
  <2>6. queue' \in [Levels -> Seq(All)] /\ queue'[l] = t
        /\ \A m \in Levels : m # l => queue'[m] = queue[m]
    BY <2>4, <2>5 DEF Inv, DataOK, QueuesOK
  <2>7. \A p \in 1..Len(t) : TplOf(t[p]) = l
    BY <2>3, <2>4
  <2>8. ASSUME NEW m \in Levels, NEW p \in 1..Len(queue'[m])
        PROVE  TplOf(queue'[m][p]) = m
    <3>1. CASE m = l
      BY <3>1, <2>6, <2>7, <2>8
    <3>2. CASE m # l
      BY <3>2, <2>6, <2>8 DEF Inv, DataOK, QueuesOK
    <3> QED BY <3>1, <3>2
  <2>9. \A e1 : TplOf(e1)' = TplOf(e1)
    BY DEF TplOf
  <2> QED BY <2>6, <2>8, <2>9 DEF QueuesOK
<1> QED BY <1>5, <1>6, <1>7 DEF Inv, DataOK, Unlink, timing

LEMMA FreeInv ==
  ASSUME Inv, Free
  PROVE  Inv'
<1>1. Top.at = "free" /\ Top.ev \in Events /\ tpl = Top.to
      /\ stack' = Below /\ UNCHANGED cpu
  BY TopFacts DEF Free, At, Inv, Shape, Fits
<1>2. StackOK(stack', tpl)
  BY <1>1, TopFacts, Pop DEF Inv
<1>3. CpuOK'
  BY <1>1, <1>2 DEF CpuOK, cpu, Inv
<1>4. status' \in [All -> {"none", "live", "freed"}]
  <2>1. PICK e : e = Top.ev
    OBVIOUS
  <2>2. status' = [status EXCEPT ![e] = "freed"]
    BY <2>1 DEF Free
  <2>3. status \in [All -> {"none", "live", "freed"}]
    BY DEF Inv, DataOK
  <2> QED BY <2>2, <2>3
<1>5. signalCount' \in [All -> 0..1]
  <2>0. PICK zero \in 0..1 : zero = 0
    OBVIOUS
  <2>1. PICK e : e = Top.ev
    OBVIOUS
  <2>2. signalCount' = [signalCount EXCEPT ![e] = zero]
    BY <2>0, <2>1 DEF Free
  <2>3. signalCount \in [All -> 0..1]
    BY DEF Inv, DataOK
  <2> QED BY <2>2, <2>3
<1>6. QueuesOK'
  BY SameQueues DEF Inv, DataOK, Free
<1> QED BY <1>3, <1>4, <1>5, <1>6 DEF Inv, DataOK, Free, timing

LEMMA CountsOn ==
  ASSUME NEW s, NEW l, StackOK(s, l), NEW v \in Int,
         NEW t, t = [s EXCEPT ![Len(s)].n = v],
         Last(s).at \in {"code", "wait"}, Last(s).at = "wait" => v \in Nat \ {0}
  PROVE  StackOK(t, l)
<1>1. Body(s) /\ s \in Seq(Frames) /\ s # <<>> /\ Len(s) \in Nat \ {0}
  BY FrontLast DEF Body, StackOK
<1>2. PICK f : f = Last(s)
  OBVIOUS
<1>3. Shape(f) /\ f \in Frames
  BY <1>1, <1>2 DEF Body, Last, Shape
<1> DEFINE g == [f EXCEPT !.n = v]
<1>4. g \in Frames
  BY <1>3 DEF Frames
<1>5. g.at = f.at /\ g.to = f.to /\ g.ev = f.ev /\ g.n = v
  BY <1>3 DEF Frames
<1>6. t = [s EXCEPT ![Len(s)] = g]
  BY <1>2 DEF Last
<1> HIDE DEF g
<1>7. Shape(g)
  BY <1>2, <1>3, <1>4, <1>5 DEF Shape
<1>8. t \in Seq(Frames) /\ Len(t) = Len(s) /\ t[Len(s)] = g
      /\ \A i \in 1..Len(s) : i # Len(s) => t[i] = s[i]
  BY <1>1, <1>4, <1>6, ExceptSeq
<1>9. \A i \in 1..Len(s) : Shape(s[i])
  BY <1>1 DEF Body
<1>10. ASSUME NEW i \in 1..Len(s)
       PROVE  /\ t[i].at = s[i].at /\ t[i].to = s[i].to
              /\ t[i].ev = s[i].ev /\ Shape(t[i])
  <2>1. CASE i = Len(s)
    BY <2>1, <1>2, <1>5, <1>7, <1>8 DEF Last
  <2>2. CASE i # Len(s)
    BY <2>2, <1>8, <1>9
  <2> QED BY <2>1, <2>2
<1> HIDE DEF g
<1> QED BY <1>8, <1>10, SameFrames

LEMMA AnswerOK ==
  ASSUME NEW base, NEW l, StackOK(base, l), NEW ready \in BOOLEAN
  PROVE  StackOK(Answer(ready, base), l)
<1>1. Body(base) /\ Fits(Last(base), l) /\ Len(base) \in Nat \ {0}
      /\ Last(base) = base[Len(base)]
  BY FrontLast DEF StackOK, Body, Last
<1>2. CASE base[Len(base)].at # "wait"
  BY <1>2 DEF Answer
<1>3. CASE base[Len(base)].at = "wait" /\ ready
  <2>1. Answer(ready, base) = Front(base)
    BY <1>3 DEF Answer, Front
  <2>2. l = Last(base).to
    BY <1>1, <1>3 DEF Fits
  <2> QED BY <2>1, <2>2, <1>1, <1>3, Pop
<1>4. CASE base[Len(base)].at = "wait" /\ ~ready
  <2>1. PICK v : v = base[Len(base)].n + 1
    OBVIOUS
  <2>2. base[Len(base)].n \in Nat \ {0}
    BY <1>1, <1>4 DEF Body, Shape
  <2>3. v \in Int /\ v \in Nat \ {0}
    BY <2>1, <2>2
  <2>4. Answer(ready, base) = [base EXCEPT ![Len(base)].n = v]
    BY <1>4, <2>1 DEF Answer
  <2> QED BY <2>3, <2>4, <1>1, <1>4, CountsOn
<1> QED BY <1>2, <1>3, <1>4

LEMMA LookInv ==
  ASSUME Inv, Look
  PROVE  Inv'
<1>1. Top.at = "look" /\ Top.ev \in Events /\ tpl = Top.to /\ Top.to \in Tpls
  BY TopFacts DEF Look, At, Inv, Shape, Fits
<1>2. StackOK(Below, Top.to)
  BY <1>1, TopFacts, Pop DEF Inv
<1>3. QueuesOK'
  BY SameQueues DEF Inv, DataOK, Look
<1>4. CASE signalCount[Top.ev] = 0
  <2>1. stack' = Answer(FALSE, Below) /\ UNCHANGED <<cpu, signalCount>>
    BY <1>4 DEF Look
  <2>2. StackOK(stack', tpl)
    BY <1>1, <1>2, <2>1, AnswerOK
  <2>3. CpuOK'
    BY <2>1, <2>2 DEF CpuOK, cpu, Inv
  <2> QED BY <1>3, <2>1, <2>3 DEF Inv, DataOK, Look, timing
<1>5. CASE signalCount[Top.ev] # 0
  <2>1. Release(Answer(TRUE, Below), Top.to)
    BY <1>5 DEF Look
  <2>2. StackOK(Answer(TRUE, Below), Top.to)
    BY <1>2, AnswerOK
  <2>3. CpuOK'
    BY <1>1, <2>1, <2>2, Releases
  <2>4. signalCount' \in [All -> 0..1]
    <3>0. PICK zero \in 0..1 : zero = 0
      OBVIOUS
    <3>1. PICK e : e = Top.ev
      OBVIOUS
    <3>2. signalCount' = [signalCount EXCEPT ![e] = zero]
      BY <1>5, <3>0, <3>1 DEF Look
    <3>3. signalCount \in [All -> 0..1]
      BY DEF Inv, DataOK
    <3> QED BY <3>2, <3>3
  <2> QED BY <1>3, <2>3, <2>4 DEF Inv, DataOK, Look, timing
<1> QED BY <1>4, <1>5

\* CoreCheckEvent called by the code that runs on top of base.
LEMMA CheckInv ==
  ASSUME Inv, NEW e \in Events, NEW base, StackOK(base, tpl), tpl \in Tpls,
         CoreCheckEvent(e, base)
  PROVE  CpuOK' /\ pending' \subseteq Levels /\ QueuesOK'
<1> DEFINE g == Frame("look", tpl, e, 0)
           look == Append(base, g)
<1>1. e \in All
  BY DEF All
<1>2. g.at = "look" /\ g.to = tpl /\ Shape(g) /\ Fits(g, tpl)
  BY <1>1 DEF Shape, Frame, Frames, Labels, Code, Fits
<1> HIDE DEF g
<1>3. StackOK(look, tpl)
  BY <1>2, Push DEF StackOK
<1>4. CASE signalCount[e] = 0 /\ e \in NotifyWait
  <2>1. CoreNotifyEvent(e) /\ Release(look, tpl)
    BY <1>4 DEF CoreCheckEvent, g
  <2>2. CpuOK'
    BY <1>3, <2>1, Releases
  <2> QED BY <1>1, <2>1, <2>2, NotifyData DEF Inv
<1>5. CASE ~(signalCount[e] = 0 /\ e \in NotifyWait)
  <2>1. stack' = look /\ UNCHANGED <<cpu, pending, queue>>
    BY <1>5 DEF CoreCheckEvent, g
  <2>2. CpuOK'
    BY <1>3, <2>1 DEF CpuOK, cpu, Inv
  <2> QED BY <2>1, <2>2, SameQueues DEF Inv, DataOK
<1> QED BY <1>4, <1>5

LEMMA WaitChecksInv ==
  ASSUME Inv, WaitChecks
  PROVE  Inv'
<1>1. Top.at = "wait" /\ Top.n \in Nat \ {0} /\ tpl = Top.to /\ tpl = Application
      /\ Top.n <= Len(WaitList)
  BY TopFacts DEF WaitChecks, At, Inv, Shape, Fits
<1>2. WaitList[Top.n] \in Events
  <2>1. WaitList \in Seq(Events \ NotifySignal)
    BY EventAssumption
  <2>2. Top.n \in 1..Len(WaitList)
    BY <1>1, <2>1, LenProperties
  <2>3. WaitList[Top.n] \in Events \ NotifySignal
    BY <2>1, <2>2, ElementOfSeq
  <2> QED BY <2>3
<1>3. PICK e \in Events : e = WaitList[Top.n]
  BY <1>2
<1>4. StackOK(stack, tpl) /\ tpl \in Tpls /\ CoreCheckEvent(e, stack)
  BY <1>1, <1>3 DEF WaitChecks, Inv, CpuOK
<1>5. CpuOK' /\ pending' \subseteq Levels /\ QueuesOK'
  BY <1>4, CheckInv
<1> QED BY <1>5 DEF Inv, DataOK, WaitChecks, timing

LEMMA WaitIdlesInv ==
  ASSUME Inv, WaitIdles
  PROVE  Inv'
<1> DEFINE f == [Top EXCEPT !.n = 1]
           base == Append(Below, f)
<1>1. Top.at = "wait" /\ tpl = Application
  BY TopFacts DEF WaitIdles, At, Inv, Shape, Fits
<1>2. Idle \in All
  BY EventAssumption DEF All
<1>3. CoreSignalEvent(Idle, base, tpl) /\ SignalSection(Idle)
  BY DEF WaitIdles, CoreSignalEvent
<1>4. Shape(f) /\ Fits(f, tpl) /\ f.to = Top.to /\ f.at = "wait"
  <2>1. Top \in Frames /\ Top.to = Application /\ Shape(Top) /\ Fits(Top, tpl)
    BY <1>1, TopFacts DEF Inv, Fits
  <2>2. f \in Frames
    BY <2>1 DEF Frames
  <2>3. f.at = "wait" /\ f.to = Top.to /\ f.n = 1
    BY <1>1, <2>1 DEF Frames
  <2> HIDE DEF f
  <2>4. Shape(f)
    BY <2>1, <2>2, <2>3 DEF Shape
  <2>5. Fits(f, tpl)
    BY <1>1, <2>1, <2>3 DEF Fits
  <2> QED BY <2>3, <2>4, <2>5
<1> HIDE DEF f
<1>5. StackOK(base, tpl)
  BY <1>1, <1>4, TopFacts, Replace DEF Inv
<1> HIDE DEF base
<1>6. CpuOK'
  BY <1>1, <1>2, <1>3, <1>5, SignalCpu
<1>7. pending' \subseteq Levels /\ QueuesOK' /\ signalCount' \in [All -> 0..1]
  BY <1>2, <1>3, SignalData DEF Inv
<1> QED BY <1>6, <1>7 DEF Inv, DataOK, WaitIdles, timing

LEMMA EndOfInterruptInv ==
  ASSUME Inv, EndOfInterrupt
  PROVE  Inv'
<1>1. Top.at = "isr" /\ tpl = Top.to /\ stack' = Below /\ UNCHANGED cpu
  BY TopFacts DEF EndOfInterrupt, At, Inv, Fits
<1>2. StackOK(stack', tpl)
  BY <1>1, TopFacts, Pop DEF Inv
<1>3. CpuOK'
  BY <1>1, <1>2 DEF CpuOK, cpu, Inv
<1> QED BY <1>3, SameData DEF Inv, EndOfInterrupt

\* The code that makes a call: it holds no timer lock, below it neither.
LEMMA CallerOK ==
  ASSUME Inv, Running
  PROVE  /\ StackOK(Caller, tpl) /\ tpl \in {4, 8, 16} /\ interrupts = TRUE
         /\ Last(Caller).at = "code" /\ Last(Caller).to <= tpl
         /\ \A i \in 1..Len(Caller) : Caller[i].at \notin TimerLabels
<1>1. /\ Top.at = "code" /\ Body(stack) /\ Top = Last(stack) /\ Shape(Top) /\ Fits(Top, tpl)
      /\ StackOK(stack, tpl) /\ Top.n \in Int
  BY TopFacts DEF Running, At, Inv, CpuOK, Shape, Frames
<1>2. tpl \in {4, 8, 16} /\ interrupts = TRUE
  BY <1>1 DEF Fits, Inv, CpuOK
<1>3. StackOK(Caller, tpl)
  <2>1. CASE Top.ev = App
    BY <1>1, <2>1 DEF Caller
  <2>2. CASE Top.ev # App
    <3>1. PICK v \in Int : v = Top.n - 1
      BY <1>1
    <3>2. Caller = [stack EXCEPT ![Len(stack)].n = v]
      BY <2>2, <3>1 DEF Caller, Top
    <3> QED BY <1>1, <3>2, CountsOn
  <2> QED BY <2>1, <2>2
<1>4. Last(Caller).at = "code" /\ Last(Caller).to = Top.to
  <2>1. CASE Top.ev = App
    BY <1>1, <2>1 DEF Caller
  <2>2. CASE Top.ev # App
    <3>1. PICK v, n : v = Top.n - 1 /\ n = Len(stack)
      OBVIOUS
    <3>2. Caller = [stack EXCEPT ![n] = [Top EXCEPT !.n = v]]
      BY <2>2, <3>1 DEF Caller, Top
    <3>3. n \in 1..Len(stack) /\ stack \in Seq(Frames) /\ Top \in Frames
      BY <3>1, TopFacts DEF Inv
    <3> DEFINE f == [Top EXCEPT !.n = v]
    <3>4. f.at = Top.at /\ f.to = Top.to /\ f \in Frames
      BY <1>1, <3>1, <3>3 DEF Frames
    <3> HIDE DEF f
    <3>5. Caller[n] = f /\ Len(Caller) = n
      BY <3>1, <3>2, <3>3, <3>4, ExceptSeq DEF f
    <3> QED BY <1>1, <3>4, <3>5 DEF Last
  <2> QED BY <2>1, <2>2
<1>5. ASSUME NEW i \in 1..Len(Caller)
      PROVE  Caller[i].at \notin TimerLabels
  <2>1. Body(Caller) /\ Len(Caller) \in Nat \ {0} /\ Shape(Last(Caller))
    BY <1>3, FrontLast DEF StackOK, Body, Last
  <2>2. CASE i = Len(Caller)
    BY <1>4, <2>2 DEF Last
  <2>3. CASE i # Len(Caller)
    <3>1. Over(Caller[i], Last(Caller))
      BY <2>1, <2>3 DEF Body, Last
    <3>2. Floor(Caller[i]) <= Last(Caller).to
      BY <3>1 DEF Over
    <3>3. Last(Caller).to <= 16 /\ Last(Caller).to \in {4, 8, 16, 30}
      BY <1>1, <1>4 DEF Fits, Shape, Frames
    <3> QED BY <3>2, <3>3 DEF Floor
  <2> QED BY <2>2, <2>3
<1> QED BY <1>1, <1>2, <1>3, <1>4, <1>5 DEF Fits

LEMMA CallSignalInv ==
  ASSUME Inv, NEW e \in Events, CallSignal(e)
  PROVE  Inv'
<1>1. StackOK(Caller, tpl) /\ tpl \in Tpls
  BY CallerOK DEF CallSignal
<1>2. e \in All /\ CoreSignalEvent(e, Caller, tpl) /\ SignalSection(e)
  BY DEF CallSignal, All, CoreSignalEvent
<1>3. CpuOK'
  BY <1>1, <1>2, SignalCpu
<1>4. pending' \subseteq Levels /\ QueuesOK' /\ signalCount' \in [All -> 0..1]
  BY <1>2, SignalData DEF Inv
<1> QED BY <1>3, <1>4 DEF Inv, DataOK, CallSignal, timing

LEMMA CallCheckInv ==
  ASSUME Inv, NEW e \in Events, CallCheck(e)
  PROVE  Inv'
<1>1. StackOK(Caller, tpl) /\ tpl \in Tpls
  BY CallerOK DEF CallCheck
<1>2. CpuOK' /\ pending' \subseteq Levels /\ QueuesOK'
  BY <1>1, CheckInv DEF CallCheck
<1> QED BY <1>2 DEF Inv, DataOK, CallCheck, timing

LEMMA CallSetTimerInv ==
  ASSUME Inv, NEW a \in Arms, CallSetTimer(a[2], a[3], a[4])
  PROVE  Inv'
<1>1. a[2] \in Timers /\ a[3] \in TimerTypes /\ a[4] \in Nat
  BY EventAssumption
<1>2. PICK e \in Timers, type \in TimerTypes, delay \in Nat :
        e = a[2] /\ type = a[3] /\ delay = a[4]
  BY Zenon, <1>1
<1>3. Running /\ tpl' = TimerLevel /\ interrupts' = interrupts
      /\ stack' = Append(Caller, Frame(type, tpl, e, delay))
  BY <1>2 DEF CallSetTimer
<1> DEFINE g == Frame(type, tpl, e, delay)
<1>4. g.at = type /\ g.to = tpl /\ Shape(g)
  <2>1. tpl \in {4, 8, 16} /\ e \in Events /\ delay \in Int
    BY <1>3, CallerOK, EventAssumption
  <2>2. g \in Frames
    BY <2>1 DEF Frame, Frames, Labels, Code, All
  <2>3. g.at = type /\ g.to = tpl /\ g.ev = e /\ g.n = delay
    BY DEF Frame
  <2> HIDE DEF g
  <2> QED BY <2>2, <2>3 DEF Shape
<1> HIDE DEF g
<1>5. StackOK(Append(Caller, g), TimerLevel)
  BY <1>3, <1>4, CallerOK, PushTimer DEF StackOK
<1>6. CpuOK'
  BY <1>3, <1>5, CallerOK DEF CpuOK, g
<1> QED BY <1>6, SameData DEF Inv, CallSetTimer

LEMMA CallCloseInv ==
  ASSUME Inv, NEW e \in Events, CallClose(e)
  PROVE  Inv'
<1> DEFINE g == Frame("unlink", tpl, e, 0)
           unlink == Append(Caller, g)
           h == Frame("TimerCancel", tpl, e, 0)
<1>1. Running /\ interrupts' = interrupts /\ tpl \in {4, 8, 16}
  BY CallerOK DEF CallClose
<1>2. g.at = "unlink" /\ g.to = tpl /\ Shape(g) /\ Fits(g, tpl)
  BY <1>1 DEF Shape, Frame, Frames, Labels, Code, All, Fits
<1>3. e \in Timers => h.at = "TimerCancel" /\ h.to = tpl /\ Shape(h)
  BY <1>1 DEF Shape, Frame, Frames, Labels, Code, All
<1>4. IF e \in Timers THEN tpl' = TimerLevel /\ stack' = Append(unlink, h)
                      ELSE stack' = unlink /\ tpl' = tpl
  BY DEF CallClose
<1> HIDE DEF g, h
<1>5. StackOK(unlink, tpl)
  BY <1>1, <1>2, CallerOK, Push DEF StackOK
<1>6. CASE e \notin Timers
  <2>1. stack' = unlink /\ tpl' = tpl /\ interrupts' = TRUE
    BY <1>1, <1>4, <1>6, CallerOK
  <2>2. tpl \in Tpls
    BY <1>1
  <2>3. CpuOK'
    BY <1>5, <2>1, <2>2, Enabled
  <2> QED BY <2>3, SameData DEF Inv, CallClose
<1>7. CASE e \in Timers
  <2>1. \A i \in 1..Len(unlink) : unlink[i].at \notin TimerLabels
    <3>1. Caller \in Seq(Frames) /\ g \in Frames
          /\ \A i \in 1..Len(Caller) : Caller[i].at \notin TimerLabels
      BY <1>1, <1>2, CallerOK DEF StackOK, Body, Shape
    <3>2. /\ Len(unlink) = Len(Caller) + 1 /\ Len(Caller) \in Nat
          /\ \A i \in 1..Len(Caller) : unlink[i] = Caller[i]
          /\ unlink[Len(Caller) + 1] = g
      BY <3>1, Appended, LenProperties
    <3> HIDE DEF unlink
    <3>3. \A i \in 1..Len(unlink) : i \in 1..Len(Caller) \/ i = Len(Caller) + 1
      BY <3>2
    <3> QED BY <3>1, <3>2, <3>3, <1>2
  <2>2. Body(unlink) /\ Fits(Last(unlink), h.to)
    BY <1>3, <1>5, <1>7 DEF StackOK
  <2> HIDE DEF unlink
  <2>3. StackOK(Append(unlink, h), TimerLevel)
    BY <1>3, <1>7, <2>1, <2>2, PushTimer
  <2>4. stack' = Append(unlink, h) /\ tpl' = TimerLevel /\ interrupts' = TRUE
    BY <1>1, <1>4, <1>7, CallerOK
  <2>5. TimerLevel \in Tpls
    OBVIOUS
  <2>6. CpuOK'
    BY <2>3, <2>4, <2>5, Enabled
  <2> QED BY <2>6, SameData DEF Inv, CallClose
<1> QED BY <1>6, <1>7

LEMMA CallCreateInv ==
  ASSUME Inv, NEW e \in Events, CallCreate(e)
  PROVE  Inv'
<1>1. StackOK(Caller, tpl) /\ tpl \in Tpls /\ Release(Caller, tpl)
  BY CallerOK DEF CallCreate
<1>2. CpuOK'
  BY <1>1, Releases
<1>3. status' \in [All -> {"none", "live", "freed"}]
  BY DEF CallCreate, Inv, DataOK
<1>4. signalCount' \in [All -> 0..1]
  <2>1. PICK zero \in 0..1 : zero = 0
    OBVIOUS
  <2>2. signalCount' = [signalCount EXCEPT ![e] = zero]
    BY <2>1 DEF CallCreate
  <2>3. signalCount \in [All -> 0..1]
    BY DEF Inv, DataOK
  <2> QED BY <2>2, <2>3
<1>5. signalQueue' \in Seq(NotifySignal)
  <2>1. signalQueue \in Seq(NotifySignal)
    BY DEF Inv, DataOK
  <2>2. CASE e \in NotifySignal
    <3>1. <<e>> \in Seq(NotifySignal) /\ signalQueue' = <<e>> \o signalQueue
      BY <2>2 DEF CallCreate
    <3> QED BY <2>1, <3>1, ConcatProperties
  <2>3. CASE e \notin NotifySignal
    BY <2>1, <2>3 DEF CallCreate
  <2> QED BY <2>2, <2>3
<1>6. QueuesOK'
  BY SameQueues DEF Inv, DataOK, CallCreate
<1> QED BY <1>2, <1>3, <1>4, <1>5, <1>6 DEF Inv, DataOK, CallCreate, timing

LEMMA CallWaitInv ==
  ASSUME Inv, CallWait
  PROVE  Inv'
<1> DEFINE g == Frame("wait", Application, App, 1)
<1>1. Running /\ tpl = Application /\ stack' = Append(Caller, g) /\ UNCHANGED cpu
  BY DEF CallWait
<1>2. g.at = "wait" /\ g.to = tpl
  BY <1>1 DEF Frame
<1>3. Shape(g) /\ Fits(g, tpl)
  BY <1>1 DEF Shape, Frame, Frames, Labels, Code, Fits
<1> HIDE DEF g
<1>4. StackOK(stack', tpl)
  BY <1>1, <1>2, <1>3, CallerOK, Push DEF StackOK
<1>5. CpuOK'
  BY <1>1, <1>4 DEF CpuOK, cpu, Inv
<1> QED BY <1>5, SameData DEF Inv, CallWait

LEMMA CallRaiseInv ==
  ASSUME Inv, NEW l \in {Callback, Notify}, CallRaise(l)
  PROVE  Inv'
<1>1. Running /\ tpl < l /\ tpl' = l /\ interrupts' = interrupts /\ stack' = Caller
  BY DEF CallRaise
<1>2. Body(Caller) /\ Last(Caller).at = "code" /\ Last(Caller).to <= tpl
      /\ Last(Caller).to \in {4, 8, 16, 30} /\ tpl \in {4, 8, 16} /\ interrupts = TRUE
  <2>1. StackOK(Caller, tpl)
    BY <1>1, CallerOK
  <2>2. Shape(Last(Caller))
    BY <2>1, FrontLast DEF StackOK, Body, Last
  <2> QED BY <1>1, <2>1, <2>2, CallerOK DEF StackOK, Shape, Frames
<1>3. Fits(Last(Caller), l)
  BY <1>1, <1>2 DEF Fits
<1>4. StackOK(stack', l)
  BY <1>1, <1>2, <1>3 DEF StackOK
<1>5. l \in Tpls /\ interrupts' = TRUE
  BY <1>1, <1>2
<1>6. CpuOK'
  BY <1>1, <1>4, <1>5, Enabled
<1> QED BY <1>6, SameData DEF Inv, CallRaise

LEMMA CallRestoreInv ==
  ASSUME Inv, CallRestore
  PROVE  Inv'
<1>1. Top.at = "code" /\ tpl > Top.to /\ Top.to \in Tpls /\ UNCHANGED cpu
  BY TopFacts DEF CallRestore, At, Inv
<1>2. PICK l \in Tpls : l = Top.to
  BY <1>1
<1> DEFINE g == Restore(l)
<1>3. g.at = "restore" /\ g.to = l /\ Shape(g)
  BY DEF Shape, Restore, Frame, Frames, Labels, Code
<1>4. stack' = Append(stack, g)
  BY <1>2 DEF CallRestore
<1> HIDE DEF g
<1>5. Fits(Top, l) /\ Fits(g, tpl)
  BY <1>1, <1>2, <1>3, TopFacts DEF Fits, Inv
<1>6. StackOK(stack', tpl)
  BY <1>3, <1>4, <1>5, TopFacts, Push DEF Inv
<1>7. CpuOK'
  BY <1>1, <1>6 DEF CpuOK, cpu, Inv
<1> QED BY <1>7, SameData DEF Inv, CallRestore

LEMMA ReturnInv ==
  ASSUME Inv, Return
  PROVE  Inv'
<1>1. Top.at = "code" /\ Top.ev # App /\ tpl = Top.to /\ stack' = Below /\ UNCHANGED cpu
  BY DEF Return, At
<1>2. StackOK(stack', tpl)
  BY <1>1, TopFacts, Pop DEF Inv
<1>3. CpuOK'
  BY <1>1, <1>2 DEF CpuOK, cpu, Inv
<1> QED BY <1>3, SameData DEF Inv, Return

\* The interrupt handler is pushed on whatever runs below TPL_HIGH_LEVEL.
LEMMA TickInv ==
  ASSUME Inv, NEW d \in Durations, Tick(d)
  PROVE  Inv'
<1> DEFINE n == Len(stack)
           aged == FramesAt(CheckSections)
           t == [i \in 1..n |-> IF i \in aged THEN [stack[i] EXCEPT !.n = @ + d]
                                ELSE stack[i]]
           isr == Frame("isr", tpl, App, 0)
           base == [i \in 1..n + 1 |->
                      IF i > n THEN isr
                      ELSE IF i \in aged THEN [stack[i] EXCEPT !.n = @ + d]
                      ELSE stack[i]]
<1>1. tpl \in Tpls /\ StackOK(stack, tpl) /\ Release(base, tpl) /\ d \in Nat
  BY EventAssumption DEF Tick, Inv, CpuOK
<1>2. n \in Nat \ {0} /\ \A i \in 1..n : Shape(stack[i]) /\ stack[i] \in Frames
  BY TopFacts DEF Inv, Body, Shape
<1>3. ASSUME NEW i \in 1..n
      PROVE  /\ t[i] \in Frames /\ Shape(t[i])
             /\ t[i].at = stack[i].at /\ t[i].to = stack[i].to /\ t[i].ev = stack[i].ev
  <2>1. CASE i \in aged
    <3>1. PICK f \in Frames : f = stack[i]
      BY <1>2
    <3>2. f.at \in CheckSections
      BY <2>1, <3>1 DEF FramesAt
    <3>3. PICK m \in Int : m = f.n + d
      BY <1>1 DEF Frames
    <3> DEFINE g == [f EXCEPT !.n = m]
    <3>4. t[i] = g
      BY <2>1, <3>1, <3>3
    <3>5. g \in Frames /\ g.at = f.at /\ g.to = f.to /\ g.ev = f.ev
      BY DEF Frames
    <3> HIDE DEF g, t
    <3>6. Shape(g)
      BY <1>2, <3>1, <3>2, <3>5 DEF Shape
    <3> QED BY <3>1, <3>4, <3>5, <3>6
  <2>2. CASE i \notin aged
    <3>1. t[i] = stack[i]
      BY <2>2
    <3> HIDE DEF t
    <3> QED BY <1>2, <3>1
  <2> QED BY <2>1, <2>2
<1>4. t \in Seq(Frames) /\ Len(t) = n
  <2>1. \A i \in 1..n : t[i] \in Frames
    BY <1>3
  <2>2. DOMAIN t = 1..n /\ t = [i \in 1..n |-> t[i]]
    OBVIOUS
  <2> HIDE DEF t
  <2>3. t \in [1..n -> Frames]
    BY <2>1, <2>2
  <2> QED BY <1>2, <2>2, <2>3, SeqDef, LenProperties
<1>5. base = Append(t, isr)
  BY <1>2, <1>4
<1>6. StackOK(t, tpl)
  <2> HIDE DEF t
  <2> QED BY <1>1, <1>3, <1>4, SameFrames
<1>7. isr.at = "isr" /\ isr.to = tpl /\ Shape(isr) /\ Fits(isr, tpl)
  BY <1>1 DEF Shape, Frame, Frames, Labels, Code, Fits
<1> HIDE DEF t, isr, base
<1>8. StackOK(base, tpl)
  BY <1>5, <1>6, <1>7, Push DEF StackOK
<1>9. CpuOK'
  BY <1>1, <1>8, Releases
<1>10. due' \in [Events -> Int]
  <2>1. due \in [Events -> Int]
    BY DEF Inv, DataOK
  <2>2. Oldest \in Int
    BY EventAssumption DEF Oldest
  <2>3. \A e \in Events : due[e] \in Int /\ After(d, e) \in Int
    BY <1>1, <2>1, <2>2 DEF After
  <2>4. due' = [e \in Events |-> IF e \in Armed THEN After(d, e) ELSE due[e]]
    BY DEF Tick
  <2> QED BY <2>3, <2>4
<1>11. pending' \subseteq Levels /\ QueuesOK' /\ signalCount' \in [All -> 0..1]
  BY CheckAgain DEF Tick
<1> QED BY <1>9, <1>10, <1>11 DEF Inv, DataOK, Tick

-----------------------------------------------------------------------------
LEMMA InitInv ==
  ASSUME Init
  PROVE  Inv
<1> DEFINE g == Frame("code", Application, App, 0)
<1>1. g.at = "code" /\ g.ev = App /\ g.to = Application /\ g \in Frames
  BY DEF Frame, Frames, Labels, Code
<1>2. stack = <<g>> /\ tpl = Application /\ interrupts = TRUE
  BY DEF Init
<1> HIDE DEF g
<1>3. Shape(g) /\ Fits(g, tpl)
  BY <1>1, <1>2 DEF Shape, Fits
<1>4. stack \in Seq(Frames) /\ stack # <<>> /\ Len(stack) = 1 /\ stack[1] = g
  BY <1>1, <1>2
<1>5. StackOK(stack, tpl)
  BY <1>1, <1>3, <1>4 DEF StackOK, Body, Last
<1>6. CpuOK
  BY <1>2, <1>5 DEF CpuOK
<1>7. QueuesOK
  <2>1. queue = [l \in Levels |-> <<>>]
    BY DEF Init
  <2>2. \A l \in Levels : queue[l] = <<>> /\ Len(queue[l]) = 0
    BY <2>1
  <2>3. queue \in [Levels -> Seq(All)]
    BY <2>1
  <2> QED BY <2>2, <2>3 DEF QueuesOK
<1>8. signalQueue \in Seq(NotifySignal)
  <2>1. FirstQueue \in Seq(NotifySignal \ Later)
    BY EventAssumption
  <2>2. \A p \in 1..Len(FirstQueue) : FirstQueue[p] \in NotifySignal
    BY <2>1, ElementOfSeq
  <2>3. FirstQueue \in Seq(NotifySignal)
    BY <2>1, <2>2, SeqDef, LenProperties
  <2> QED BY <2>3 DEF Init
<1>9. signalCount \in [All -> 0..1] /\ status \in [All -> {"none", "live", "freed"}]
  BY DEF Init
<1>10. timers \in Seq(Timers) /\ due \in [Events -> Int] /\ period \in [Events -> Nat]
  BY DEF Init
<1>11. pending \subseteq Levels
  BY DEF Init
<1> QED BY <1>6, <1>7, <1>8, <1>9, <1>10, <1>11 DEF Inv, DataOK

LEMMA NextInv ==
  ASSUME Inv, Next
  PROVE  Inv'
<1>1. CASE Core
  BY <1>1, ListGroupInv, ListNotifiesInv, ListEndsInv, RelockInv, RestoreDispatchesInv,
     RestoreEndsInv, RestoreLowersInv, DispatchTakesInv, DispatchEndsInv, CallNotifyInv,
     ExpireTakesInv, ExpireEndsInv, ExpireSignalsInv, RearmInv, CancelTimerInv,
     SetTimerInv, InsertTimerInv, UnlinkInv, FreeInv, LookInv, WaitChecksInv,
     WaitIdlesInv, EndOfInterruptInv DEF Core
<1>2. CASE Calls
  BY <1>2, CallSignalInv, CallCloseInv, CallCheckInv, CallCreateInv, CallSetTimerInv,
     CallWaitInv, CallRaiseInv DEF Calls
<1>3. CASE CallRestore
  BY <1>3, CallRestoreInv
<1>4. CASE Return
  BY <1>4, ReturnInv
<1>5. CASE \E d \in Durations : Tick(d)
  BY <1>5, TickInv
<1> QED BY <1>1, <1>2, <1>3, <1>4, <1>5 DEF Next

LEMMA UnchangedInv ==
  ASSUME Inv, UNCHANGED vars
  PROVE  Inv'
<1>1. UNCHANGED <<database, signalQueue, status, timing>> /\ UNCHANGED cpu /\ stack' = stack
  BY DEF vars, database, timing, cpu
<1>2. CpuOK'
  BY <1>1 DEF Inv, CpuOK, cpu
<1> QED BY <1>1, <1>2, SameData DEF Inv

\* The inductive invariant holds: every frame of the stack fits the one above it and
\* the TPL, through every service, dispatch and interrupt of Event.c, Tpl.c, Timer.c.
THEOREM InvHolds == Spec => []Inv
<1>1. Inv /\ [Next]_vars => Inv'
  BY NextInv, UnchangedInv
<1> QED BY <1>1, InitInv, PTL DEF Spec

LEMMA InvType ==
  ASSUME Inv
  PROVE  TypeOK
<1>1. stack \in Seq(Frames)
  BY DEF Inv, CpuOK, StackOK, Body
<1>2. tpl \in {4, 8, 16, 30, 31} /\ interrupts \in BOOLEAN
  BY DEF Inv, CpuOK
<1> QED BY <1>1, <1>2 DEF TypeOK, Inv, DataOK, QueuesOK, Frames

LEMMA InvPriorities ==
  ASSUME Inv
  PROVE  PrioritiesHold
<1>1. /\ stack \in Seq(Frames) /\ DOMAIN stack = 1..Len(stack) /\ Len(stack) \in Nat
      /\ Body(stack)
  BY LenProperties DEF Inv, CpuOK, StackOK, Body
<1>2. NotifiesNest
  <2> SUFFICES ASSUME NEW p \in FramesAt({"dispatch", "notify"}),
                      NEW q \in FramesAt({"dispatch", "notify"}), p < q
               PROVE  stack[p].to < stack[q].to
    BY DEF NotifiesNest
  <2>1. p \in 1..Len(stack) /\ q \in 1..Len(stack)
        /\ stack[p].at \in {"dispatch", "notify"} /\ stack[q].at \in {"dispatch", "notify"}
    BY <1>1 DEF FramesAt
  <2>2. Over(stack[p], stack[q])
    BY <1>1, <2>1 DEF Body
  <2> QED BY <2>1, <2>2 DEF Over, Floor
<1>3. At("restore") => Top.to <= tpl
  BY TopFacts DEF Inv, Fits
<1>4. At("dispatch") => tpl = Top.to
  BY TopFacts DEF Inv, Fits, At
<1>5. Cardinality(FramesAt(TimerSections \cup CheckSections)) <= 1
  <2> DEFINE F == FramesAt(TimerSections \cup CheckSections)
  <2>1. ASSUME NEW p \in F, NEW q \in F
        PROVE  p = q
    <3>1. p \in 1..Len(stack) /\ q \in 1..Len(stack)
          /\ stack[p].at \in TimerLabels /\ stack[q].at \in TimerLabels
      BY <1>1 DEF FramesAt
    <3>2. CASE p < q
      BY <1>1, <3>1, <3>2 DEF Body, Over
    <3>3. CASE q < p
      BY <1>1, <3>1, <3>3 DEF Body, Over
    <3> QED BY <1>1, <3>1, <3>2, <3>3
  <2> HIDE DEF F
  <2>2. CASE F = {}
    BY <2>2, FS_EmptySet DEF F
  <2>3. CASE F # {}
    <3>1. PICK p \in F : F = {p}
      BY <2>1, <2>3
    <3>2. Cardinality(F) = 1
      BY <3>1, FS_Singleton
    <3> QED BY <3>2 DEF F
  <2> QED BY <2>2, <2>3
<1> QED BY <1>2, <1>3, <1>4, <1>5 DEF PrioritiesHold, AssertsHold

\* The state keeps its type, whatever events, groups, timers and calls there are.
THEOREM TypeCorrect == Spec => []TypeOK
<1>1. Inv => TypeOK
  BY InvType
<1> QED BY <1>1, InvHolds, PTL

\* Notification functions nest strictly by their levels, CoreRestoreTpl only lowers
\* the TPL, a level is dispatched at its own TPL, and mEfiTimerLock is never taken
\* twice (Tpl.c:104-105, Event.c:172, Library.c:71), however deep interrupts nest.
THEOREM PrioritiesCorrect == Spec => []PrioritiesHold
<1>1. Inv => PrioritiesHold
  BY InvPriorities
<1> QED BY <1>1, InvHolds, PTL

-----------------------------------------------------------------------------
(* No signal is lost.                                                        *)

HIDE DEF Calling, TimerLabels, TimerSections, CheckSections, TimerTypes

\* The events that are being closed, and those whose group is being signalled.
EvsAt(s, L) == {s[i].ev : i \in {j \in 1..Len(s) : s[j].at \in L}}
Ends == {"unlink", "free"}
Walks == {"group", "list"}
Leaving == EvsAt(stack, Ends)
Walking == EvsAt(stack, Walks)
Owed == {x \in All : Queued(x)}
Locked == Top.at = "list"

\* NoLostSignal.
Remembered ==
  \A e \in OfSignalType \ Leaving :
    status[e] = "live" /\ signalCount[e] = 1 => e \in Owed \cup Walking

\* A live event of signal type is on gEventSignalQueue until CloseEvent takes it off.
Registered ==
  \A e \in NotifySignal \ Leaving :
    status[e] = "live" => \E p \in 1..Len(signalQueue) : signalQueue[p] = e

\* The walk over gEventSignalQueue queues what it has passed.
Walked ==
  Locked /\ status[Top.ev] = "live" =>
    \A p \in 1..Len(signalQueue) : p < Top.n /\ signalQueue[p] = Top.ev => Top.ev \in Owed

Kept == QueuedIsPending /\ Remembered /\ Registered /\ Walked

-----------------------------------------------------------------------------
(* The events at the frames of a stack.                                      *)

LEMMA AnyAppended ==
  ASSUME NEW S, NEW s \in Seq(S), NEW f
  PROVE  /\ Append(s, f) \in Seq(S \cup {f}) /\ Len(Append(s, f)) = Len(s) + 1
         /\ Len(s) \in Nat
         /\ \A i \in 1..Len(s) : Append(s, f)[i] = s[i]
         /\ Append(s, f)[Len(s) + 1] = f
<1>1. Len(s) \in Nat /\ \A i \in 1..Len(s) : s[i] \in S \cup {f}
  BY LenProperties, ElementOfSeq
<1>2. s \in Seq(S \cup {f})
  BY <1>1, SeqDef, LenProperties
<1> QED BY <1>1, <1>2, AppendProperties

LEMMA Grows ==
  ASSUME NEW S, NEW s \in Seq(S), NEW f, NEW L
  PROVE  /\ EvsAt(s, L) \subseteq EvsAt(Append(s, f), L)
         /\ f.at \in L => f.ev \in EvsAt(Append(s, f), L)
         /\ Append(s, f) \in Seq(S \cup {f})
<1> DEFINE t == Append(s, f)
<1>1. /\ t \in Seq(S \cup {f}) /\ Len(t) = Len(s) + 1 /\ Len(s) \in Nat
      /\ \A i \in 1..Len(s) : t[i] = s[i]
      /\ t[Len(s) + 1] = f
  BY AnyAppended
<1> HIDE DEF t
<1>2. \A i \in 1..Len(s) : i \in 1..Len(t)
  BY <1>1
<1>3. Len(s) + 1 \in 1..Len(t)
  BY <1>1
<1>4. ASSUME NEW x \in EvsAt(s, L)
      PROVE  x \in EvsAt(t, L)
  <2>1. PICK i \in 1..Len(s) : s[i].at \in L /\ s[i].ev = x
    BY DEF EvsAt
  <2>2. i \in 1..Len(t) /\ t[i] = s[i]
    BY <1>1, <1>2
  <2> QED BY <2>1, <2>2 DEF EvsAt
<1>5. f.at \in L => f.ev \in EvsAt(t, L)
  BY <1>1, <1>3 DEF EvsAt
<1> QED BY <1>1, <1>4, <1>5 DEF t

LEMMA Drops ==
  ASSUME NEW s \in Seq(Frames), s # <<>>, NEW L
  PROVE  /\ EvsAt(s, L) \subseteq EvsAt(Front(s), L) \cup {Last(s).ev}
         /\ Last(s).at \notin L => EvsAt(s, L) \subseteq EvsAt(Front(s), L)
<1> DEFINE t == Front(s)
<1>1. /\ Len(t) = Len(s) - 1 /\ Len(s) \in Nat \ {0}
      /\ \A i \in 1..Len(s) - 1 : t[i] = s[i]
  BY FrontLast
<1> HIDE DEF t
<1>2. \A i \in 1..Len(s) : i = Len(s) \/ (i \in 1..Len(t) /\ t[i] = s[i])
  BY <1>1
<1>3. ASSUME NEW x \in EvsAt(s, L)
      PROVE  x \in EvsAt(t, L) \/ (x = Last(s).ev /\ Last(s).at \in L)
  <2>1. PICK i \in 1..Len(s) : s[i].at \in L /\ s[i].ev = x
    BY DEF EvsAt
  <2>2. CASE i = Len(s)
    BY <2>1, <2>2 DEF Last
  <2>3. CASE i \in 1..Len(t) /\ t[i] = s[i]
    BY <2>1, <2>3 DEF EvsAt
  <2> QED BY <1>2, <2>2, <2>3
<1> QED BY <1>3 DEF t

LEMMA SameEvs ==
  ASSUME NEW s, NEW t, NEW L, Len(t) = Len(s),
         \A i \in 1..Len(s) : t[i].at = s[i].at /\ t[i].ev = s[i].ev
  PROVE  EvsAt(t, L) = EvsAt(s, L)
BY DEF EvsAt

LEMMA Closings ==
  ASSUME Inv
  PROVE  /\ Closing = Leaving
         /\ \A e : (\E p \in FramesAt({"group", "list"}) : stack[p].ev = e) <=> e \in Walking
<1>1. DOMAIN stack = 1..Len(stack)
  BY LenProperties DEF Inv, CpuOK, StackOK, Body
<1> QED BY <1>1 DEF Closing, Walking, FramesAt, EvsAt, Walks, Leaving, Ends

-----------------------------------------------------------------------------
(* The queues.                                                               *)

LEMMA QueuedAt ==
  ASSUME Inv, NEW e \in All
  PROVE  /\ TplOf(e) \in Levels /\ queue[TplOf(e)] \in Seq(All)
         /\ Queued(e) <=> \E p \in 1..Len(queue[TplOf(e)]) : queue[TplOf(e)][p] = e
         /\ Queued(e) => queue[TplOf(e)] # <<>>
<1>1. TplOf(e) \in Levels
  BY EventAssumption DEF TplOf, All
<1>2. queue[TplOf(e)] \in Seq(All)
  BY <1>1 DEF Inv, DataOK, QueuesOK
<1>3. Queued(e) <=> \E p \in 1..Len(queue[TplOf(e)]) : queue[TplOf(e)][p] = e
  BY <1>2, LenProperties DEF Queued
<1>4. Queued(e) => queue[TplOf(e)] # <<>>
  BY <1>2, <1>3, EmptySeq
<1> QED BY <1>1, <1>2, <1>3, <1>4

\* What is queued stays queued.
QueuesKept == QueuedIsPending' /\ Owed \subseteq Owed'

LEMMA SameQueuesKept ==
  ASSUME QueuedIsPending, UNCHANGED <<pending, queue>>
  PROVE  QueuesKept
<1>1. \A x : TplOf(x)' = TplOf(x)
  BY DEF TplOf
<1> QED BY <1>1 DEF QueuedIsPending, QueuesKept, Queued, Owed

LEMMA NotifyKept ==
  ASSUME Inv, QueuedIsPending, NEW e \in All, CoreNotifyEvent(e)
  PROVE  QueuesKept /\ e \in Owed'
<1> DEFINE l == TplOf(e)
           c == Without(queue[l], e)
           n == Append(c, e)
<1>1. l \in Levels /\ queue[l] \in Seq(All)
  BY QueuedAt
<1>2. c \in Seq(All) /\ \A q \in 1..Len(queue[l]) : queue[l][q] # e =>
                           \E p \in 1..Len(c) : c[p] = queue[l][q]
  BY <1>1, WithoutElements
<1>3. queue' = [queue EXCEPT ![l] = n] /\ pending' = pending \cup {l}
  BY DEF CoreNotifyEvent
<1> HIDE DEF c
<1>4. /\ n \in Seq(All) /\ Len(n) = Len(c) + 1 /\ Len(c) \in Nat
      /\ \A p \in 1..Len(c) : n[p] = c[p]
      /\ n[Len(c) + 1] = e
  BY <1>2, AppendProperties, LenProperties
<1> HIDE DEF n, l
<1>5. \A p \in 1..Len(c) : p \in 1..Len(n)
  BY <1>4
<1>6. Len(c) + 1 \in 1..Len(n)
  BY <1>4
<1>7. DOMAIN n = 1..Len(n)
  BY <1>4, LenProperties
<1>8. queue'[l] = n /\ \A m \in Levels : m # l => queue'[m] = queue[m]
  BY <1>1, <1>3 DEF Inv, DataOK, QueuesOK
<1>9. \A x : TplOf(x)' = TplOf(x)
  BY DEF TplOf
<1>10. e \in Owed'
  BY <1>4, <1>6, <1>7, <1>8, <1>9 DEF Queued, Owed, l
<1>11. ASSUME NEW x \in All, Queued(x), x # e
       PROVE  x \in Owed'
  <2>1. TplOf(x) \in Levels
    BY QueuedAt
  <2>2. CASE TplOf(x) # l
    BY <1>8, <1>9, <1>11, <2>1, <2>2 DEF Queued, Owed
  <2>3. CASE TplOf(x) = l
    <3>1. PICK q \in 1..Len(queue[l]) : queue[l][q] = x
      BY <1>11, <2>3, QueuedAt
    <3>2. PICK p \in 1..Len(c) : c[p] = x
      BY <1>2, <1>11, <3>1
    <3>3. p \in DOMAIN n /\ n[p] = x
      BY <1>4, <1>5, <1>7, <3>2
    <3> QED BY <1>8, <1>9, <2>3, <3>3 DEF Queued, Owed
  <2> QED BY <2>2, <2>3
<1>12. QueuedIsPending'
  BY <1>3, <1>8 DEF QueuedIsPending
<1> QED BY <1>10, <1>11, <1>12 DEF QueuesKept, Owed

LEMMA SignalKept ==
  ASSUME Inv, QueuedIsPending, NEW e \in All, SignalSection(e)
  PROVE  /\ QueuesKept
         /\ \A x \in OfSignalType : signalCount'[x] = 1 =>
              signalCount[x] = 1 \/ x \in Owed' \/ (x = e /\ SignalsGroup(e))
<1>1. \A x \in All : signalCount'[x] = 1 => x = e \/ signalCount[x] = 1
  BY DEF SignalSection, Inv, DataOK
<1>2. OfSignalType \subseteq All
  BY EventAssumption DEF OfSignalType, All
<1>3. signalCount[e] = 0 \/ signalCount[e] = 1
  BY DEF Inv, DataOK
<1>4. CASE FirstSignal(e) /\ ~SignalsGroup(e)
  <2>1. CoreNotifyEvent(e)
    BY <1>4 DEF SignalSection
  <2>2. QueuesKept /\ e \in Owed'
    BY <2>1, NotifyKept
  <2> QED BY <1>1, <1>2, <2>2
<1>5. CASE ~(FirstSignal(e) /\ ~SignalsGroup(e))
  <2>1. UNCHANGED <<pending, queue>>
    BY <1>5 DEF SignalSection
  <2>2. QueuesKept
    BY <2>1, SameQueuesKept
  <2>3. e \in OfSignalType => signalCount[e] = 1 \/ SignalsGroup(e)
    BY <1>3, <1>5 DEF FirstSignal
  <2> QED BY <1>1, <1>2, <2>2, <2>3
<1> QED BY <1>4, <1>5

-----------------------------------------------------------------------------
(* What the steps keep.                                                      *)

\* The frames of base hold what those of the stack hold.
Holds(base) ==
  /\ \E S : base \in Seq(S)
  /\ EvsAt(stack, Ends) \subseteq EvsAt(base, Ends)
  /\ EvsAt(stack, Walks) \subseteq EvsAt(base, Walks)
StackKept == Leaving \subseteq Leaving' /\ Walking \subseteq Walking' /\ ~Locked'

LEMMA HoldsStack ==
  ASSUME Inv
  PROVE  Holds(stack)
BY TopFacts DEF Inv, Holds

LEMMA HoldsBelow ==
  ASSUME Inv, Top.at \notin Ends \cup Walks
  PROVE  Holds(Below)
<1>1. stack \in Seq(Frames) /\ stack # <<>> /\ Below = Front(stack) /\ Top = Last(stack)
  BY TopFacts, EmptySeq DEF Inv
<1>2. Front(stack) \in Seq(Frames)
  BY <1>1, FrontLast
<1>3. EvsAt(stack, Ends) \subseteq EvsAt(Front(stack), Ends)
  BY <1>1, Drops
<1>4. EvsAt(stack, Walks) \subseteq EvsAt(Front(stack), Walks)
  BY <1>1, Drops
<1> QED BY <1>1, <1>2, <1>3, <1>4 DEF Holds

LEMMA HoldsAppend ==
  ASSUME NEW s, Holds(s), NEW f
  PROVE  Holds(Append(s, f))
<1>1. PICK S : s \in Seq(S)
  BY DEF Holds
<1>2. Append(s, f) \in Seq(S \cup {f})
  BY <1>1, Grows
<1>3. EvsAt(s, Ends) \subseteq EvsAt(Append(s, f), Ends)
  BY <1>1, Grows
<1>4. EvsAt(s, Walks) \subseteq EvsAt(Append(s, f), Walks)
  BY <1>1, Grows
<1> QED BY <1>2, <1>3, <1>4 DEF Holds

LEMMA HoldsSame ==
  ASSUME NEW s, NEW t, Holds(s), Len(t) = Len(s), \E S : t \in Seq(S),
         \A i \in 1..Len(s) : t[i].at = s[i].at /\ t[i].ev = s[i].ev
  PROVE  Holds(t)
<1>1. EvsAt(t, Ends) = EvsAt(s, Ends) /\ EvsAt(t, Walks) = EvsAt(s, Walks)
  BY SameEvs
<1> QED BY <1>1 DEF Holds

LEMMA CountsHold ==
  ASSUME NEW s \in Seq(Frames), s # <<>>, Holds(s), NEW v \in Int,
         NEW t, t = [s EXCEPT ![Len(s)].n = v]
  PROVE  Holds(t)
<1>1. Len(s) \in 1..Len(s) /\ s[Len(s)] \in Frames
  BY FrontLast, ElementOfSeq DEF Last
<1>2. PICK f \in Frames : f = s[Len(s)]
  BY <1>1
<1> DEFINE g == [f EXCEPT !.n = v]
<1>3. g \in Frames /\ g.at = f.at /\ g.ev = f.ev
  BY DEF Frames
<1>4. t = [s EXCEPT ![Len(s)] = g]
  BY <1>2
<1> HIDE DEF g
<1>5. /\ t \in Seq(Frames) /\ Len(t) = Len(s)
      /\ \A i \in 1..Len(s) : t[i] = IF i = Len(s) THEN g ELSE s[i]
  BY <1>1, <1>3, <1>4, ExceptSeq
<1>6. \A i \in 1..Len(s) : t[i].at = s[i].at /\ t[i].ev = s[i].ev
  BY <1>2, <1>3, <1>5
<1> QED BY <1>5, <1>6, HoldsSame

LEMMA HoldsCaller ==
  ASSUME Inv, Running
  PROVE  Holds(Caller)
<1>1. CASE Top.ev = App
  BY <1>1, HoldsStack DEF Caller
<1>2. CASE Top.ev # App
  <2>1. PICK v \in Int : v = Top.n - 1
    BY TopFacts DEF Inv, Frames
  <2>2. Caller = [stack EXCEPT ![Len(stack)].n = v]
    BY <1>2, <2>1 DEF Caller, Top
  <2>3. stack \in Seq(Frames) /\ stack # <<>>
    BY TopFacts, EmptySeq DEF Inv
  <2> QED BY <2>2, <2>3, HoldsStack, CountsHold
<1> QED BY <1>1, <1>2

LEMMA NotHigh ==
  ASSUME Inv, Top.at \notin {"restore", "list"}
  PROVE  tpl # High
BY TopFacts DEF Inv, Fits

LEMMA HeldByRelease ==
  ASSUME NEW base, Holds(base), NEW owner, Release(base, owner)
  PROVE  StackKept
<1> DEFINE f == Restore(owner)
<1>1. stack' = Append(base, f) /\ f.at = "restore"
  BY DEF Release, Restore, Frame
<1> HIDE DEF f
<1>2. PICK S : base \in Seq(S)
  BY DEF Holds
<1>3. Len(stack') = Len(base) + 1 /\ stack'[Len(base) + 1] = f
  BY <1>1, <1>2, AnyAppended
<1>4. ~Locked'
  BY <1>1, <1>3 DEF Locked, Top
<1>5. Holds(Append(base, f))
  BY HoldsAppend
<1> QED BY <1>1, <1>4, <1>5 DEF StackKept, Holds, Leaving, Walking

LEMMA HeldBelowHigh ==
  ASSUME Inv', tpl' # High, NEW base, Holds(base), stack' = base
  PROVE  StackKept
<1>1. ~Locked'
  BY DEF Inv, CpuOK, StackOK, Fits, Locked, Top, Last
<1> QED BY <1>1 DEF StackKept, Holds, Leaving, Walking

LEMMA KeptStep ==
  ASSUME Inv, Kept, StackKept, QueuesKept, UNCHANGED <<signalQueue, status>>,
         \A x \in OfSignalType : signalCount'[x] = 1 =>
           signalCount[x] = 1 \/ x \in Owed' \/ x \in Walking'
  PROVE  Kept'
<1>1. QueuedIsPending' /\ Owed \subseteq Owed'
  BY DEF QueuesKept
<1>2. Leaving \subseteq Leaving' /\ Walking \subseteq Walking' /\ ~Locked'
  BY DEF StackKept
<1>3. Walked'
  BY <1>2 DEF Walked
<1>4. Registered'
  BY <1>2, Zenon DEF Registered, Kept
<1>5. Remembered'
  <2> SUFFICES ASSUME NEW e \in OfSignalType \ Leaving',
                      status'[e] = "live", signalCount'[e] = 1
               PROVE  e \in Owed' \cup Walking'
    BY DEF Remembered
  <2>1. e \in OfSignalType \ Leaving /\ status[e] = "live"
    BY <1>2
  <2>2. CASE signalCount[e] = 1
    <3>1. e \in Owed \cup Walking
      BY <2>1, <2>2 DEF Remembered, Kept
    <3> QED BY <3>1, <1>1, <1>2
  <2> QED BY <2>2
<1> QED BY <1>1, <1>3, <1>4, <1>5 DEF Kept

LEMMA Silent ==
  ASSUME Inv, Kept, StackKept, UNCHANGED <<database, signalQueue, status>>
  PROVE  Kept'
<1>1. UNCHANGED <<pending, queue, signalCount, signalQueue, status>>
  BY DEF database
<1>2. QueuesKept
  BY <1>1, SameQueuesKept DEF Kept
<1> QED BY <1>1, <1>2, KeptStep

-----------------------------------------------------------------------------
(* Actions that leave the queues and the counts alone.                       *)

LEMMA ListGroupKept ==
  ASSUME Inv, Kept, ListGroup
  PROVE  Kept'
<1>1. Top.at = "group" /\ UNCHANGED <<database, signalQueue, status>>
  BY DEF ListGroup, At
<1>2. PICK n, f : /\ n = 1 \/ status[Top.ev] = "freed"
                  /\ f = [Top EXCEPT !.at = "list", !.n = n]
                  /\ stack' = Append(Below, f)
  BY DEF ListGroup
<1>3. f.at = "list" /\ f.ev = Top.ev /\ f.n = n
  BY <1>2, TopFacts DEF Inv, Frames
<1>4. /\ stack \in Seq(Frames) /\ stack # <<>> /\ Below = Front(stack) /\ Top = Last(stack)
      /\ Below \in Seq(Frames)
  BY TopFacts, EmptySeq, FrontLast DEF Inv
<1>5. Len(stack') = Len(Below) + 1 /\ stack'[Len(Below) + 1] = f
  BY <1>2, <1>4, AnyAppended
<1>6. Top' = f
  BY <1>5 DEF Top
<1>7. Leaving \subseteq Leaving'
  <2>1. EvsAt(stack, Ends) \subseteq EvsAt(Below, Ends)
    BY <1>1, <1>4, Drops DEF Ends
  <2>2. EvsAt(Below, Ends) \subseteq EvsAt(stack', Ends)
    BY <1>2, <1>4, Grows
  <2> QED BY <2>1, <2>2 DEF Leaving
<1>8. Walking \subseteq Walking'
  <2>1. EvsAt(stack, Walks) \subseteq EvsAt(Below, Walks) \cup {Top.ev}
    BY <1>4, Drops
  <2>2. EvsAt(Below, Walks) \subseteq EvsAt(stack', Walks)
    BY <1>2, <1>4, Grows
  <2>3. f.ev \in EvsAt(stack', Walks)
    <3>1. f.at \in Walks
      BY <1>3 DEF Walks
    <3> QED BY <3>1, <1>2, <1>4, Grows
  <2> QED BY <2>1, <2>2, <2>3, <1>3 DEF Walking
<1>9. UNCHANGED <<pending, queue, signalCount, signalQueue, status>>
  BY <1>1 DEF database
<1>10. QueuesKept
  BY <1>9, SameQueuesKept DEF Kept
<1>11. Walked'
  <2>1. ASSUME status[Top.ev] = "live", NEW p \in 1..Len(signalQueue), p < 1
        PROVE  FALSE
    BY <2>1
  <2> QED BY <1>2, <1>3, <1>6, <1>9, <2>1 DEF Walked
<1>12. Registered'
  BY <1>7, <1>9 DEF Registered, Kept
<1>13. Remembered'
  BY <1>7, <1>8, <1>9, <1>10 DEF Remembered, Kept, QueuesKept
<1> QED BY <1>10, <1>11, <1>12, <1>13 DEF Kept, QueuesKept

LEMMA ListEndsKept ==
  ASSUME Inv, Kept, ListEnds
  PROVE  Kept'
<1> DEFINE f == [Top EXCEPT !.at = "relock"]
           base == Append(Below, f)
<1>1. /\ Top.at = "list" /\ Top.n > Len(signalQueue) /\ Release(base, Top.to)
      /\ UNCHANGED <<database, signalQueue, status>>
  BY DEF ListEnds, At
<1> HIDE DEF f
<1>2. /\ stack \in Seq(Frames) /\ stack # <<>> /\ Below = Front(stack) /\ Top = Last(stack)
      /\ Below \in Seq(Frames) /\ Top.ev \in NotifySignal /\ Top.n \in Nat
  BY <1>1, TopFacts, EmptySeq, FrontLast DEF Inv, Shape
<1>3. base \in Seq(Frames \cup {f})
  BY <1>2, Grows
<1>4. Leaving \subseteq Leaving' /\ Walking \subseteq Walking' \cup {Top.ev} /\ ~Locked'
  <2> DEFINE r == Restore(Top.to)
  <2>1. stack' = Append(base, r) /\ r.at = "restore"
    BY <1>1 DEF Release, Restore, Frame
  <2> HIDE DEF base, r
  <2>2. EvsAt(stack, Ends) \subseteq EvsAt(Below, Ends)
    BY <1>1, <1>2, Drops DEF Ends
  <2>3. EvsAt(stack, Walks) \subseteq EvsAt(Below, Walks) \cup {Top.ev}
    BY <1>2, Drops
  <2>4. EvsAt(Below, Ends) \subseteq EvsAt(base, Ends)
    BY <1>2, Grows DEF base
  <2>5. EvsAt(Below, Walks) \subseteq EvsAt(base, Walks)
    BY <1>2, Grows DEF base
  <2>6. EvsAt(base, Ends) \subseteq EvsAt(stack', Ends)
    BY <1>3, <2>1, Grows
  <2>7. EvsAt(base, Walks) \subseteq EvsAt(stack', Walks)
    BY <1>3, <2>1, Grows
  <2>8. Len(stack') = Len(base) + 1 /\ stack'[Len(base) + 1] = r
    BY <1>3, <2>1, AnyAppended
  <2>9. ~Locked'
    BY <2>1, <2>8 DEF Locked, Top
  <2> QED BY <2>2, <2>3, <2>4, <2>5, <2>6, <2>7, <2>9 DEF Leaving, Walking
<1>5. UNCHANGED <<pending, queue, signalCount, signalQueue, status>>
  BY <1>1 DEF database
<1>6. QueuesKept
  BY <1>5, SameQueuesKept DEF Kept
<1>7. status[Top.ev] = "live" /\ Top.ev \notin Leaving => Top.ev \in Owed
  <2>1. ASSUME NEW p \in 1..Len(signalQueue)
        PROVE  p < Top.n
    BY <1>1, <1>2, <2>1, LenProperties DEF Inv, DataOK
  <2> QED BY <1>1, <1>2, <2>1 DEF Kept, Walked, Registered, Locked
<1>8. Walked'
  BY <1>4 DEF Walked
<1>9. Registered'
  BY <1>4, <1>5 DEF Registered, Kept
<1>10. Remembered'
  BY <1>4, <1>5, <1>6, <1>7 DEF Remembered, Kept, QueuesKept
<1> QED BY <1>6, <1>8, <1>9, <1>10 DEF Kept, QueuesKept

LEMMA LevelsKept ==
  ASSUME Inv, Kept, Inv',
         \/ RestoreDispatches \/ RestoreEnds \/ RestoreLowers \/ EndOfInterrupt \/ Return
         \/ CallRestore \/ CallNotify \/ CallWait \/ \E l \in {Callback, Notify} : CallRaise(l)
  PROVE  Kept'
<1> USE DEF Ends, Walks
<1>1. CASE RestoreDispatches
  <2>1. Holds(stack')
    BY <1>1, HoldsStack, HoldsAppend DEF RestoreDispatches
  <2>2. Highest # High
    <3>1. pending # {} /\ pending \subseteq {8, 16, 30}
      BY <1>1 DEF RestoreDispatches, Unmasked, Inv, DataOK
    <3>2. Highest \in pending
      BY <3>1, HighestPending DEF Inv
    <3> QED BY <3>1, <3>2
  <2>3. tpl' # High /\ UNCHANGED <<database, signalQueue, status>>
    BY <1>1, <2>2 DEF RestoreDispatches
  <2>4. StackKept
    BY <2>1, <2>3, HeldBelowHigh
  <2> QED BY <2>3, <2>4, Silent
<1>2. CASE RestoreEnds
  <2>1. Top.at = "restore" /\ UNCHANGED <<database, signalQueue, status>>
        /\ \/ tpl' # High /\ stack' = Below
           \/ tpl' = tpl /\ interrupts /\ \E f : stack' = Append(Below, f)
    BY <1>2, TopFacts DEF RestoreEnds, At, Inv, cpu
  <2>2. Holds(Below)
    BY <2>1, HoldsBelow
  <2>3. tpl' # High
    BY <2>1 DEF Inv, CpuOK
  <2>4. Holds(stack')
    BY <2>1, <2>2, HoldsAppend
  <2>5. StackKept
    BY <2>3, <2>4, HeldBelowHigh
  <2> QED BY <2>1, <2>5, Silent
<1>3. CASE RestoreLowers \/ EndOfInterrupt \/ Return
  <2>1. Top.at \in {"lower", "isr", "code"} /\ UNCHANGED <<database, signalQueue, status>>
        /\ (tpl' = Top.to \/ tpl' = tpl) /\ stack' = Below
    BY <1>3 DEF RestoreLowers, EndOfInterrupt, Return, At, cpu
  <2>2. Holds(Below)
    BY <2>1, HoldsBelow
  <2>3. tpl' # High
    BY <2>1, NotHigh, TopFacts DEF Inv
  <2>4. StackKept
    BY <2>1, <2>2, <2>3, HeldBelowHigh
  <2> QED BY <2>1, <2>4, Silent
<1>4. CASE CallRestore
  <2>1. Top.at = "code" /\ UNCHANGED <<database, signalQueue, status>> /\ tpl' = tpl
    BY <1>4 DEF CallRestore, At, cpu
  <2>2. Holds(stack')
    BY <1>4, HoldsStack, HoldsAppend DEF CallRestore
  <2>3. tpl' # High
    BY <2>1, NotHigh
  <2>4. StackKept
    BY <2>2, <2>3, HeldBelowHigh
  <2> QED BY <2>1, <2>4, Silent
<1>5. CASE CallNotify
  <2>1. Top.at = "notify" /\ UNCHANGED <<database, signalQueue, status>> /\ tpl' = tpl
    BY <1>5 DEF CallNotify, At, cpu
  <2>2. PICK f, g : stack' = Append(Append(Below, f), g)
    BY <1>5 DEF CallNotify
  <2>3. Holds(Append(Below, f))
    BY <2>1, HoldsBelow, HoldsAppend
  <2>4. Holds(stack')
    BY <2>2, <2>3, HoldsAppend
  <2>5. tpl' # High
    BY <2>1, NotHigh
  <2>6. StackKept
    BY <2>4, <2>5, HeldBelowHigh
  <2> QED BY <2>1, <2>6, Silent
<1>6. CASE CallWait
  <2>1. Running /\ tpl' = Application /\ UNCHANGED <<database, signalQueue, status>>
    BY <1>6 DEF CallWait, cpu
  <2>2. Holds(stack')
    BY <1>6, <2>1, HoldsCaller, HoldsAppend DEF CallWait
  <2>3. StackKept
    BY <2>1, <2>2, HeldBelowHigh
  <2> QED BY <2>1, <2>3, Silent
<1>7. ASSUME NEW l \in {Callback, Notify}, CallRaise(l)
      PROVE  Kept'
  <2>1. Running /\ tpl' # High /\ UNCHANGED <<database, signalQueue, status>> /\ stack' = Caller
    BY <1>7 DEF CallRaise
  <2>2. StackKept
    BY <2>1, HoldsCaller, HeldBelowHigh
  <2> QED BY <2>1, <2>2, Silent
<1> QED BY <1>1, <1>2, <1>3, <1>4, <1>5, <1>6, <1>7

LEMMA RelockKept ==
  ASSUME Inv, Kept, Relock
  PROVE  Kept'
<1>1. Top.at = "relock" /\ Release(Below, Top.to) /\ UNCHANGED <<database, signalQueue, status>>
  BY DEF Relock, At
<1>2. Holds(Below)
  BY <1>1, HoldsBelow DEF Ends, Walks
<1>3. StackKept
  BY <1>1, <1>2, HeldByRelease
<1> QED BY <1>1, <1>3, Silent

\* Sections under mEfiTimerLock that do not signal.
LEMMA TimersKept ==
  ASSUME Inv, Kept, Inv', ExpireTakes \/ ExpireEnds \/ CancelTimer \/ SetTimer
  PROVE  Kept'
<1>1. Top.at \in TimerLabels /\ UNCHANGED <<cpu, database, signalQueue, status>>
  BY DEF ExpireTakes, ExpireEnds, CancelTimer, SetTimer, At, timing, TimerLabels,
         TimerSections, CheckSections
<1>2. stack' = Below \/ \E f : stack' = Append(Below, f)
  BY DEF ExpireTakes, ExpireEnds, CancelTimer, SetTimer
<1>3. Holds(Below)
  BY <1>1, HoldsBelow DEF Ends, Walks, TimerLabels, TimerSections, CheckSections
<1>4. Holds(stack')
  BY <1>2, <1>3, HoldsAppend
<1>5. tpl' # High
  <2>1. tpl # High
    BY <1>1, NotHigh DEF TimerLabels, TimerSections, CheckSections
  <2> QED BY <1>1, <2>1 DEF cpu
<1>6. StackKept
  BY <1>4, <1>5, HeldBelowHigh
<1> QED BY <1>1, <1>6, Silent

LEMMA TimerCallsKept ==
  ASSUME Inv, Kept, Inv', 
         (\E a \in Arms : CallSetTimer(a[2], a[3], a[4])) \/ \E e \in Events : CallClose(e)
  PROVE  Kept'
<1>1. /\ Running /\ (tpl' = TimerLevel \/ tpl' = tpl)
      /\ UNCHANGED <<database, signalQueue, status>>
      /\ \E f : stack' = Append(Caller, f) \/ \E g : stack' = Append(Append(Caller, f), g)
  BY DEF CallSetTimer, CallClose
<1>2. Holds(Caller)
  BY <1>1, HoldsCaller
<1>3. \A f : Holds(Append(Caller, f))
  BY <1>2, HoldsAppend
<1>4. Holds(stack')
  BY <1>1, <1>3, HoldsAppend
<1>5. tpl' # High
  BY <1>1, CallerOK
<1>6. StackKept
  BY <1>4, <1>5, HeldBelowHigh
<1> QED BY <1>1, <1>6, Silent

-----------------------------------------------------------------------------
(* Actions that signal.                                                      *)

LEMMA CoreSignalKept ==
  ASSUME Inv, Kept, NEW e \in All, NEW base, Holds(base), NEW t,
         CoreSignalEvent(e, base, t), UNCHANGED <<signalQueue, status>>
  PROVE  Kept'
<1>1. /\ QueuesKept
      /\ \A x \in OfSignalType : signalCount'[x] = 1 =>
           signalCount[x] = 1 \/ x \in Owed' \/ (x = e /\ SignalsGroup(e))
  BY SignalKept DEF CoreSignalEvent, Kept
<1>2. CASE SignalsGroup(e)
  <2> DEFINE g == Frame("group", t, e, 0)
             r == Restore(t)
  <2>1. stack' = Append(Append(base, g), r) /\ Release(Append(base, g), t)
    BY <1>2 DEF CoreSignalEvent, Release
  <2>2. g.at = "group" /\ g.ev = e
    BY DEF Frame
  <2> HIDE DEF g, r
  <2>3. Holds(Append(base, g))
    BY HoldsAppend
  <2>4. StackKept
    BY <2>1, <2>3, HeldByRelease
  <2>5. e \in Walking'
    <3>1. PICK S : base \in Seq(S)
      BY DEF Holds
    <3>2. g.at \in Walks
      BY <2>2 DEF Walks
    <3>3. g.ev \in EvsAt(Append(base, g), Walks)
      BY <3>1, <3>2, Grows
    <3>4. Append(base, g) \in Seq(S \cup {g})
      BY <3>1, Grows
    <3>5. EvsAt(Append(base, g), Walks) \subseteq EvsAt(Append(Append(base, g), r), Walks)
      BY <3>4, Grows
    <3> QED BY <2>1, <2>2, <3>3, <3>5 DEF Walking
  <2> QED BY <1>1, <2>4, <2>5, KeptStep
<1>3. CASE ~SignalsGroup(e)
  <2>1. Release(base, t)
    BY <1>3 DEF CoreSignalEvent
  <2>2. StackKept
    BY <2>1, HeldByRelease
  <2> QED BY <1>1, <1>3, <2>2, KeptStep
<1> QED BY <1>2, <1>3

LEMMA SignalsKept ==
  ASSUME Inv, Kept, ExpireSignals \/ WaitIdles \/ \E e \in Events : CallSignal(e)
  PROVE  Kept'
<1>1. CASE ExpireSignals
  <2>1. Top.at = "signal" /\ Top.ev \in All
    BY <1>1, TopFacts, EventAssumption DEF ExpireSignals, At, Inv, Shape, All
  <2>2. PICK e \in All : e = Top.ev
    BY <2>1
  <2>3. PICK f : CoreSignalEvent(e, Append(Below, f), tpl) /\ UNCHANGED <<signalQueue, status>>
    BY <1>1, <2>2 DEF ExpireSignals
  <2>4. Holds(Append(Below, f))
    BY <2>1, HoldsBelow, HoldsAppend DEF Ends, Walks
  <2> QED BY <2>3, <2>4, CoreSignalKept
<1>2. CASE WaitIdles
  <2>1. Top.at = "wait"
    BY <1>2 DEF WaitIdles, At
  <2>2. Idle \in All
    BY EventAssumption DEF All
  <2>3. PICK f : CoreSignalEvent(Idle, Append(Below, f), tpl) /\ UNCHANGED <<signalQueue, status>>
    BY <1>2 DEF WaitIdles
  <2>4. Holds(Append(Below, f))
    BY <2>1, HoldsBelow, HoldsAppend DEF Ends, Walks
  <2> QED BY <2>2, <2>3, <2>4, CoreSignalKept
<1>3. ASSUME NEW e \in Events, CallSignal(e)
      PROVE  Kept'
  <2>1. Running /\ e \in All /\ CoreSignalEvent(e, Caller, tpl) /\ UNCHANGED <<signalQueue, status>>
    BY <1>3 DEF CallSignal, All
  <2> QED BY <2>1, HoldsCaller, CoreSignalKept
<1> QED BY <1>1, <1>2, <1>3

LEMMA CheckTimersKept ==
  ASSUME Inv, Kept, SignalSection(CheckTimers) \/ UNCHANGED database, StackKept,
         UNCHANGED <<signalQueue, status>>
  PROVE  Kept'
<1>1. CASE SignalSection(CheckTimers)
  <2>1. CheckTimers \in All /\ ~SignalsGroup(CheckTimers)
    BY DEF All, SignalsGroup, GroupOf
  <2>2. /\ QueuesKept
        /\ \A x \in OfSignalType : signalCount'[x] = 1 => signalCount[x] = 1 \/ x \in Owed'
    BY <1>1, <2>1, SignalKept DEF Kept
  <2> QED BY <2>2, KeptStep
<1>2. CASE UNCHANGED database
  BY <1>2, Silent
<1> QED BY <1>1, <1>2

LEMMA InsertsKept ==
  ASSUME Inv, Kept, Inv', Rearm \/ InsertTimer
  PROVE  Kept'
<1>1. Top.at \in TimerLabels /\ UNCHANGED <<cpu, signalQueue, status>>
      /\ (SignalSection(CheckTimers) \/ UNCHANGED database)
  BY DEF Rearm, InsertTimer, At, TimerLabels, TimerSections, CheckSections
<1>2. \E f : stack' = Append(Below, f)
  BY DEF Rearm, InsertTimer
<1>3. Holds(stack')
  BY <1>1, <1>2, HoldsBelow, HoldsAppend DEF Ends, Walks, TimerLabels, TimerSections, CheckSections
<1>4. tpl' # High
  <2>1. tpl # High
    BY <1>1, NotHigh DEF TimerLabels, TimerSections, CheckSections
  <2> QED BY <1>1, <2>1 DEF cpu
<1>5. StackKept
  BY <1>3, <1>4, HeldBelowHigh
<1> QED BY <1>1, <1>5, CheckTimersKept

LEMMA TickKept ==
  ASSUME Inv, Kept, NEW d \in Durations, Tick(d)
  PROVE  Kept'
<1> DEFINE n == Len(stack)
           aged == FramesAt(CheckSections)
           isr == Frame("isr", tpl, App, 0)
           base == [i \in 1..n + 1 |->
                      IF i > n THEN isr
                      ELSE IF i \in aged THEN [stack[i] EXCEPT !.n = @ + d]
                      ELSE stack[i]]
<1>1. Release(base, tpl) /\ (SignalSection(CheckTimers) \/ UNCHANGED database)
      /\ UNCHANGED <<signalQueue, status>>
  BY DEF Tick
<1>2. n \in Nat \ {0} /\ \A i \in 1..n : stack[i] \in Frames
  BY TopFacts DEF Inv, Body, Shape
<1>3. \A i \in 1..n : base[i].at = stack[i].at /\ base[i].ev = stack[i].ev
  BY <1>2 DEF Frames
<1>4. base \in Seq({base[i] : i \in 1..n + 1}) /\ Len(base) = n + 1
  <2> DEFINE S == {base[i] : i \in 1..n + 1}
  <2>1. DOMAIN base = 1..n + 1 /\ base = [i \in 1..n + 1 |-> base[i]]
    OBVIOUS
  <2> HIDE DEF base
  <2>2. base \in [1..n + 1 -> S]
    BY <2>1
  <2> HIDE DEF S
  <2>3. n + 1 \in Nat
    BY <1>2
  <2>4. base \in Seq(S)
    BY <2>2, <2>3, SeqDef
  <2>5. Len(base) = n + 1
    BY <2>1, <2>3, <2>4, LenProperties
  <2> QED BY <2>4, <2>5 DEF S
<1> HIDE DEF base
<1>5. ASSUME NEW L
      PROVE  EvsAt(stack, L) \subseteq EvsAt(base, L)
  <2> SUFFICES ASSUME NEW x \in EvsAt(stack, L)
               PROVE  x \in EvsAt(base, L)
    OBVIOUS
  <2>1. PICK i \in 1..n : stack[i].at \in L /\ stack[i].ev = x
    BY DEF EvsAt
  <2>2. i \in 1..Len(base) /\ base[i].at \in L /\ base[i].ev = x
    BY <1>2, <1>3, <1>4, <2>1
  <2> QED BY <2>2 DEF EvsAt
<1>6. Holds(base)
  BY <1>4, <1>5 DEF Holds
<1>7. StackKept
  BY <1>1, <1>6, HeldByRelease
<1> QED BY <1>1, <1>7, CheckTimersKept

-----------------------------------------------------------------------------
(* The walk, the dispatcher, CheckEvent, and the life of an event.           *)

LEMMA ListNotifiesKept ==
  ASSUME Inv, Kept, ListNotifies
  PROVE  Kept'
<1>1. /\ Top.at = "list" /\ Top.n \in 1..Len(signalQueue) /\ Top.ev \in NotifySignal
      /\ UNCHANGED <<signalQueue, signalCount, status>>
  BY TopFacts, LenProperties DEF ListNotifies, At, Inv, Shape, DataOK
<1>2. PICK m, f : /\ m = Top.n + 1 /\ f = [Top EXCEPT !.n = m]
                  /\ stack' = Append(Below, f)
  BY DEF ListNotifies
<1>3. f.at = "list" /\ f.ev = Top.ev /\ f.n = Top.n + 1
  BY <1>1, <1>2, TopFacts DEF Inv, Frames
<1>4. /\ stack \in Seq(Frames) /\ stack # <<>> /\ Below = Front(stack) /\ Top = Last(stack)
      /\ Below \in Seq(Frames)
  BY TopFacts, EmptySeq, FrontLast DEF Inv
<1>5. Len(stack') = Len(Below) + 1 /\ stack'[Len(Below) + 1] = f
  BY <1>2, <1>4, AnyAppended
<1>6. Top' = f
  BY <1>5 DEF Top
<1>7. Leaving \subseteq Leaving'
  <2>1. EvsAt(stack, Ends) \subseteq EvsAt(Below, Ends)
    BY <1>1, <1>4, Drops DEF Ends
  <2>2. EvsAt(Below, Ends) \subseteq EvsAt(stack', Ends)
    BY <1>2, <1>4, Grows
  <2> QED BY <2>1, <2>2 DEF Leaving
<1>8. Walking \subseteq Walking'
  <2>1. EvsAt(stack, Walks) \subseteq EvsAt(Below, Walks) \cup {Top.ev}
    BY <1>4, Drops
  <2>2. EvsAt(Below, Walks) \subseteq EvsAt(stack', Walks)
    BY <1>2, <1>4, Grows
  <2>3. f.ev \in EvsAt(stack', Walks)
    <3>1. f.at \in Walks
      BY <1>3 DEF Walks
    <3> QED BY <3>1, <1>2, <1>4, Grows
  <2> QED BY <2>1, <2>2, <2>3, <1>3 DEF Walking
<1>9. QueuesKept /\ (signalQueue[Top.n] = Top.ev => Top.ev \in Owed')
  <2>1. signalQueue[Top.n] \in All
    <3>1. signalQueue[Top.n] \in NotifySignal
      BY <1>1, ElementOfSeq DEF Inv, DataOK
    <3> QED BY <3>1, EventAssumption DEF All
  <2>2. PICK e \in All : e = signalQueue[Top.n]
    BY <2>1
  <2>3. CASE Group[e] = Group[Top.ev]
    <3>1. CoreNotifyEvent(e)
      BY <2>2, <2>3 DEF ListNotifies
    <3>2. QueuesKept /\ e \in Owed'
      BY <3>1, NotifyKept DEF Kept
    <3> QED BY <2>2, <3>2
  <2>4. CASE Group[e] # Group[Top.ev]
    <3>1. UNCHANGED <<pending, queue>>
      BY <2>2, <2>4 DEF ListNotifies
    <3>2. QueuesKept
      BY <3>1, SameQueuesKept DEF Kept
    <3> QED BY <2>2, <2>4, <3>2
  <2> QED BY <2>3, <2>4
<1>10. Walked'
  <2> SUFFICES ASSUME status[Top.ev] = "live", NEW p \in 1..Len(signalQueue), p < f.n,
                      signalQueue[p] = Top.ev
               PROVE  Top.ev \in Owed'
    BY <1>1, <1>3, <1>6 DEF Walked
  <2>1. CASE p < Top.n
    <3>1. Top.ev \in Owed
      BY <2>1, <1>1 DEF Kept, Walked, Locked
    <3> QED BY <3>1, <1>9 DEF QueuesKept
  <2>2. CASE ~(p < Top.n)
    <3>1. p = Top.n
      BY <2>2, <1>1, <1>3
    <3> QED BY <3>1, <1>9
  <2> QED BY <2>1, <2>2
<1>11. Registered'
  BY <1>1, <1>7 DEF Registered, Kept
<1>12. Remembered'
  BY <1>1, <1>7, <1>8, <1>9 DEF Remembered, Kept, QueuesKept
<1> QED BY <1>9, <1>10, <1>11, <1>12 DEF Kept, QueuesKept

\* e leaves its queue.
LEMMA TakenKept ==
  ASSUME Inv, Kept, NEW e, StackKept, QueuedIsPending', Registered',
         Owed \subseteq Owed' \cup {e}, UNCHANGED status,
         \A x \in OfSignalType \ Leaving' :
           signalCount'[x] = 1 => x # e /\ signalCount[x] = 1
  PROVE  Kept'
<1>1. Walked'
  BY DEF StackKept, Walked
<1>2. Remembered'
  <2> SUFFICES ASSUME NEW x \in OfSignalType \ Leaving',
                      status'[x] = "live", signalCount'[x] = 1
               PROVE  x \in Owed' \cup Walking'
    BY DEF Remembered
  <2>1. x # e /\ signalCount[x] = 1 /\ status[x] = "live" /\ x \in OfSignalType \ Leaving
    BY DEF StackKept
  <2>2. x \in Owed \cup Walking
    BY <2>1 DEF Kept, Remembered
  <2> QED BY <2>1, <2>2 DEF StackKept
<1> QED BY <1>1, <1>2 DEF Kept

LEMMA DispatchTakesKept ==
  ASSUME Inv, Kept, DispatchTakes
  PROVE  Kept'
<1>1. Top.at = "dispatch" /\ Top.to \in Levels /\ queue[Top.to] # <<>>
  BY TopFacts DEF DispatchTakes, At, Inv, Shape, Calling
<1>2. PICK l \in Levels : l = Top.to
  BY <1>1
<1>3. PICK e \in All : e = Head(queue[l])
  <2>1. queue[l] \in Seq(All) /\ queue[l] # <<>>
    BY <1>1, <1>2 DEF Inv, DataOK, QueuesOK
  <2> QED BY <2>1, HeadTailProperties
<1> DEFINE q == queue[l]
           t == Tail(q)
<1>4. /\ queue' = [queue EXCEPT ![l] = t] /\ UNCHANGED <<pending, signalQueue, status>>
      /\ \E f : Release(Append(Below, f), tpl)
      /\ signalCount' = IF e \in OfSignalType THEN [signalCount EXCEPT ![e] = 0]
                                              ELSE signalCount
  BY <1>2, <1>3 DEF DispatchTakes
<1>5. q \in Seq(All) /\ q # <<>>
  BY <1>1, <1>2 DEF Inv, DataOK, QueuesOK
<1>6. /\ t \in Seq(All) /\ Len(t) = Len(q) - 1 /\ Len(q) \in Nat
      /\ \A p \in 1..Len(t) : t[p] = q[p + 1]
      /\ q[1] = e
  BY <1>3, <1>5, HeadTailProperties, LenProperties
<1> HIDE DEF t
<1>7. queue'[l] = t /\ \A m \in Levels : m # l => queue'[m] = queue[m]
  BY <1>4 DEF Inv, DataOK, QueuesOK
<1>8. \A x : TplOf(x)' = TplOf(x)
  BY DEF TplOf
<1>9. ASSUME NEW x \in Owed, x # e
      PROVE  x \in Owed'
  <2>1. x \in All /\ Queued(x) /\ TplOf(x) \in Levels
    BY QueuedAt DEF Owed
  <2>2. CASE TplOf(x) # l
    BY <1>7, <1>8, <2>1, <2>2 DEF Queued, Owed
  <2>3. CASE TplOf(x) = l
    <3>1. PICK p \in 1..Len(q) : q[p] = x
      BY <2>1, <2>3, QueuedAt
    <3>2. p - 1 \in 1..Len(t) /\ p - 1 + 1 = p
      BY <1>6, <1>9, <3>1
    <3>3. t[p - 1] = x
      BY <1>6, <3>1, <3>2
    <3>4. DOMAIN t = 1..Len(t)
      BY <1>6, LenProperties
    <3> QED BY <1>7, <1>8, <2>1, <2>3, <3>2, <3>3, <3>4 DEF Queued, Owed
  <2> QED BY <2>2, <2>3
<1>10. QueuedIsPending'
  BY <1>4, <1>5, <1>7 DEF QueuedIsPending, Kept
<1>11. StackKept
  <2>1. PICK f : Release(Append(Below, f), tpl)
    BY <1>4
  <2>2. Holds(Append(Below, f))
    BY <1>1, HoldsBelow, HoldsAppend DEF Ends, Walks
  <2> QED BY <2>1, <2>2, HeldByRelease
<1>12. Registered'
  BY <1>4, <1>11 DEF Registered, Kept, StackKept
<1>13. \A x \in OfSignalType \ Leaving' :
         signalCount'[x] = 1 => x # e /\ signalCount[x] = 1
  <2>1. signalCount \in [All -> 0..1]
    BY DEF Inv, DataOK
  <2> QED BY <1>4, <2>1
<1> QED BY <1>4, <1>9, <1>10, <1>11, <1>12, <1>13, TakenKept

LEMMA DispatchEndsKept ==
  ASSUME Inv, Kept, DispatchEnds
  PROVE  Kept'
<1>1. /\ Top.at = "dispatch" /\ Top.to \in Levels /\ queue[Top.to] = <<>>
      /\ pending' = pending \ {Top.to} /\ Release(Below, tpl)
      /\ UNCHANGED <<queue, signalQueue, signalCount, status>>
  BY TopFacts DEF DispatchEnds, At, Inv, Shape, Calling
<1>2. Holds(Below)
  BY <1>1, HoldsBelow DEF Ends, Walks
<1>3. StackKept
  BY <1>1, <1>2, HeldByRelease
<1>4. QueuesKept
  <2>1. QueuedIsPending'
    BY <1>1 DEF QueuedIsPending, Kept
  <2>2. \A x : TplOf(x)' = TplOf(x)
    BY DEF TplOf
  <2>3. Owed' = Owed
    BY <1>1, <2>2 DEF Owed, Queued
  <2> QED BY <2>1, <2>3 DEF QueuesKept
<1> QED BY <1>1, <1>3, <1>4, KeptStep

LEMMA HoldsAnswer ==
  ASSUME NEW base \in Seq(Frames), base # <<>>, Holds(base), NEW ready \in BOOLEAN
  PROVE  Holds(Answer(ready, base))
<1>1. Len(base) \in 1..Len(base) /\ base[Len(base)] \in Frames
  BY FrontLast, ElementOfSeq DEF Last
<1>2. CASE base[Len(base)].at # "wait"
  BY <1>2 DEF Answer
<1>3. CASE base[Len(base)].at = "wait" /\ ready
  <2>1. Answer(ready, base) = Front(base)
    BY <1>3 DEF Answer, Front
  <2>2. EvsAt(base, Ends) \subseteq EvsAt(Front(base), Ends)
    BY <1>3, Drops DEF Ends, Last
  <2>3. EvsAt(base, Walks) \subseteq EvsAt(Front(base), Walks)
    BY <1>3, Drops DEF Walks, Last
  <2>4. Front(base) \in Seq(Frames)
    BY FrontLast
  <2> QED BY <2>1, <2>2, <2>3, <2>4 DEF Holds
<1>4. CASE base[Len(base)].at = "wait" /\ ~ready
  <2>1. PICK v \in Int : v = base[Len(base)].n + 1
    BY <1>1 DEF Frames
  <2>2. Answer(ready, base) = [base EXCEPT ![Len(base)].n = v]
    BY <1>4, <2>1 DEF Answer
  <2> QED BY <2>2, CountsHold
<1> QED BY <1>2, <1>3, <1>4

LEMMA LookKept ==
  ASSUME Inv, Kept, Inv', Look
  PROVE  Kept'
<1>1. Top.at = "look" /\ UNCHANGED <<pending, queue, signalQueue, status>>
  BY DEF Look, At
<1>2. Holds(Below)
  BY <1>1, HoldsBelow DEF Ends, Walks
<1>3. Below \in Seq(Frames) /\ Below # <<>>
  <2>1. StackOK(Below, Top.to)
    BY <1>1, TopFacts, Pop DEF Inv
  <2> QED BY <2>1 DEF StackOK, Body
<1>4. \A ready \in BOOLEAN : Holds(Answer(ready, Below))
  BY <1>2, <1>3, HoldsAnswer
<1>5. QueuesKept
  BY <1>1, SameQueuesKept DEF Kept
<1>6. CASE signalCount[Top.ev] = 0
  <2>1. stack' = Answer(FALSE, Below) /\ UNCHANGED <<cpu, signalCount>>
    BY <1>6 DEF Look
  <2>2. tpl' # High
    BY <1>1, <2>1, NotHigh DEF cpu
  <2>3. StackKept
    BY <1>4, <2>1, <2>2, HeldBelowHigh
  <2> QED BY <1>1, <1>5, <2>1, <2>3, KeptStep
<1>7. CASE signalCount[Top.ev] # 0
  <2>1. Release(Answer(TRUE, Below), Top.to) /\ signalCount' = [signalCount EXCEPT ![Top.ev] = 0]
    BY <1>7 DEF Look
  <2>2. StackKept
    BY <1>4, <2>1, HeldByRelease
  <2>3. \A x \in OfSignalType : signalCount'[x] = 1 => signalCount[x] = 1
    <3>1. signalCount \in [All -> 0..1] /\ OfSignalType \subseteq All
      BY EventAssumption DEF Inv, DataOK, OfSignalType, All
    <3> QED BY <2>1, <3>1
  <2> QED BY <1>1, <1>5, <2>2, <2>3, KeptStep
<1> QED BY <1>6, <1>7

LEMMA CheckKept ==
  ASSUME Inv, Kept, Inv', NEW e \in Events, NEW base, Holds(base), tpl # High,
         CoreCheckEvent(e, base), UNCHANGED <<signalQueue, signalCount, status>>
  PROVE  Kept'
<1> DEFINE look == Append(base, Frame("look", tpl, e, 0))
<1>1. Holds(look)
  BY HoldsAppend
<1>2. CASE signalCount[e] = 0 /\ e \in NotifyWait
  <2>1. CoreNotifyEvent(e) /\ Release(look, tpl) /\ e \in All
    BY <1>2 DEF CoreCheckEvent, All
  <2> HIDE DEF look
  <2>2. QueuesKept
    BY <2>1, NotifyKept DEF Kept
  <2>3. StackKept
    BY <1>1, <2>1, HeldByRelease
  <2> QED BY <2>2, <2>3, KeptStep
<1>3. CASE ~(signalCount[e] = 0 /\ e \in NotifyWait)
  <2>1. stack' = look /\ UNCHANGED <<cpu, pending, queue>>
    BY <1>3 DEF CoreCheckEvent
  <2> HIDE DEF look
  <2>2. QueuesKept
    BY <2>1, SameQueuesKept DEF Kept
  <2>3. tpl' # High
    BY <2>1 DEF cpu
  <2>4. StackKept
    BY <1>1, <2>1, <2>3, HeldBelowHigh
  <2> QED BY <2>2, <2>4, KeptStep
<1> QED BY <1>2, <1>3

LEMMA ChecksKept ==
  ASSUME Inv, Kept, Inv', WaitChecks \/ \E e \in Events : CallCheck(e)
  PROVE  Kept'
<1>1. CASE WaitChecks
  <2>1. Top.at = "wait" /\ Top.n \in 1..Len(WaitList)
    <3>1. Len(WaitList) \in Nat
      BY EventAssumption, LenProperties
    <3> QED BY <1>1, <3>1, TopFacts DEF WaitChecks, At, Inv, Shape
  <2>2. PICK e \in Events : e = WaitList[Top.n]
    <3>1. WaitList \in Seq(Events \ NotifySignal)
      BY EventAssumption
    <3>2. WaitList[Top.n] \in Events \ NotifySignal
      BY <2>1, <3>1, ElementOfSeq
    <3> QED BY <3>2
  <2>3. CoreCheckEvent(e, stack) /\ UNCHANGED <<signalQueue, signalCount, status>>
    BY <1>1, <2>2 DEF WaitChecks
  <2>4. tpl # High
    BY <2>1, NotHigh
  <2> QED BY <2>3, <2>4, HoldsStack, CheckKept
<1>2. ASSUME NEW e \in Events, CallCheck(e)
      PROVE  Kept'
  <2>1. Running /\ CoreCheckEvent(e, Caller) /\ UNCHANGED <<signalQueue, signalCount, status>>
    BY <1>2 DEF CallCheck
  <2>2. tpl # High
    BY <2>1, CallerOK
  <2> QED BY <2>1, <2>2, HoldsCaller, CheckKept
<1> QED BY <1>1, <1>2

LEMMA CallCreateKept ==
  ASSUME Inv, Kept, NEW e \in Events, CallCreate(e)
  PROVE  Kept'
<1>1. /\ Running /\ Release(Caller, tpl) /\ UNCHANGED <<pending, queue>>
      /\ status' = [status EXCEPT ![e] = "live"] /\ status[e] = "none"
      /\ signalCount' = [signalCount EXCEPT ![e] = 0]
      /\ signalQueue' = IF e \in NotifySignal THEN <<e>> \o signalQueue ELSE signalQueue
  BY DEF CallCreate
<1>2. StackKept
  BY <1>1, HoldsCaller, HeldByRelease
<1>3. QueuesKept
  BY <1>1, SameQueuesKept DEF Kept
<1>4. \A x \in All : (status'[x] = "live" => x = e \/ status[x] = "live")
                  /\ (signalCount'[x] = 1 => x # e /\ signalCount[x] = 1)
  <2>1. signalCount \in [All -> 0..1] /\ status \in [All -> {"none", "live", "freed"}]
    BY DEF Inv, DataOK
  <2> QED BY <1>1, <2>1
<1>5. OfSignalType \subseteq All /\ NotifySignal \subseteq All
  BY EventAssumption DEF OfSignalType, All
<1>6. Walked'
  BY <1>2 DEF StackKept, Walked
<1>7. Remembered'
  <2> SUFFICES ASSUME NEW x \in OfSignalType \ Leaving',
                      status'[x] = "live", signalCount'[x] = 1
               PROVE  x \in Owed' \cup Walking'
    BY DEF Remembered
  <2>1. x \in OfSignalType \ Leaving /\ status[x] = "live" /\ signalCount[x] = 1
    BY <1>2, <1>4, <1>5 DEF StackKept
  <2>2. x \in Owed \cup Walking
    BY <2>1 DEF Kept, Remembered
  <2> QED BY <1>2, <1>3, <2>2 DEF StackKept, QueuesKept
<1>8. Registered'
  <2> SUFFICES ASSUME NEW x \in NotifySignal \ Leaving', status'[x] = "live"
               PROVE  \E p \in 1..Len(signalQueue') : signalQueue'[p] = x
    BY DEF Registered
  <2>1. x = e \/ \E p \in 1..Len(signalQueue) : signalQueue[p] = x
    BY <1>2, <1>4, <1>5 DEF StackKept, Kept, Registered
  <2>2. CASE e \in NotifySignal
    <3> DEFINE one == <<e>>
    <3>1. one \in Seq(NotifySignal) /\ Len(one) = 1 /\ one[1] = e
      BY <2>2
    <3>2. signalQueue \in Seq(NotifySignal) /\ Len(signalQueue) \in Nat
      BY LenProperties DEF Inv, DataOK
    <3>3. signalQueue' = one \o signalQueue
      BY <1>1, <2>2
    <3> HIDE DEF one
    <3>4. /\ Len(signalQueue') = 1 + Len(signalQueue)
          /\ \A p \in 1..1 + Len(signalQueue) :
               signalQueue'[p] = IF p <= 1 THEN one[p] ELSE signalQueue[p - 1]
      BY <3>1, <3>2, <3>3, ConcatProperties
    <3>5. CASE x = e
      <4>1. 1 \in 1..Len(signalQueue') /\ signalQueue'[1] = e
        BY <3>1, <3>2, <3>4
      <4> QED BY <3>5, <4>1
    <3>6. CASE x # e
      <4>1. PICK p \in 1..Len(signalQueue) : signalQueue[p] = x
        BY <2>1, <3>6
      <4>2. p + 1 \in 1..1 + Len(signalQueue) /\ ~(p + 1 <= 1) /\ p + 1 - 1 = p
        BY <3>2
      <4>3. p + 1 \in 1..Len(signalQueue') /\ signalQueue'[p + 1] = x
        BY <3>4, <4>1, <4>2
      <4> QED BY <4>3
    <3> QED BY <3>5, <3>6
  <2>3. CASE e \notin NotifySignal
    BY <1>1, <2>1, <2>3
  <2> QED BY <2>2, <2>3
<1> QED BY <1>3, <1>6, <1>7, <1>8 DEF Kept, QueuesKept

LEMMA UnlinkKept ==
  ASSUME Inv, Kept, Unlink
  PROVE  Kept'
<1>1. Top.at = "unlink" /\ Top.ev \in Events
  BY TopFacts DEF Unlink, At, Inv, Shape
<1>2. PICK e \in All : e = Top.ev
  BY <1>1 DEF All
<1>3. PICK l \in Levels : l = TplOf(e)
  BY QueuedAt
<1> DEFINE f == [Top EXCEPT !.at = "free"]
           q == queue[l]
           t == Without(q, e)
<1>4. /\ queue' = [queue EXCEPT ![l] = t] /\ UNCHANGED <<pending, signalCount, status>>
      /\ signalQueue' = Without(signalQueue, e) /\ Release(Append(Below, f), Top.to)
  BY <1>2, <1>3 DEF Unlink
<1>5. f.at = "free" /\ f.ev = e
  BY <1>2, TopFacts DEF Inv, Frames
<1>6. /\ q \in Seq(All) /\ t \in Seq(All)
      /\ \A p \in 1..Len(t) : \E i \in 1..Len(q) : t[p] = q[i]
      /\ \A i \in 1..Len(q) : q[i] # e => \E p \in 1..Len(t) : t[p] = q[i]
  <2>1. q \in Seq(All)
    BY <1>3 DEF Inv, DataOK, QueuesOK
  <2> HIDE DEF q
  <2> QED BY <2>1, WithoutElements
<1> HIDE DEF f, t
<1>7. queue'[l] = t /\ \A m \in Levels : m # l => queue'[m] = queue[m]
  BY <1>4 DEF Inv, DataOK, QueuesOK
<1>8. \A x : TplOf(x)' = TplOf(x)
  BY DEF TplOf
<1>9. ASSUME NEW x \in Owed, x # e
      PROVE  x \in Owed'
  <2>1. x \in All /\ Queued(x) /\ TplOf(x) \in Levels
    BY QueuedAt DEF Owed
  <2>2. CASE TplOf(x) # l
    BY <1>7, <1>8, <2>1, <2>2 DEF Queued, Owed
  <2>3. CASE TplOf(x) = l
    <3>1. PICK i \in 1..Len(q) : q[i] = x
      BY <2>1, <2>3, QueuedAt
    <3>2. PICK p \in 1..Len(t) : t[p] = x
      BY <1>6, <1>9, <3>1
    <3>3. DOMAIN t = 1..Len(t)
      BY <1>6, LenProperties
    <3> QED BY <1>7, <1>8, <2>1, <2>3, <3>2, <3>3 DEF Queued, Owed
  <2> QED BY <2>2, <2>3
<1>10. QueuedIsPending'
  <2> SUFFICES ASSUME NEW m \in Levels, queue'[m] # <<>>
               PROVE  m \in pending
    BY <1>4 DEF QueuedIsPending
  <2>1. CASE m = l
    <3>1. t # <<>>
      BY <1>7, <2>1
    <3>2. 1 \in 1..Len(t)
      BY <1>6, <3>1, EmptySeq, LenProperties
    <3>3. PICK i \in 1..Len(q) : t[1] = q[i]
      BY <1>6, <3>2
    <3>4. q # <<>>
      BY <1>6, <3>3, EmptySeq
    <3> QED BY <2>1, <3>4 DEF QueuedIsPending, Kept
  <2>2. CASE m # l
    BY <1>7, <2>2 DEF QueuedIsPending, Kept
  <2> QED BY <2>1, <2>2
<1>11. /\ stack \in Seq(Frames) /\ stack # <<>> /\ Below = Front(stack) /\ Top = Last(stack)
       /\ Below \in Seq(Frames)
  BY TopFacts, EmptySeq, FrontLast DEF Inv
<1>12. e \in EvsAt(Append(Below, f), Ends)
  <2>1. f.at \in Ends
    BY <1>5 DEF Ends
  <2> QED BY <2>1, <1>5, <1>11, Grows
<1>13. Holds(Append(Below, f))
  <2>1. EvsAt(stack, Ends) \subseteq EvsAt(Below, Ends) \cup {e}
    BY <1>2, <1>11, Drops
  <2>2. EvsAt(Below, Ends) \subseteq EvsAt(Append(Below, f), Ends)
    BY <1>11, Grows
  <2>3. EvsAt(stack, Walks) \subseteq EvsAt(Below, Walks)
    BY <1>1, <1>11, Drops DEF Walks
  <2>4. EvsAt(Below, Walks) \subseteq EvsAt(Append(Below, f), Walks)
    BY <1>11, Grows
  <2>5. Append(Below, f) \in Seq(Frames \cup {f})
    BY <1>11, Grows
  <2> QED BY <1>12, <2>1, <2>2, <2>3, <2>4, <2>5 DEF Holds
<1>14. StackKept
  BY <1>4, <1>13, HeldByRelease
<1>15. e \in Leaving'
  <2>1. Append(Below, f) \in Seq(Frames \cup {f})
    BY <1>11, Grows
  <2>2. stack' = Append(Append(Below, f), Restore(Top.to))
    BY <1>4 DEF Release
  <2>3. EvsAt(Append(Below, f), Ends) \subseteq EvsAt(Append(Append(Below, f), Restore(Top.to)), Ends)
    BY <2>1, Grows
  <2> QED BY <1>12, <2>2, <2>3 DEF Leaving
<1>16. Registered'
  <2> SUFFICES ASSUME NEW x \in NotifySignal \ Leaving', status'[x] = "live"
               PROVE  \E p \in 1..Len(signalQueue') : signalQueue'[p] = x
    BY DEF Registered
  <2>1. x # e /\ \E i \in 1..Len(signalQueue) : signalQueue[i] = x
    BY <1>4, <1>14, <1>15 DEF StackKept, Kept, Registered
  <2>2. PICK i \in 1..Len(signalQueue) : signalQueue[i] = x
    BY <2>1
  <2>3. signalQueue \in Seq(NotifySignal)
    BY DEF Inv, DataOK
  <2>4. \E p \in 1..Len(Without(signalQueue, e)) : Without(signalQueue, e)[p] = signalQueue[i]
    BY <2>1, <2>2, <2>3, WithoutElements
  <2> QED BY <1>4, <2>2, <2>4
<1> QED BY <1>4, <1>9, <1>10, <1>14, <1>15, <1>16, TakenKept

LEMMA FreeKept ==
  ASSUME Inv, Kept, Inv', Free
  PROVE  Kept'
<1>1. Top.at = "free" /\ Top.ev \in Events
  BY TopFacts DEF Free, At, Inv, Shape
<1>2. PICK e \in All : e = Top.ev
  BY <1>1 DEF All
<1>3. /\ status' = [status EXCEPT ![e] = "freed"]
      /\ signalCount' = [signalCount EXCEPT ![e] = 0]
      /\ stack' = Below /\ UNCHANGED <<tpl, pending, queue, signalQueue>>
  BY <1>2 DEF Free, cpu
<1>4. /\ stack \in Seq(Frames) /\ stack # <<>> /\ Below = Front(stack) /\ Top = Last(stack)
  BY TopFacts, EmptySeq DEF Inv
<1>5. Leaving \subseteq Leaving' \cup {e}
  BY <1>2, <1>3, <1>4, Drops DEF Leaving
<1>6. Walking \subseteq Walking'
  <2>1. EvsAt(stack, Walks) \subseteq EvsAt(Below, Walks)
    BY <1>1, <1>4, Drops DEF Walks
  <2> QED BY <1>3, <2>1 DEF Walking
<1>7. ~Locked'
  <2>1. tpl' # High
    BY <1>1, <1>3, NotHigh
  <2> QED BY <2>1 DEF Inv, CpuOK, StackOK, Fits, Locked, Top, Last
<1>8. QueuesKept
  BY <1>3, SameQueuesKept DEF Kept
<1>9. \A x \in All : status'[x] = "live" => x # e /\ status[x] = "live"
                                            /\ signalCount'[x] = signalCount[x]
  BY <1>3 DEF Inv, DataOK
<1>10. OfSignalType \subseteq All /\ NotifySignal \subseteq All
  BY EventAssumption DEF OfSignalType, All
<1>11. Walked'
  BY <1>7 DEF Walked
<1>12. Registered'
  <2> SUFFICES ASSUME NEW x \in NotifySignal \ Leaving', status'[x] = "live"
               PROVE  \E p \in 1..Len(signalQueue) : signalQueue[p] = x
    BY <1>3 DEF Registered
  <2>1. x \in NotifySignal \ Leaving /\ status[x] = "live"
    BY <1>5, <1>9, <1>10
  <2> QED BY <2>1 DEF Kept, Registered
<1>13. Remembered'
  <2> SUFFICES ASSUME NEW x \in OfSignalType \ Leaving',
                      status'[x] = "live", signalCount'[x] = 1
               PROVE  x \in Owed' \cup Walking'
    BY DEF Remembered
  <2>1. x \in OfSignalType \ Leaving /\ status[x] = "live" /\ signalCount[x] = 1
    BY <1>5, <1>9, <1>10
  <2>2. x \in Owed \cup Walking
    BY <2>1 DEF Kept, Remembered
  <2> QED BY <1>6, <1>8, <2>2 DEF QueuesKept
<1> QED BY <1>8, <1>11, <1>12, <1>13 DEF Kept, QueuesKept

-----------------------------------------------------------------------------
LEMMA NextKept ==
  ASSUME Inv, Kept, Inv', Next
  PROVE  Kept'
<1>1. CASE Core
  BY <1>1, ListGroupKept, ListNotifiesKept, ListEndsKept, RelockKept, LevelsKept,
     DispatchTakesKept, DispatchEndsKept, TimersKept, SignalsKept, InsertsKept,
     UnlinkKept, FreeKept, LookKept, ChecksKept DEF Core
<1>2. CASE Calls
  BY <1>2, SignalsKept, TimerCallsKept, ChecksKept, CallCreateKept, LevelsKept DEF Calls
<1>3. CASE CallRestore \/ Return
  BY <1>3, LevelsKept
<1>4. CASE \E d \in Durations : Tick(d)
  BY <1>4, TickKept
<1> QED BY <1>1, <1>2, <1>3, <1>4 DEF Next

LEMMA UnchangedKept ==
  ASSUME Kept, UNCHANGED vars
  PROVE  Kept'
<1>1. UNCHANGED <<pending, queue, signalQueue, signalCount, status, stack>>
  BY DEF vars
<1>2. \A x : TplOf(x)' = TplOf(x)
  BY DEF TplOf
<1>3. Owed' = Owed /\ Leaving' = Leaving /\ Walking' = Walking /\ Locked' = Locked /\ Top' = Top
  BY <1>1, <1>2 DEF Owed, Queued, Leaving, Walking, Locked, Top
<1> QED BY <1>1, <1>3 DEF Kept, QueuedIsPending, Remembered, Registered, Walked

LEMMA InitKept ==
  ASSUME Init
  PROVE  Kept
<1>1. QueuedIsPending
  BY DEF Init, QueuedIsPending
<1>2. Remembered
  <2>1. OfSignalType \subseteq All
    BY EventAssumption DEF OfSignalType, All
  <2>2. \A e \in All : signalCount[e] = 0
    BY DEF Init
  <2> QED BY <2>1, <2>2 DEF Remembered
<1>3. Registered
  <2>1. \A e \in NotifySignal : status[e] = "live" => e \in NotifySignal \ Later
    BY EventAssumption DEF Init, All
  <2>2. \A e \in NotifySignal \ Later : \E p \in DOMAIN FirstQueue : FirstQueue[p] = e
    BY EventAssumption
  <2>3. DOMAIN FirstQueue = 1..Len(FirstQueue)
    BY EventAssumption, LenProperties
  <2> QED BY <2>1, <2>2, <2>3 DEF Registered, Init
<1>4. Walked
  BY DEF Init, Walked, Locked, Top, Frame
<1> QED BY <1>1, <1>2, <1>3, <1>4 DEF Kept

\* No signal is lost: an event of signal type whose SignalCount is set is queued or
\* its group is being signalled, unless CloseEvent has begun, and the queue it is on
\* is one that CoreRestoreTpl looks at (Event.c:550-566, Tpl.c:120).
THEOREM SignalsCorrect == Spec => []SignalsAreKept
<1>1. Inv /\ Kept /\ Inv' /\ [Next]_vars => Kept'
  BY NextKept, UnchangedKept
<1>2. Inv /\ Kept => SignalsAreKept
  <2> SUFFICES ASSUME Inv, Kept
               PROVE  NoLostSignal
    BY DEF SignalsAreKept, Kept
  <2> SUFFICES ASSUME NEW e \in OfSignalType \ Closing, status[e] = "live", signalCount[e] = 1
               PROVE  \/ Queued(e)
                      \/ \E p \in FramesAt({"group", "list"}) : stack[p].ev = e
    BY DEF NoLostSignal
  <2>1. e \in Owed \cup Walking
    BY Closings DEF Kept, Remembered
  <2> QED BY <2>1, Closings DEF Owed
<1> QED BY <1>1, <1>2, InitKept, InvHolds, PTL DEF Spec

-----------------------------------------------------------------------------
(* The first timer of the list is the one that is due earliest, nothing      *)
(* refers to a closed event, and the services implement Notifications.       *)

USE DEF Tpls, Levels, Application, Callback, Notify, TimerLevel, High,
        TimerLabels, TimerSections, CheckSections

\* The timers that a section under mEfiTimerLock has taken off the list.
Holding == {"insert", "signal", "rearm"}
Held == EvsAt(stack, Holding)
Times(s, d) ==
  \A p, q \in 1..Len(s) : p < q => s[p] # s[q] /\ d[s[p]] <= d[s[q]]
Away(s, h) == \A p \in 1..Len(s) : s[p] \notin h
Timely == Times(timers, due) /\ Away(timers, Held)

-----------------------------------------------------------------------------
(* Stacks that hold no more timers than the stack.                           *)

LEMMA GrowsBy ==
  ASSUME NEW S, NEW s \in Seq(S), NEW f, NEW L
  PROVE  EvsAt(Append(s, f), L) \subseteq EvsAt(s, L) \cup (IF f.at \in L THEN {f.ev} ELSE {})
<1> DEFINE t == Append(s, f)
<1>1. /\ Len(t) = Len(s) + 1 /\ Len(s) \in Nat
      /\ \A i \in 1..Len(s) : t[i] = s[i]
      /\ t[Len(s) + 1] = f
  BY AnyAppended
<1> HIDE DEF t
<1>2. ASSUME NEW x \in EvsAt(t, L)
      PROVE  x \in EvsAt(s, L) \/ (f.at \in L /\ x = f.ev)
  <2>1. PICK i \in 1..Len(t) : t[i].at \in L /\ t[i].ev = x
    BY DEF EvsAt
  <2>2. CASE i = Len(s) + 1
    BY <1>1, <2>1, <2>2
  <2>3. CASE i \in 1..Len(s)
    BY <1>1, <2>1, <2>3 DEF EvsAt
  <2>4. i = Len(s) + 1 \/ i \in 1..Len(s)
    BY <1>1
  <2> QED BY <2>2, <2>3, <2>4
<1> QED BY <1>2 DEF t

LEMMA DropsFrom ==
  ASSUME NEW s \in Seq(Frames), s # <<>>, NEW L
  PROVE  EvsAt(Front(s), L) \subseteq EvsAt(s, L)
<1> DEFINE t == Front(s)
<1>1. /\ Len(t) = Len(s) - 1 /\ Len(s) \in Nat \ {0}
      /\ \A i \in 1..Len(s) - 1 : t[i] = s[i]
  BY FrontLast
<1> HIDE DEF t
<1>2. \A i \in 1..Len(t) : i \in 1..Len(s) /\ t[i] = s[i]
  BY <1>1
<1> QED BY <1>2 DEF EvsAt, t

Less(base) ==
  /\ \E S : base \in Seq(S)
  /\ EvsAt(base, Holding) \subseteq Held

LEMMA LessStack ==
  ASSUME Inv
  PROVE  Less(stack)
BY TopFacts DEF Inv, Less, Held

LEMMA LessBelow ==
  ASSUME Inv
  PROVE  Less(Below)
<1>1. stack \in Seq(Frames) /\ stack # <<>> /\ Below = Front(stack)
  BY TopFacts, EmptySeq DEF Inv
<1>2. Front(stack) \in Seq(Frames)
  BY <1>1, FrontLast
<1> QED BY <1>1, <1>2, DropsFrom DEF Less, Held

LEMMA LessAppend ==
  ASSUME NEW s, Less(s), NEW f, f.at \in Holding => f.ev \in Held
  PROVE  Less(Append(s, f))
<1>1. PICK S : s \in Seq(S)
  BY DEF Less
<1>2. Append(s, f) \in Seq(S \cup {f})
  BY <1>1, Grows
<1>3. EvsAt(Append(s, f), Holding) \subseteq
        EvsAt(s, Holding) \cup (IF f.at \in Holding THEN {f.ev} ELSE {})
  BY <1>1, GrowsBy
<1> QED BY <1>2, <1>3 DEF Less

LEMMA LessSame ==
  ASSUME NEW s, NEW t, Less(s), Len(t) = Len(s), \E S : t \in Seq(S),
         \A i \in 1..Len(s) : t[i].at = s[i].at /\ t[i].ev = s[i].ev
  PROVE  Less(t)
<1>1. EvsAt(t, Holding) = EvsAt(s, Holding)
  BY SameEvs
<1> QED BY <1>1 DEF Less

LEMMA CountsLess ==
  ASSUME NEW s \in Seq(Frames), s # <<>>, Less(s), NEW v \in Int,
         NEW t, t = [s EXCEPT ![Len(s)].n = v]
  PROVE  Less(t)
<1>1. Len(s) \in 1..Len(s) /\ s[Len(s)] \in Frames
  BY FrontLast, ElementOfSeq DEF Last
<1>2. PICK f \in Frames : f = s[Len(s)]
  BY <1>1
<1> DEFINE g == [f EXCEPT !.n = v]
<1>3. g \in Frames /\ g.at = f.at /\ g.ev = f.ev
  BY DEF Frames
<1>4. t = [s EXCEPT ![Len(s)] = g]
  BY <1>2
<1> HIDE DEF g
<1>5. /\ t \in Seq(Frames) /\ Len(t) = Len(s)
      /\ \A i \in 1..Len(s) : t[i] = IF i = Len(s) THEN g ELSE s[i]
  BY <1>1, <1>3, <1>4, ExceptSeq
<1>6. \A i \in 1..Len(s) : t[i].at = s[i].at /\ t[i].ev = s[i].ev
  BY <1>2, <1>3, <1>5
<1> QED BY <1>5, <1>6, LessSame

LEMMA LessCaller ==
  ASSUME Inv, Running
  PROVE  Less(Caller)
<1>1. CASE Top.ev = App
  BY <1>1, LessStack DEF Caller
<1>2. CASE Top.ev # App
  <2>1. PICK v \in Int : v = Top.n - 1
    BY TopFacts DEF Inv, Frames
  <2>2. Caller = [stack EXCEPT ![Len(stack)].n = v]
    BY <1>2, <2>1 DEF Caller, Top
  <2>3. stack \in Seq(Frames) /\ stack # <<>>
    BY TopFacts, EmptySeq DEF Inv
  <2> QED BY <2>2, <2>3, LessStack, CountsLess
<1> QED BY <1>1, <1>2

LEMMA LessAnswer ==
  ASSUME NEW base \in Seq(Frames), base # <<>>, Less(base), NEW ready \in BOOLEAN
  PROVE  Less(Answer(ready, base))
<1>1. Len(base) \in 1..Len(base) /\ base[Len(base)] \in Frames
  BY FrontLast, ElementOfSeq DEF Last
<1>2. CASE base[Len(base)].at # "wait"
  BY <1>2 DEF Answer
<1>3. CASE base[Len(base)].at = "wait" /\ ready
  <2>1. Answer(ready, base) = Front(base)
    BY <1>3 DEF Answer, Front
  <2>2. EvsAt(Front(base), Holding) \subseteq EvsAt(base, Holding)
    BY DropsFrom
  <2>3. Front(base) \in Seq(Frames)
    BY FrontLast
  <2> QED BY <2>1, <2>2, <2>3 DEF Less
<1>4. CASE base[Len(base)].at = "wait" /\ ~ready
  <2>1. PICK v \in Int : v = base[Len(base)].n + 1
    BY <1>1 DEF Frames
  <2>2. Answer(ready, base) = [base EXCEPT ![Len(base)].n = v]
    BY <1>4, <2>1 DEF Answer
  <2> QED BY <2>2, CountsLess
<1> QED BY <1>2, <1>3, <1>4

LEMMA LessRelease ==
  ASSUME NEW base, Less(base), NEW owner, Release(base, owner)
  PROVE  Held' \subseteq Held
<1> DEFINE f == Restore(owner)
<1>1. stack' = Append(base, f) /\ f.at = "restore"
  BY DEF Release, Restore, Frame
<1> HIDE DEF f
<1>2. Less(Append(base, f))
  BY <1>1, LessAppend DEF Holding
<1> QED BY <1>1, <1>2 DEF Less, Held

LEMMA Untimed ==
  ASSUME Timely, Held' \subseteq Held, UNCHANGED <<timers, due>>
  PROVE  Timely'
BY DEF Timely, Times, Away

-----------------------------------------------------------------------------
(* Actions that leave the timers alone.                                      *)

LEMMA WalksUntimed ==
  ASSUME Inv, ListGroup \/ ListNotifies \/ ListEnds \/ Relock
  PROVE  Held' \subseteq Held
<1> USE DEF Holding
<1>1. Top \in Frames /\ Less(Below)
  BY TopFacts, LessBelow DEF Inv
<1>2. CASE ListGroup
  <2>1. PICK n, f : f = [Top EXCEPT !.at = "list", !.n = n] /\ stack' = Append(Below, f)
    BY <1>2 DEF ListGroup
  <2>2. f.at = "list"
    BY <1>1, <2>1 DEF Frames
  <2>3. Less(Append(Below, f))
    BY <1>1, <2>2, LessAppend
  <2> QED BY <2>1, <2>3 DEF Less, Held
<1>3. CASE ListNotifies
  <2>1. PICK n, f : f = [Top EXCEPT !.n = n] /\ stack' = Append(Below, f)
    BY <1>3 DEF ListNotifies
  <2>2. f.at = "list"
    BY <1>1, <1>3, <2>1 DEF Frames, ListNotifies, At
  <2>3. Less(Append(Below, f))
    BY <1>1, <2>2, LessAppend
  <2> QED BY <2>1, <2>3 DEF Less, Held
<1>4. CASE ListEnds
  <2>1. PICK f : f = [Top EXCEPT !.at = "relock"] /\ Release(Append(Below, f), Top.to)
    BY <1>4 DEF ListEnds
  <2>2. f.at = "relock"
    BY <1>1, <2>1 DEF Frames
  <2>3. Less(Append(Below, f))
    BY <1>1, <2>2, LessAppend
  <2> QED BY <2>1, <2>3, LessRelease
<1>5. CASE Relock
  BY <1>1, <1>5, LessRelease DEF Relock
<1> QED BY <1>2, <1>3, <1>4, <1>5

LEMMA LevelsUntimed ==
  ASSUME Inv, \/ RestoreDispatches \/ RestoreEnds \/ RestoreLowers \/ EndOfInterrupt \/ Return
              \/ CallRestore \/ CallNotify \/ DispatchTakes \/ DispatchEnds \/ ExpireEnds
  PROVE  Held' \subseteq Held
<1> USE DEF Holding
<1>1. Top \in Frames /\ Less(Below) /\ Less(stack)
  BY TopFacts, LessBelow, LessStack DEF Inv
<1>2. CASE RestoreLowers \/ EndOfInterrupt \/ Return \/ ExpireEnds
  BY <1>1, <1>2 DEF RestoreLowers, EndOfInterrupt, Return, ExpireEnds, Less, Held
<1>3. CASE RestoreEnds
  <2>1. PICK f : f = [Top EXCEPT !.at = "lower"]
    OBVIOUS
  <2>2. f.at = "lower"
    BY <1>1, <2>1 DEF Frames
  <2>3. stack' = Below \/ stack' = Append(Below, f)
    BY <1>3, <2>1 DEF RestoreEnds
  <2>4. Less(Append(Below, f))
    BY <1>1, <2>2, LessAppend
  <2> QED BY <1>1, <2>3, <2>4 DEF Less, Held
<1>4. CASE RestoreDispatches \/ CallRestore
  <2>1. \E f : f.at \in {"dispatch", "restore"} /\ stack' = Append(stack, f)
    BY <1>4 DEF RestoreDispatches, CallRestore, Restore, Frame
  <2>2. Less(stack')
    BY <1>1, <2>1, LessAppend
  <2> QED BY <2>2 DEF Less, Held
<1>5. CASE CallNotify
  <2>1. PICK f, g : /\ f.at = "dispatch" /\ g.at \in {"expire", "code"}
                    /\ stack' = Append(Append(Below, f), g)
    <3> DEFINE f == Frame("dispatch", Top.to, App, 0)
               g == IF Top.ev = CheckTimers THEN Frame("expire", Top.to, App, 0)
                    ELSE Frame("code", Top.to, Top.ev, MaxOps)
    <3>1. f.at = "dispatch" /\ g.at \in {"expire", "code"}
      BY DEF Frame
    <3>2. stack' = Append(Append(Below, f), g)
      BY <1>5 DEF CallNotify
    <3> HIDE DEF f, g
    <3> QED BY <3>1, <3>2
  <2>2. Less(Append(Below, f))
    BY <1>1, <2>1, LessAppend
  <2>3. Less(stack')
    BY <2>1, <2>2, LessAppend
  <2> QED BY <2>3 DEF Less, Held
<1>6. CASE DispatchTakes
  <2>1. PICK f : f.at = "notify" /\ Release(Append(Below, f), tpl)
    BY <1>6 DEF DispatchTakes, Frame
  <2>2. Less(Append(Below, f))
    BY <1>1, <2>1, LessAppend
  <2> QED BY <2>1, <2>2, LessRelease
<1>7. CASE DispatchEnds
  BY <1>1, <1>7, LessRelease DEF DispatchEnds
<1> QED BY <1>2, <1>3, <1>4, <1>5, <1>6, <1>7

LEMMA CoreSignalUntimed ==
  ASSUME NEW e, NEW base, Less(base), NEW t, CoreSignalEvent(e, base, t)
  PROVE  Held' \subseteq Held
<1> DEFINE g == Frame("group", t, e, 0)
<1>1. Release(base, t) \/ Release(Append(base, g), t)
  BY DEF CoreSignalEvent
<1>2. g.at = "group"
  BY DEF Frame
<1> HIDE DEF g
<1>3. Less(Append(base, g))
  BY <1>2, LessAppend DEF Holding
<1> QED BY <1>1, <1>3, LessRelease

LEMMA CheckUntimed ==
  ASSUME NEW e, NEW base, Less(base), CoreCheckEvent(e, base)
  PROVE  Held' \subseteq Held
<1> DEFINE g == Frame("look", tpl, e, 0)
<1>1. Release(Append(base, g), tpl) \/ stack' = Append(base, g)
  BY DEF CoreCheckEvent
<1>2. g.at = "look"
  BY DEF Frame
<1> HIDE DEF g
<1>3. Less(Append(base, g))
  BY <1>2, LessAppend DEF Holding
<1> QED BY <1>1, <1>3, LessRelease DEF Less, Held

LEMMA EventsUntimed ==
  ASSUME Inv, ExpireSignals \/ WaitIdles \/ WaitChecks \/ Unlink \/ Free \/ Look
  PROVE  Held' \subseteq Held
<1>1. Top \in Frames /\ Less(Below) /\ Less(stack) /\ Top = Last(stack)
      /\ stack \in Seq(Frames) /\ Len(stack) \in Nat \ {0}
  BY TopFacts, LessBelow, LessStack DEF Inv
<1>2. CASE ExpireSignals
  <2>1. PICK f : f = [Top EXCEPT !.at = "rearm"] /\ CoreSignalEvent(Top.ev, Append(Below, f), tpl)
    BY <1>2 DEF ExpireSignals
  <2>2. f.ev = Top.ev
    BY <1>1, <2>1 DEF Frames
  <2>3. Top.ev \in Held
    BY <1>1, <1>2 DEF ExpireSignals, At, Held, EvsAt, Holding, Last
  <2>4. Less(Append(Below, f))
    BY <1>1, <2>2, <2>3, LessAppend
  <2> QED BY <2>1, <2>4, CoreSignalUntimed
<1>3. CASE WaitIdles
  <2>1. PICK f : f = [Top EXCEPT !.n = 1] /\ CoreSignalEvent(Idle, Append(Below, f), tpl)
    BY <1>3 DEF WaitIdles
  <2>2. f.at = "wait"
    BY <1>1, <1>3, <2>1 DEF Frames, WaitIdles, At
  <2>3. Less(Append(Below, f))
    BY <1>1, <2>2, LessAppend DEF Holding
  <2> QED BY <2>1, <2>3, CoreSignalUntimed
<1>4. CASE WaitChecks
  BY <1>1, <1>4, CheckUntimed DEF WaitChecks
<1>5. CASE Unlink
  <2>1. PICK f : f = [Top EXCEPT !.at = "free"] /\ Release(Append(Below, f), Top.to)
    BY <1>5 DEF Unlink
  <2>2. f.at = "free"
    BY <1>1, <2>1 DEF Frames
  <2>3. Less(Append(Below, f))
    BY <1>1, <2>2, LessAppend DEF Holding
  <2> QED BY <2>1, <2>3, LessRelease
<1>6. CASE Free
  BY <1>1, <1>6 DEF Free, Less, Held
<1>7. CASE Look
  <2>1. StackOK(Below, Top.to)
    BY <1>7, TopFacts, Pop DEF Inv, Look, At
  <2>2. \A ready \in BOOLEAN : Less(Answer(ready, Below))
    BY <1>1, <2>1, LessAnswer DEF StackOK, Body
  <2>3. stack' = Answer(FALSE, Below) \/ Release(Answer(TRUE, Below), Top.to)
    BY <1>7 DEF Look
  <2> QED BY <2>2, <2>3, LessRelease DEF Less, Held
<1> QED BY <1>2, <1>3, <1>4, <1>5, <1>6, <1>7

LEMMA CallsUntimed ==
  ASSUME Inv, Calls
  PROVE  Held' \subseteq Held
<1>1. Running
  BY DEF Calls, CallSignal, CallClose, CallCheck, CallCreate, CallSetTimer, CallWait, CallRaise
<1>2. Less(Caller)
  BY <1>1, LessCaller
<1>3. ASSUME NEW e \in Events, CallSignal(e) \/ CallCheck(e) \/ CallCreate(e)
      PROVE  Held' \subseteq Held
  BY <1>2, <1>3, CoreSignalUntimed, CheckUntimed, LessRelease
     DEF CallSignal, CallCheck, CallCreate
<1>4. ASSUME NEW e \in Events, CallClose(e)
      PROVE  Held' \subseteq Held
  <2>1. \E f : /\ f.at = "unlink"
               /\ \/ stack' = Append(Caller, f)
                  \/ \E g : g.at = "TimerCancel" /\ stack' = Append(Append(Caller, f), g)
    BY <1>4 DEF CallClose, Frame
  <2>2. Less(stack')
    BY <1>2, <2>1, LessAppend DEF Holding
  <2> QED BY <2>2 DEF Less, Held
<1>5. ASSUME NEW a \in Arms, CallSetTimer(a[2], a[3], a[4])
      PROVE  Held' \subseteq Held
  <2>1. \E f : f.at = a[3] /\ stack' = Append(Caller, f)
    BY <1>5 DEF CallSetTimer, Frame
  <2>2. a[3] \notin Holding
    BY EventAssumption DEF Holding, TimerTypes
  <2>3. Less(stack')
    BY <1>2, <2>1, <2>2, LessAppend
  <2> QED BY <2>3 DEF Less, Held
<1>6. ASSUME CallWait \/ \E l \in {Callback, Notify} : CallRaise(l)
      PROVE  Held' \subseteq Held
  <2>1. stack' = Caller \/ \E f : f.at = "wait" /\ stack' = Append(Caller, f)
    BY <1>6 DEF CallWait, CallRaise, Frame
  <2>2. Less(stack')
    BY <1>2, <2>1, LessAppend DEF Holding
  <2> QED BY <2>2 DEF Less, Held
<1> QED BY <1>3, <1>4, <1>5, <1>6 DEF Calls

-----------------------------------------------------------------------------
(* Taking a timer off the list and inserting one.                            *)

LEMMA RemovedOrdered ==
  ASSUME NEW s \in Seq(Timers), NEW e, NEW d, NEW f, Times(s, d),
         \A x \in Timers : x # e => f[x] = d[x],
         NEW h, Away(s, h)
  PROVE  /\ Times(Without(s, e), f)
         /\ Away(Without(s, e), h \cup {e})
<1> DEFINE n == Len(s)
           c == Without(s, e)
<1>1. n \in Nat /\ DOMAIN s = 1..n /\ \A p \in 1..n : s[p] \in Timers
  BY LenProperties, ElementOfSeq
<1>2. CASE \A p \in 1..n : s[p] # e
  <2>1. c = s
    BY <1>1, <1>2 DEF Without
  <2>2. \A p \in 1..n : f[s[p]] = d[s[p]]
    BY <1>1, <1>2
  <2>3. Times(s, f)
    BY <2>2 DEF Times
  <2>4. Away(s, h \cup {e})
    BY <1>2 DEF Away
  <2> QED BY <2>1, <2>3, <2>4
<1>3. CASE \E p \in 1..n : s[p] = e
  <2>1. PICK k \in 1..n : s[k] = e /\
          \A p \in 1..n - 1 : c[p] = IF p < k THEN s[p] ELSE s[p + 1]
    BY <1>3, WithoutForm
  <2>2. Len(c) = n - 1
    BY <1>3, WithoutForm
  <2> HIDE DEF c, n
  <2>3. ASSUME NEW p \in 1..Len(c)
        PROVE  \E i \in 1..n : /\ i = (IF p < k THEN p ELSE p + 1)
                               /\ c[p] = s[i] /\ i # k
    <3>1. CASE p < k
      BY <1>1, <2>1, <2>2, <3>1
    <3>2. CASE ~(p < k)
      <4>1. p + 1 \in 1..n /\ c[p] = s[p + 1] /\ p + 1 # k
        BY <1>1, <2>1, <2>2, <3>2
      <4> QED BY <3>2, <4>1
    <3> QED BY <3>1, <3>2
  <2>4. ASSUME NEW i \in 1..n, i # k
        PROVE  s[i] # e /\ f[s[i]] = d[s[i]]
    <3>1. i < k \/ k < i
      BY <1>1, <2>4
    <3>2. s[i] # s[k]
      BY <3>1 DEF Times, n
    <3> QED BY <1>1, <2>1, <3>2
  <2>5. ASSUME NEW p \in 1..Len(c), NEW q \in 1..Len(c), p < q
        PROVE  c[p] # c[q] /\ f[c[p]] <= f[c[q]]
    <3>1. PICK i \in 1..n : i = (IF p < k THEN p ELSE p + 1) /\ c[p] = s[i] /\ i # k
      BY <2>3
    <3>2. PICK j \in 1..n : j = (IF q < k THEN q ELSE q + 1) /\ c[q] = s[j] /\ j # k
      BY <2>3
    <3>3. i < j
      BY <1>1, <2>2, <2>5, <3>1, <3>2
    <3>4. s[i] # s[j] /\ d[s[i]] <= d[s[j]]
      BY <3>3 DEF Times, n
    <3> QED BY <2>4, <3>1, <3>2, <3>4
  <2>6. \A p \in 1..Len(c) : c[p] \notin h \cup {e}
    BY <2>3, <2>4 DEF Away, n
  <2> QED BY <2>5, <2>6 DEF Times, Away, c
<1> QED BY <1>2, <1>3

LEMMA InsertedOrdered ==
  ASSUME NEW e \in Timers, NEW d \in [Events -> Int], timers \in Seq(Timers),
         CoreInsertEventTimer(e, d), Times(timers, d),
         \A p \in 1..Len(timers) : timers[p] # e
  PROVE  Times(timers', d)
<1> DEFINE n == Len(timers)
           c == timers'
<1>1. n \in Nat /\ \A p \in 1..n : d[timers[p]] \in Int
  <2>1. \A p \in 1..n : timers[p] \in Timers
    BY ElementOfSeq
  <2> QED BY <2>1, LenProperties, EventAssumption
<1>2. d[e] \in Int
  BY EventAssumption
<1>3. PICK k \in 0..n :
        /\ \A p \in 1..k : d[timers[p]] <= d[e]
        /\ k < n => d[timers[k + 1]] > d[e]
        /\ Len(c) = n + 1
        /\ c[k + 1] = e
        /\ \A p \in 1..k : c[p] = timers[p]
        /\ \A p \in k + 1..n : c[p + 1] = timers[p]
  BY InsertForm
<1>4. \A i, j \in 1..n : i < j => timers[i] # timers[j] /\ d[timers[i]] <= d[timers[j]]
  BY DEF Times
<1>5. \A i \in 1..n : timers[i] # e
  OBVIOUS
<1> HIDE DEF c, n
<1>6. \A i \in k + 1..n : d[e] <= d[timers[i]]
  <2> SUFFICES ASSUME NEW i \in k + 1..n
               PROVE  d[e] <= d[timers[i]]
    OBVIOUS
  <2>1. k < n /\ k + 1 \in 1..n /\ i \in 1..n
    BY <1>1
  <2>2. d[timers[k + 1]] > d[e]
    BY <1>3, <2>1
  <2>3. i = k + 1 \/ d[timers[k + 1]] <= d[timers[i]]
    BY <1>1, <1>4, <2>1
  <2> QED BY <1>1, <1>2, <2>1, <2>2, <2>3
<1>7. ASSUME NEW p \in 1..n + 1
      PROVE  \/ p \in 1..k /\ p \in 1..n /\ c[p] = timers[p] /\ d[timers[p]] <= d[e]
             \/ p = k + 1 /\ c[p] = e
             \/ \E i \in k + 1..n : i = p - 1 /\ i \in 1..n /\ c[p] = timers[i]
  <2>1. CASE p <= k
    BY <1>1, <1>3, <2>1
  <2>2. CASE p = k + 1
    BY <1>3, <2>2
  <2>3. CASE p > k + 1
    <3>1. p - 1 \in k + 1..n /\ p - 1 + 1 = p /\ p - 1 \in 1..n
      BY <1>1, <2>3
    <3>2. c[p] = timers[p - 1]
      <4>1. PICK i \in k + 1..n : i = p - 1 /\ i + 1 = p
        BY <3>1
      <4>2. c[i + 1] = timers[i]
        BY <1>3
      <4> QED BY <4>1, <4>2
    <3> QED BY <3>1, <3>2
  <2> QED BY <1>1, <2>1, <2>2, <2>3
<1>8. ASSUME NEW p \in 1..n + 1, NEW q \in 1..n + 1, p < q
      PROVE  c[p] # c[q] /\ d[c[p]] <= d[c[q]]
  <2>1. CASE p \in 1..k /\ p \in 1..n /\ c[p] = timers[p] /\ d[timers[p]] <= d[e]
    <3>1. CASE q \in 1..n /\ c[q] = timers[q]
      BY <1>4, <1>8, <2>1, <3>1
    <3>2. CASE c[q] = e
      BY <1>5, <2>1, <3>2
    <3>3. CASE \E i \in k + 1..n : i = q - 1 /\ i \in 1..n /\ c[q] = timers[i]
      <4>1. PICK i \in k + 1..n : i \in 1..n /\ c[q] = timers[i]
        BY <3>3
      <4>2. p < i
        BY <1>1, <2>1, <4>1
      <4> QED BY <1>4, <2>1, <4>1, <4>2
    <3> QED BY <1>7, <3>1, <3>2, <3>3
  <2>2. CASE p = k + 1 /\ c[p] = e
    <3>1. ~(q \in 1..k) /\ q # k + 1
      BY <1>1, <1>8, <2>2
    <3>2. PICK i \in k + 1..n : i \in 1..n /\ c[q] = timers[i]
      BY <1>7, <3>1
    <3> QED BY <1>5, <1>6, <2>2, <3>2
  <2>3. CASE \E i \in k + 1..n : i = p - 1 /\ i \in 1..n /\ c[p] = timers[i]
    <3>1. PICK i \in k + 1..n : i = p - 1 /\ i \in 1..n /\ c[p] = timers[i]
      BY <2>3
    <3>2. ~(q \in 1..k) /\ q # k + 1
      BY <1>1, <1>8, <3>1
    <3>3. PICK j \in k + 1..n : j = q - 1 /\ j \in 1..n /\ c[q] = timers[j]
      BY <1>7, <3>2
    <3>4. i < j
      BY <1>1, <1>8, <3>1, <3>3
    <3> QED BY <1>4, <3>1, <3>3, <3>4
  <2> QED BY <1>7, <2>1, <2>2, <2>3
<1> QED BY <1>3, <1>8 DEF Times, c

-----------------------------------------------------------------------------
(* The sections under mEfiTimerLock.                                         *)

\* No two of them are under way.
LEMMA NoneBelow ==
  ASSUME Inv, Top.at \in TimerLabels
  PROVE  EvsAt(Below, Holding) = {}
<1>1. /\ Body(stack) /\ Top = Last(stack) /\ Below = Front(stack)
      /\ stack \in Seq(Frames) /\ Len(stack) \in Nat \ {0}
  BY TopFacts DEF Inv
<1>2. Len(Below) = Len(stack) - 1 /\ \A i \in 1..Len(stack) - 1 : Below[i] = stack[i]
  BY <1>1, EmptySeq, FrontLast
<1>3. ASSUME NEW i \in 1..Len(Below)
      PROVE  Below[i].at \notin Holding
  <2>1. i \in 1..Len(stack) /\ Len(stack) \in 1..Len(stack) /\ i < Len(stack)
        /\ Below[i] = stack[i]
    BY <1>1, <1>2
  <2>2. Over(stack[i], stack[Len(stack)])
    BY <1>1, <2>1 DEF Body
  <2>3. stack[i].at \notin TimerLabels
    BY <1>1, <2>2 DEF Over, Last
  <2> QED BY <2>1, <2>3 DEF Holding
<1> QED BY <1>3 DEF EvsAt

LEMMA HeldNext ==
  ASSUME Inv, Top.at \in TimerLabels, NEW f, stack' = Append(Below, f)
  PROVE  /\ Held' \subseteq {f.ev}
         /\ f.at \notin Holding => Held' = {}
<1>1. Below \in Seq(Frames)
  BY TopFacts, EmptySeq, FrontLast DEF Inv
<1>2. EvsAt(Append(Below, f), Holding) \subseteq
        EvsAt(Below, Holding) \cup (IF f.at \in Holding THEN {f.ev} ELSE {})
  BY <1>1, GrowsBy
<1>3. EvsAt(Below, Holding) = {}
  BY NoneBelow
<1> QED BY <1>2, <1>3 DEF Held

LEMMA HeldOnTop ==
  ASSUME Inv, Timely, Top.at \in Holding
  PROVE  \A p \in 1..Len(timers) : timers[p] # Top.ev
<1>1. Len(stack) \in 1..Len(stack) /\ Top = stack[Len(stack)]
  BY TopFacts DEF Inv, Top
<1>2. Top.ev \in Held
  BY <1>1 DEF Held, EvsAt
<1> QED BY <1>2 DEF Timely, Away

LEMMA ExpireTakesTimely ==
  ASSUME Inv, Timely, ExpireTakes
  PROVE  Timely'
<1>1. Top.at = "expire" /\ Top \in Frames
  BY TopFacts DEF ExpireTakes, At, Inv
<1>2. timers \in Seq(Timers) /\ timers # <<>>
  BY DEF ExpireTakes, HeadExpired, Inv, DataOK
<1>3. PICK e : e = Head(timers)
  OBVIOUS
<1>4. PICK f : f = [Top EXCEPT !.at = "signal", !.ev = e]
  OBVIOUS
<1>5. stack' = Append(Below, f) /\ timers' = Tail(timers) /\ UNCHANGED due
  BY <1>3, <1>4 DEF ExpireTakes
<1>6. f.ev = e
  BY <1>1, <1>4 DEF Frames
<1>7. Held' \subseteq {e}
  BY <1>1, <1>5, <1>6, HeldNext
<1> DEFINE c == timers'
<1>8. /\ Len(timers) \in Nat \ {0} /\ timers[1] = e /\ Len(c) = Len(timers) - 1
      /\ \A p \in 1..Len(c) : c[p] = timers[p + 1]
  <2>1. Len(timers) \in Nat \ {0}
    BY <1>2, EmptySeq, LenProperties
  <2> QED BY <1>2, <1>3, <1>5, <2>1, HeadTailProperties
<1> HIDE DEF c
<1>9. \A p \in 1..Len(c) : p + 1 \in 1..Len(timers) /\ 1 < p + 1 /\ c[p] = timers[p + 1]
  BY <1>8
<1>10. Times(c, due)
  <2> SUFFICES ASSUME NEW p \in 1..Len(c), NEW q \in 1..Len(c), p < q
               PROVE  c[p] # c[q] /\ due[c[p]] <= due[c[q]]
    BY DEF Times
  <2>1. p + 1 < q + 1
    BY <1>8
  <2> QED BY <1>9, <2>1 DEF Timely, Times
<1>11. Away(c, {e})
  <2>1. 1 \in 1..Len(timers)
    BY <1>8
  <2> QED BY <1>8, <1>9, <2>1 DEF Timely, Times, Away
<1> QED BY <1>5, <1>7, <1>10, <1>11 DEF Timely, Times, Away, c

LEMMA CancelTimely ==
  ASSUME Inv, Timely, CancelTimer
  PROVE  Timely'
<1>1. Top.at = "TimerCancel"
  BY DEF CancelTimer, At
<1>2. PICK e : e = Top.ev
  OBVIOUS
<1>3. PICK f : f = Restore(Top.to)
  OBVIOUS
<1>4. /\ timers' = Without(timers, e) /\ due' = [due EXCEPT ![e] = 0]
      /\ stack' = Append(Below, f)
  BY <1>2, <1>3 DEF CancelTimer
<1>5. f.at \notin Holding
  BY <1>3 DEF Restore, Frame, Holding
<1>6. Held' = {}
  BY <1>1, <1>4, <1>5, HeldNext
<1>7. timers \in Seq(Timers) /\ due \in [Events -> Int]
  BY DEF Inv, DataOK
<1>8. \A x \in Timers : x # e => due'[x] = due[x]
  BY <1>4, <1>7, EventAssumption
<1>9. Times(Without(timers, e), due')
  BY <1>7, <1>8, RemovedOrdered DEF Timely
<1> QED BY <1>4, <1>6, <1>9 DEF Timely, Times, Away

LEMMA SetTimely ==
  ASSUME Inv, Timely, SetTimer
  PROVE  Timely'
<1>1. Top.at \in {"TimerPeriodic", "TimerRelative"} /\ Top \in Frames
  BY TopFacts DEF SetTimer, Inv
<1>2. PICK e : e = Top.ev
  OBVIOUS
<1>3. \E delay : /\ timers' = Without(timers, e)
                 /\ due' = [due EXCEPT ![e] = delay]
                 /\ stack' = Append(Below, [Top EXCEPT !.at = "insert", !.n = delay])
  BY Zenon, <1>2 DEF SetTimer
<1>4. PICK delay, f : /\ timers' = Without(timers, e)
                      /\ due' = [due EXCEPT ![e] = delay]
                      /\ f = [Top EXCEPT !.at = "insert", !.n = delay]
                      /\ stack' = Append(Below, f)
  BY <1>3
<1>5. f.ev = e
  BY <1>1, <1>2, <1>4 DEF Frames
<1>6. Held' \subseteq {e}
  BY <1>1, <1>4, <1>5, HeldNext
<1>7. timers \in Seq(Timers) /\ due \in [Events -> Int]
  BY DEF Inv, DataOK
<1>8. \A x \in Timers : x # e => due'[x] = due[x]
  BY <1>4, <1>7, EventAssumption
<1>9. Times(Without(timers, e), due') /\ Away(Without(timers, e), Held \cup {e})
  BY <1>7, <1>8, RemovedOrdered DEF Timely
<1> QED BY <1>4, <1>6, <1>9 DEF Timely, Times, Away

LEMMA InsertTimely ==
  ASSUME Inv, Timely, InsertTimer
  PROVE  Timely'
<1>1. Top.at = "insert" /\ Top.ev \in Timers
  BY TopFacts DEF InsertTimer, At, Inv, Shape
<1>2. PICK e \in Timers : e = Top.ev
  BY <1>1
<1>3. PICK d \in [Events -> Int] : d = due
  BY DEF Inv, DataOK
<1>4. PICK f : f = Restore(Top.to)
  OBVIOUS
<1>5. CoreInsertEventTimer(e, d) /\ due' = d /\ stack' = Append(Below, f)
  BY <1>2, <1>3, <1>4 DEF InsertTimer
<1>6. f.at \notin Holding
  BY <1>4 DEF Restore, Frame, Holding
<1>7. Held' = {}
  BY <1>1, <1>5, <1>6, HeldNext
<1>8. \A p \in 1..Len(timers) : timers[p] # e
  BY <1>1, <1>2, HeldOnTop DEF Holding
<1>9. Times(timers', d)
  BY <1>3, <1>5, <1>8, InsertedOrdered DEF Timely, Inv, DataOK
<1> QED BY <1>5, <1>7, <1>9 DEF Timely, Times, Away

LEMMA RearmTimely ==
  ASSUME Inv, Inv', Timely, Rearm
  PROVE  Timely'
<1>1. Top.at = "rearm" /\ Top.ev \in Timers /\ Top \in Frames
  BY TopFacts DEF Rearm, At, Inv, Shape
<1>2. PICK e \in Timers : e = Top.ev
  BY <1>1
<1>3. PICK d \in [Events -> Int] : d = due'
  BY DEF Inv, DataOK
<1>4. PICK f : f = [Top EXCEPT !.at = "expire", !.ev = App]
  OBVIOUS
<1>5. stack' = Append(Below, f) /\ (\E v : due' = [due EXCEPT ![e] = v])
      /\ (CoreInsertEventTimer(e, due') \/ UNCHANGED timers)
  BY <1>2, <1>4 DEF Rearm
<1>6. f.at \notin Holding
  <2>1. f.at = "expire"
    BY <1>1, <1>4 DEF Frames
  <2> QED BY <2>1 DEF Holding
<1>7. Held' = {}
  BY <1>1, <1>5, <1>6, HeldNext
<1>8. \A p \in 1..Len(timers) : timers[p] # e /\ timers[p] \in Timers
  <2>1. timers \in Seq(Timers)
    BY DEF Inv, DataOK
  <2> QED BY <1>1, <1>2, <2>1, HeldOnTop, ElementOfSeq DEF Holding
<1>9. Times(timers, d)
  <2>1. \A x \in Timers : x # e => d[x] = due[x]
    BY <1>3, <1>5, EventAssumption DEF Inv, DataOK
  <2>2. \A p \in 1..Len(timers) : d[timers[p]] = due[timers[p]]
    BY <1>8, <2>1
  <2> QED BY <2>2 DEF Timely, Times
<1>10. Times(timers', d)
  <2>1. CASE CoreInsertEventTimer(e, d)
    BY <1>8, <1>9, <2>1, InsertedOrdered DEF Inv, DataOK
  <2>2. CASE UNCHANGED timers
    BY <1>9, <2>2
  <2> QED BY <1>3, <1>5, <2>1, <2>2
<1> QED BY <1>3, <1>7, <1>10 DEF Timely, Times, Away

\* Every timer of the list is due d ticks earlier, or as late as can be.
LEMMA TickTimely ==
  ASSUME Inv, Timely, NEW d \in Durations, Tick(d)
  PROVE  Timely'
<1> DEFINE n == Len(stack)
           aged == FramesAt(CheckSections)
           isr == Frame("isr", tpl, App, 0)
           same == [i \in 1..n |-> IF i \in aged THEN [stack[i] EXCEPT !.n = @ + d]
                                   ELSE stack[i]]
           base == [i \in 1..n + 1 |->
                      IF i > n THEN isr
                      ELSE IF i \in aged THEN [stack[i] EXCEPT !.n = @ + d]
                      ELSE stack[i]]
<1>1. /\ Release(base, tpl) /\ UNCHANGED timers /\ d \in Nat
      /\ due' = [e \in Events |-> IF e \in Armed THEN After(d, e) ELSE due[e]]
  BY EventAssumption DEF Tick
<1>2. n \in Nat \ {0} /\ (\A i \in 1..n : stack[i] \in Frames)
      /\ stack \in Seq(Frames)
  BY TopFacts DEF Inv, Body, Shape
<1>3. \A i \in 1..n : same[i].at = stack[i].at /\ same[i].ev = stack[i].ev
  BY <1>2 DEF Frames
<1>4. same \in Seq({same[i] : i \in 1..n}) /\ Len(same) = n
  <2> DEFINE S == {same[i] : i \in 1..n}
  <2>1. DOMAIN same = 1..n /\ same = [i \in 1..n |-> same[i]]
    OBVIOUS
  <2> HIDE DEF same
  <2>2. same \in [1..n -> S]
    BY <2>1
  <2> HIDE DEF S
  <2>3. same \in Seq(S)
    BY <1>2, <2>2, SeqDef
  <2> QED BY <1>2, <2>1, <2>3, LenProperties DEF S
<1>5. base = Append(same, isr)
  BY <1>2, <1>4
<1>6. isr.at = "isr"
  BY DEF Frame
<1> HIDE DEF base, same, isr
<1>7. Less(same)
  <2>1. Less(stack) /\ Len(same) = Len(stack)
    BY <1>4, LessStack
  <2> QED BY <1>3, <1>4, <2>1, LessSame
<1>8. Less(base)
  BY <1>5, <1>6, <1>7, LessAppend DEF Holding
<1>9. Held' \subseteq Held
  BY <1>1, <1>8, LessRelease
<1>10. \A p \in 1..Len(timers) :
         /\ timers[p] \in Events /\ due[timers[p]] \in Int
         /\ due'[timers[p]] = After(d, timers[p])
  <2>1. timers \in Seq(Timers) /\ due \in [Events -> Int]
    BY DEF Inv, DataOK
  <2>2. DOMAIN timers = 1..Len(timers) /\ \A p \in 1..Len(timers) : timers[p] \in Timers
    BY <2>1, LenProperties, ElementOfSeq
  <2>3. \A p \in 1..Len(timers) : timers[p] \in Armed
    BY <2>2 DEF Armed
  <2> QED BY <1>1, <2>1, <2>2, <2>3, EventAssumption
<1>11. \A x, y \in Events : due[x] \in Int /\ due[y] \in Int /\ due[x] <= due[y]
                            => After(d, x) <= After(d, y)
  <2>1. Oldest \in Int
    BY EventAssumption DEF Oldest
  <2> QED BY <1>1, <2>1 DEF After
<1>12. Times(timers, due')
  BY <1>10, <1>11 DEF Timely, Times
<1> QED BY <1>1, <1>9, <1>12 DEF Timely, Times, Away

-----------------------------------------------------------------------------
LEMMA NextTimely ==
  ASSUME Inv, Inv', Timely, Next
  PROVE  Timely'
<1>1. CASE ListGroup \/ ListNotifies \/ ListEnds \/ Relock
  <2>1. UNCHANGED <<timers, due>>
    BY <1>1 DEF ListGroup, ListNotifies, ListEnds, Relock, timing
  <2> QED BY <1>1, <2>1, WalksUntimed, Untimed
<1>2. CASE \/ RestoreDispatches \/ RestoreEnds \/ RestoreLowers \/ EndOfInterrupt \/ Return
           \/ CallRestore \/ CallNotify \/ DispatchTakes \/ DispatchEnds \/ ExpireEnds
  <2>1. UNCHANGED <<timers, due>>
    BY <1>2 DEF RestoreDispatches, RestoreEnds, RestoreLowers, EndOfInterrupt, Return,
         CallRestore, CallNotify, DispatchTakes, DispatchEnds, ExpireEnds, timing
  <2> QED BY <1>2, <2>1, LevelsUntimed, Untimed
<1>3. CASE ExpireSignals \/ WaitIdles \/ WaitChecks \/ Unlink \/ Free \/ Look
  <2>1. UNCHANGED <<timers, due>>
    BY <1>3 DEF ExpireSignals, WaitIdles, WaitChecks, Unlink, Free, Look, timing
  <2> QED BY <1>3, <2>1, EventsUntimed, Untimed
<1>4. CASE Calls
  <2>1. UNCHANGED <<timers, due>>
    BY <1>4 DEF Calls, CallSignal, CallClose, CallCheck, CallCreate, CallSetTimer,
         CallWait, CallRaise, timing
  <2> QED BY <1>4, <2>1, CallsUntimed, Untimed
<1>5. CASE ExpireTakes \/ CancelTimer \/ SetTimer \/ InsertTimer \/ Rearm
  BY <1>5, ExpireTakesTimely, CancelTimely, SetTimely, InsertTimely, RearmTimely
<1>6. CASE \E d \in Durations : Tick(d)
  BY <1>6, TickTimely
<1> QED BY <1>1, <1>2, <1>3, <1>4, <1>5, <1>6 DEF Next, Core

LEMMA InitTimely ==
  ASSUME Init
  PROVE  Timely
BY DEF Init, Timely, Times, Away

\* CoreTimerTick looks at the first timer only, and none is due earlier: not while
\* late timers are set again and others are inserted between the ticks, either
\* (CoreInsertEventTimer, Timer.c:59-67; CoreTimerTick, Timer.c:216-221).
THEOREM TimersCorrect == Spec => []TickSeesEarliest
<1>1. Inv /\ Inv' /\ Timely /\ [Next]_vars => Timely'
  <2>1. Timely /\ UNCHANGED vars => Timely'
    BY DEF vars, Timely, Times, Away, Held
  <2> QED BY <2>1, NextTimely
<1>2. Inv /\ Timely => TickSeesEarliest
  <2>1. Inv => DOMAIN timers = 1..Len(timers)
    BY LenProperties DEF Inv, DataOK
  <2> QED BY <2>1 DEF Timely, Times, TickSeesEarliest
<1> QED BY <1>1, <1>2, InitTimely, InvHolds, PTL DEF Spec

-----------------------------------------------------------------------------
(* Closed events.  The application closes events, not a notification function *)
(* that may have interrupted a routine which still uses the event, and nobody *)
(* closes gIdleLoopEvent.                                                     *)

OwnersClose == LetGo /\ Closes \subseteq {App} \X (Events \ {Idle})

Arming == Holding \cup {"TimerPeriodic", "TimerRelative"}
Gone == {e \in Events : status[e] = "freed"}
Unborn == {e \in Events : status[e] = "none"}
Finished == Gone \cup Leaving

\* No list may hold the events that CloseEvent took off all of them, the list of
\* timers none whose timer it has cancelled.
Banned == Gone \cup EvsAt(stack, {"free"})
Disarmed == Finished \ EvsAt(stack, {"TimerCancel"})

Distinct(s) == \A p, q \in 1..Len(s) : p < q => s[p] # s[q]
QueuesClear == \A l \in Levels : Distinct(queue[l]) /\ Away(queue[l], Banned)
ListClear == Distinct(signalQueue) /\ Away(signalQueue, Banned \cup Unborn)
FramesClear ==
  \A p \in 1..Len(stack) :
    /\ stack[p].ev \notin Gone
    /\ stack[p].at = "code" /\ stack[p].ev = App => p = 1
    /\ stack[p].at \in Arming => stack[p].ev \notin Disarmed
    /\ stack[p].at = "wait" => Away(WaitList, Finished)
    /\ \A q \in 1..Len(stack) :
         /\ p < q /\ stack[q].at \in Ends => stack[p].ev # stack[q].ev
         /\ p # q /\ stack[q].at = "free" => stack[p].ev # stack[q].ev
Forgot ==
  /\ QueuesClear /\ ListClear /\ FramesClear
  /\ Away(timers, Disarmed) /\ Idle \notin Finished

-----------------------------------------------------------------------------
(* Stacks that refer to no more events than the stack: the frames of the      *)
(* stack up to one that is not above a label in L, and then harmless ones.    *)

Harmless(f) ==
  /\ f.at \notin Ends \cup {"wait"} /\ f.ev \notin Banned
  /\ f.at = "code" => f.ev # App
  /\ f.at \in Arming => f.ev \notin Disarmed
Upto(t, k, L) ==
  /\ \E S : t \in Seq(S)
  /\ k \in 0..Len(stack) /\ k <= Len(t)
  /\ \A i \in 1..k : t[i].at = stack[i].at /\ t[i].ev = stack[i].ev
  /\ \A i \in k + 1..Len(t) : Harmless(t[i])
  /\ \A i \in k + 1..Len(stack) : stack[i].at \notin L
Derived(t, L) == \E k \in 0..Len(stack) : Upto(t, k, L)
Cancel == {"TimerCancel"}

LEMMA DerivedStack ==
  ASSUME Inv, NEW L
  PROVE  Derived(stack, L)
<1>1. stack \in Seq(Frames) /\ Len(stack) \in Nat
  BY TopFacts DEF Inv
<1>2. Upto(stack, Len(stack), L)
  BY <1>1 DEF Upto
<1> QED BY <1>1, <1>2 DEF Derived

LEMMA DerivedFront ==
  ASSUME Inv, NEW L, NEW s \in Seq(Frames), s # <<>>, Derived(s, L), Last(s).at \notin L
  PROVE  Derived(Front(s), L)
<1> DEFINE t == Front(s)
           n == Len(stack)
<1>1. /\ t \in Seq(Frames) /\ Len(t) = Len(s) - 1 /\ Len(s) \in Nat \ {0}
      /\ \A i \in 1..Len(s) - 1 : t[i] = s[i]
  BY FrontLast
<1>2. n \in Nat
  BY TopFacts DEF Inv
<1> HIDE DEF t, n
<1>3. PICK k \in 0..n : Upto(s, k, L)
  BY DEF Derived, n
<1>4. /\ k <= Len(s)
      /\ \A i \in 1..k : s[i].at = stack[i].at /\ s[i].ev = stack[i].ev
      /\ \A i \in k + 1..Len(s) : Harmless(s[i])
      /\ \A i \in k + 1..n : stack[i].at \notin L
  BY <1>3 DEF Upto, n
<1>5. CASE k = Len(s)
  <2>1. k - 1 \in 0..n /\ k \in 1..k /\ k - 1 <= Len(t) /\ k - 1 + 1..Len(t) = {}
    BY <1>1, <1>2, <1>5
  <2>2. stack[k].at \notin L
    BY <1>4, <1>5, <2>1 DEF Last
  <2>3. \A i \in k - 1 + 1..n : stack[i].at \notin L
    <3>1. \A i \in k - 1 + 1..n : i = k \/ i \in k + 1..n
      BY <1>2
    <3> QED BY <1>4, <2>2, <3>1
  <2>4. \A i \in 1..k - 1 : t[i].at = stack[i].at /\ t[i].ev = stack[i].ev
    <3>1. \A i \in 1..k - 1 : i \in 1..k /\ i \in 1..Len(s) - 1
      BY <1>1, <1>5
    <3> QED BY <1>1, <1>4, <3>1
  <2>5. Upto(t, k - 1, L)
    BY <1>1, <2>1, <2>3, <2>4 DEF Upto, n
  <2> QED BY <2>1, <2>5 DEF Derived, n, t
<1>6. CASE k < Len(s)
  <2>1. k <= Len(t) /\ \A i \in k + 1..Len(t) : i \in k + 1..Len(s) /\ t[i] = s[i]
    BY <1>1, <1>2, <1>6
  <2>2. \A i \in 1..k : i \in 1..Len(s) - 1
    BY <1>1, <1>2, <1>6
  <2>3. Upto(t, k, L)
    BY <1>1, <1>4, <2>1, <2>2 DEF Upto, n
  <2> QED BY <2>3 DEF Derived, n, t
<1> QED BY <1>1, <1>2, <1>4, <1>5, <1>6

LEMMA DerivedBelow ==
  ASSUME Inv, NEW L, Top.at \notin L
  PROVE  Derived(Below, L)
<1>1. stack \in Seq(Frames) /\ stack # <<>> /\ Below = Front(stack) /\ Top = Last(stack)
  BY TopFacts, EmptySeq DEF Inv
<1> QED BY <1>1, DerivedStack, DerivedFront

LEMMA DerivedAppend ==
  ASSUME Inv, NEW L, NEW s, Derived(s, L), NEW f, Harmless(f)
  PROVE  Derived(Append(s, f), L)
<1> DEFINE t == Append(s, f)
           n == Len(stack)
<1>1. PICK k \in 0..n : Upto(s, k, L)
  BY DEF Derived
<1>2. PICK S : s \in Seq(S)
  BY <1>1 DEF Upto
<1>3. /\ t \in Seq(S \cup {f}) /\ Len(t) = Len(s) + 1 /\ Len(s) \in Nat
      /\ \A i \in 1..Len(s) : t[i] = s[i]
      /\ t[Len(s) + 1] = f
  BY <1>2, AnyAppended
<1>4. n \in Nat
  BY TopFacts DEF Inv
<1> HIDE DEF t, n
<1>5. /\ k <= Len(s)
      /\ \A i \in 1..k : s[i].at = stack[i].at /\ s[i].ev = stack[i].ev
      /\ \A i \in k + 1..Len(s) : Harmless(s[i])
      /\ \A i \in k + 1..n : stack[i].at \notin L
  BY <1>1 DEF Upto, n
<1>6. /\ k <= Len(t) /\ \A i \in 1..k : i \in 1..Len(s)
      /\ \A i \in k + 1..Len(t) : i = Len(s) + 1 \/ (i \in k + 1..Len(s) /\ i \in 1..Len(s))
  BY <1>3, <1>4, <1>5
<1>7. \A i \in k + 1..Len(t) : Harmless(t[i])
  <2> TAKE i \in k + 1..Len(t)
  <2>1. CASE i = Len(s) + 1
    BY <1>3, <2>1
  <2>2. CASE i \in k + 1..Len(s) /\ i \in 1..Len(s)
    <3>1. t[i] = s[i]
      BY <1>3, <2>2
    <3> QED BY <1>5, <2>2, <3>1
  <2> QED BY <1>6, <2>1, <2>2
<1>8. Upto(t, k, L)
  BY <1>3, <1>5, <1>6, <1>7 DEF Upto, n
<1> QED BY <1>8 DEF Derived, n, t

LEMMA DerivedSame ==
  ASSUME Inv, NEW L, NEW s, NEW t, Derived(s, L), Len(t) = Len(s), \E S : t \in Seq(S),
         \A i \in 1..Len(s) : t[i].at = s[i].at /\ t[i].ev = s[i].ev
  PROVE  Derived(t, L)
<1> DEFINE n == Len(stack)
<1>1. PICK k \in 0..n : Upto(s, k, L)
  BY DEF Derived
<1>2. Len(s) \in Nat
  BY <1>1, LenProperties DEF Upto
<1>3. \A i \in 1..k : i \in 1..Len(s)
  BY <1>1, <1>2 DEF Upto
<1>4. \A i \in k + 1..Len(s) : i \in 1..Len(s)
  BY <1>1, <1>2
<1>5. \A i \in k + 1..Len(t) : Harmless(t[i])
  <2> TAKE i \in k + 1..Len(t)
  <2>1. Harmless(s[i]) /\ t[i].at = s[i].at /\ t[i].ev = s[i].ev
    BY <1>1, <1>4 DEF Upto
  <2> QED BY <2>1 DEF Harmless
<1>6. \A i \in 1..k : t[i].at = stack[i].at /\ t[i].ev = stack[i].ev
  BY <1>1, <1>3 DEF Upto
<1>7. Upto(t, k, L)
  BY <1>1, <1>5, <1>6 DEF Upto
<1> QED BY <1>7 DEF Derived

LEMMA CountsDerived ==
  ASSUME Inv, NEW L, NEW s \in Seq(Frames), s # <<>>, Derived(s, L), NEW v \in Int,
         NEW t, t = [s EXCEPT ![Len(s)].n = v]
  PROVE  Derived(t, L)
<1>1. Len(s) \in 1..Len(s) /\ s[Len(s)] \in Frames
  BY FrontLast, ElementOfSeq DEF Last
<1>2. PICK f \in Frames : f = s[Len(s)]
  BY <1>1
<1> DEFINE g == [f EXCEPT !.n = v]
<1>3. g \in Frames /\ g.at = f.at /\ g.ev = f.ev
  BY DEF Frames
<1>4. t = [s EXCEPT ![Len(s)] = g]
  BY <1>2
<1> HIDE DEF g
<1>5. /\ t \in Seq(Frames) /\ Len(t) = Len(s)
      /\ \A i \in 1..Len(s) : t[i] = IF i = Len(s) THEN g ELSE s[i]
  BY <1>1, <1>3, <1>4, ExceptSeq
<1>6. \A i \in 1..Len(s) : t[i].at = s[i].at /\ t[i].ev = s[i].ev
  BY <1>2, <1>3, <1>5
<1> QED BY <1>5, <1>6, DerivedSame

LEMMA DerivedCaller ==
  ASSUME Inv, Running, NEW L
  PROVE  Derived(Caller, L)
<1>1. CASE Top.ev = App
  BY <1>1, DerivedStack DEF Caller
<1>2. CASE Top.ev # App
  <2>1. PICK v \in Int : v = Top.n - 1
    BY TopFacts DEF Inv, Frames
  <2>2. Caller = [stack EXCEPT ![Len(stack)].n = v]
    BY <1>2, <2>1 DEF Caller, Top
  <2>3. stack \in Seq(Frames) /\ stack # <<>>
    BY TopFacts, EmptySeq DEF Inv
  <2> QED BY <2>2, <2>3, DerivedStack, CountsDerived
<1> QED BY <1>1, <1>2

LEMMA DerivedAnswer ==
  ASSUME Inv, NEW base \in Seq(Frames), base # <<>>, Derived(base, Cancel),
         NEW ready \in BOOLEAN
  PROVE  Derived(Answer(ready, base), Cancel)
<1>1. Len(base) \in 1..Len(base) /\ base[Len(base)] \in Frames
  BY FrontLast, ElementOfSeq DEF Last
<1>2. CASE base[Len(base)].at # "wait"
  BY <1>2 DEF Answer
<1>3. CASE base[Len(base)].at = "wait" /\ ready
  <2>1. Answer(ready, base) = Front(base)
    BY <1>3 DEF Answer, Front
  <2>2. Last(base).at \notin Cancel
    BY <1>3 DEF Last, Cancel
  <2> QED BY <2>1, <2>2, DerivedFront
<1>4. CASE base[Len(base)].at = "wait" /\ ~ready
  <2>1. PICK v \in Int : v = base[Len(base)].n + 1
    BY <1>1 DEF Frames
  <2>2. Answer(ready, base) = [base EXCEPT ![Len(base)].n = v]
    BY <1>4, <2>1 DEF Answer
  <2> QED BY <2>2, CountsDerived
<1> QED BY <1>2, <1>3, <1>4

LEMMA BannedEvents ==
  ASSUME Inv
  PROVE  /\ EvsAt(stack, {"free"}) \subseteq Leaving /\ Leaving \subseteq Events
         /\ Banned \subseteq Events /\ Banned \subseteq Finished /\ Finished \subseteq Events
         /\ App \notin Events /\ CheckTimers \notin Events
<1>1. \A i \in 1..Len(stack) : Shape(stack[i])
  BY TopFacts DEF Inv, Body
<1>2. \A i \in 1..Len(stack) : stack[i].at \in Ends => stack[i].ev \in Events
  BY <1>1 DEF Shape, Ends
<1>3. Leaving \subseteq Events
  BY <1>2 DEF Leaving, EvsAt
<1>4. EvsAt(stack, {"free"}) \subseteq Leaving
  BY DEF Leaving, EvsAt, Ends
<1>5. Gone \subseteq Events
  BY DEF Gone
<1> QED BY <1>3, <1>4, <1>5, EventAssumption DEF Banned, Finished, All

LEMMA TopHarmless ==
  ASSUME Inv, FramesClear
  PROVE  /\ Top.at # "free" => Top.ev \notin Banned
         /\ Top.at \in Arming => Top.ev \notin Disarmed
         /\ Top.at = "wait" => Away(WaitList, Finished)
<1>1. Len(stack) \in 1..Len(stack) /\ Top = stack[Len(stack)]
  BY TopFacts DEF Inv, Top
<1>2. Top.ev \notin Gone /\ (Top.at \in Arming => Top.ev \notin Disarmed)
      /\ (Top.at = "wait" => Away(WaitList, Finished))
  BY <1>1 DEF FramesClear
<1>3. Top.at # "free" => Top.ev \notin EvsAt(stack, {"free"})
  <2> SUFFICES ASSUME Top.at # "free", NEW q \in 1..Len(stack), stack[q].at = "free"
               PROVE  Top.ev # stack[q].ev
    BY DEF EvsAt
  <2>1. q # Len(stack)
    BY <1>1
  <2> QED BY <1>1, <2>1 DEF FramesClear
<1> QED BY <1>2, <1>3 DEF Banned

\* The frames of a derived stack that close an event, or hold one that may go.
LEMMA DerivedEvs ==
  ASSUME Inv, NEW L, NEW t, Derived(t, L)
  PROVE  /\ EvsAt(t, Ends) \subseteq Leaving
         /\ EvsAt(t, {"free"}) \subseteq EvsAt(stack, {"free"})
         /\ EvsAt(stack, L) \subseteq EvsAt(t, L)
<1> DEFINE n == Len(stack)
<1>1. PICK k \in 0..n : Upto(t, k, L)
  BY DEF Derived
<1>2. Len(t) \in Nat /\ n \in Nat
  BY <1>1, LenProperties, TopFacts DEF Upto, Inv
<1> HIDE DEF n
<1>3. /\ k <= Len(t)
      /\ \A i \in 1..k : t[i].at = stack[i].at /\ t[i].ev = stack[i].ev
      /\ \A i \in k + 1..Len(t) : t[i].at \notin Ends
      /\ \A i \in k + 1..n : stack[i].at \notin L
  BY <1>1 DEF Upto, Harmless, n
<1>4. \A i \in 1..Len(t) : i \in k + 1..Len(t) \/ (i \in 1..k /\ i \in 1..n)
  BY <1>2, <1>3
<1>5. \A i \in 1..n : i \in k + 1..n \/ (i \in 1..k /\ i \in 1..Len(t))
  BY <1>2, <1>3
<1>6. \A i \in 1..Len(t) : t[i].at \in Ends =>
        i \in 1..n /\ t[i].at = stack[i].at /\ t[i].ev = stack[i].ev
  BY <1>3, <1>4
<1>7. \A i \in 1..n : stack[i].at \in L =>
        i \in 1..Len(t) /\ t[i].at = stack[i].at /\ t[i].ev = stack[i].ev
  BY <1>3, <1>5
<1>8. EvsAt(t, Ends) \subseteq Leaving
  BY <1>6 DEF EvsAt, Leaving, n
<1>9. EvsAt(t, {"free"}) \subseteq EvsAt(stack, {"free"})
  BY <1>6 DEF EvsAt, Ends, n
<1>10. EvsAt(stack, L) \subseteq EvsAt(t, L)
  BY <1>7 DEF EvsAt, n
<1> QED BY <1>8, <1>9, <1>10

LEMMA FramesStep ==
  ASSUME Inv, FramesClear, NEW L, Derived(stack', L), Gone' \subseteq Gone,
         \A p \in 1..Len(stack') : stack'[p].at \in Arming => stack'[p].ev \notin Disarmed'
  PROVE  FramesClear'
<1> DEFINE n == Len(stack)
<1>1. PICK t : t = stack'
  OBVIOUS
<1>2. PICK k \in 0..n : Upto(t, k, L)
  BY <1>1 DEF Derived
<1>3. Len(t) \in Nat /\ n \in Nat
  BY <1>2, LenProperties, TopFacts DEF Upto, Inv
<1> HIDE DEF n
<1>4. /\ k <= Len(t)
      /\ \A i \in 1..k : t[i].at = stack[i].at /\ t[i].ev = stack[i].ev
      /\ \A i \in k + 1..Len(t) : Harmless(t[i])
  BY <1>2 DEF Upto
<1>5. ASSUME NEW i \in 1..Len(t)
      PROVE  \/ i \in 1..k /\ i \in 1..n /\ t[i].at = stack[i].at /\ t[i].ev = stack[i].ev
             \/ i \in k + 1..Len(t) /\ Harmless(t[i])
  <2>1. (i \in 1..k /\ i \in 1..n) \/ i \in k + 1..Len(t)
    BY <1>3, <1>4
  <2> QED BY <1>4, <2>1
<1>6. Finished' \subseteq Finished
  BY <1>1, DerivedEvs DEF Finished, Leaving
<1>7. ASSUME NEW p \in 1..Len(t)
      PROVE  /\ t[p].ev \notin Gone' /\ (t[p].at = "code" /\ t[p].ev = App => p = 1)
             /\ t[p].at = "wait" => Away(WaitList, Finished')
  <2>1. CASE p \in 1..n /\ t[p].at = stack[p].at /\ t[p].ev = stack[p].ev
    <3>1. /\ stack[p].ev \notin Gone /\ (stack[p].at = "code" /\ stack[p].ev = App => p = 1)
          /\ stack[p].at = "wait" => Away(WaitList, Finished)
      BY <2>1 DEF FramesClear, n
    <3> QED BY <1>6, <2>1, <3>1 DEF Away
  <2>2. CASE Harmless(t[p])
    BY <2>2 DEF Harmless, Banned
  <2> QED BY <1>5, <2>1, <2>2
<1>8. ASSUME NEW p \in 1..Len(t), NEW q \in 1..Len(t), t[q].at \in Ends, p # q,
             p < q \/ t[q].at = "free"
      PROVE  t[p].ev # t[q].ev
  <2>1. q \in 1..k /\ q \in 1..n /\ t[q].at = stack[q].at /\ t[q].ev = stack[q].ev
    BY <1>5, <1>8 DEF Harmless
  <2>2. CASE p \in 1..n /\ t[p].ev = stack[p].ev
    BY <1>8, <2>1, <2>2 DEF FramesClear, n
  <2>3. CASE p \in k + 1..Len(t) /\ Harmless(t[p])
    <3>1. ~(p < q)
      BY <1>3, <2>1, <2>3
    <3>2. stack[q].at = "free"
      BY <1>8, <2>1, <3>1
    <3>3. stack[q].ev \in EvsAt(stack, {"free"})
      BY <2>1, <3>2 DEF EvsAt, n
    <3> QED BY <2>1, <2>3, <3>3 DEF Harmless, Banned
  <2> QED BY <1>5, <2>2, <2>3
<1>9. \A p, q \in 1..Len(t) :
         /\ p < q /\ t[q].at \in Ends => t[p].ev # t[q].ev
         /\ p # q /\ t[q].at = "free" => t[p].ev # t[q].ev
  <2> TAKE p, q \in 1..Len(t)
  <2>1. p < q => p # q
    BY <1>3
  <2> QED BY <1>8, <2>1 DEF Ends
<1> QED BY <1>1, <1>7, <1>9 DEF FramesClear

LEMMA ArmingAway ==
  ASSUME Inv, FramesClear, NEW L, NEW t, Derived(t, L)
  PROVE  \A p \in 1..Len(t) : t[p].at \in Arming => t[p].ev \notin Disarmed
<1>1. PICK k \in 0..Len(stack) : Upto(t, k, L)
  BY DEF Derived
<1>2. Len(t) \in Nat /\ Len(stack) \in Nat
  BY <1>1, LenProperties, TopFacts DEF Upto, Inv
<1>3. ASSUME NEW p \in 1..Len(t), t[p].at \in Arming
      PROVE  t[p].ev \notin Disarmed
  <2>1. p \in k + 1..Len(t) \/ (p \in 1..k /\ p \in 1..Len(stack))
    BY <1>1, <1>2 DEF Upto
  <2>2. CASE p \in k + 1..Len(t)
    BY <1>1, <1>3, <2>2 DEF Upto, Harmless
  <2>3. CASE p \in 1..k /\ p \in 1..Len(stack)
    BY <1>1, <1>3, <2>3 DEF Upto, FramesClear
  <2> QED BY <2>1, <2>2, <2>3
<1> QED BY <1>3

\* What the queues hold after a step is still not banned.
QueuesStay == \A l \in Levels : Distinct(queue'[l]) /\ Away(queue'[l], Banned)

LEMMA ForgotStep ==
  ASSUME Inv, Forgot, Derived(stack', Cancel), QueuesStay, Away(timers', Disarmed),
         UNCHANGED <<signalQueue, status>>
  PROVE  Forgot'
<1>1. /\ EvsAt(stack', Ends) \subseteq Leaving
      /\ EvsAt(stack', {"free"}) \subseteq EvsAt(stack, {"free"})
      /\ EvsAt(stack, Cancel) \subseteq EvsAt(stack', Cancel)
  BY DerivedEvs
<1>2. Gone' = Gone /\ Unborn' = Unborn
  BY DEF Gone, Unborn
<1>3. Finished' \subseteq Finished /\ Banned' \subseteq Banned /\ Disarmed' \subseteq Disarmed
  BY <1>1, <1>2 DEF Finished, Banned, Disarmed, Leaving, Cancel
<1>4. \A p \in 1..Len(stack') : stack'[p].at \in Arming => stack'[p].ev \notin Disarmed'
  BY <1>3, ArmingAway DEF Forgot
<1>5. FramesClear'
  BY <1>2, <1>4, FramesStep DEF Forgot
<1>6. QueuesClear'
  BY <1>3 DEF QueuesStay, QueuesClear, Away
<1>7. ListClear'
  <2>1. Distinct(signalQueue)' /\ Away(signalQueue, Banned \cup Unborn)
    BY DEF Forgot, ListClear, Distinct
  <2> QED BY <1>2, <1>3, <2>1 DEF ListClear, Away
<1>8. Away(timers', Disarmed') /\ Idle \notin Finished'
  BY <1>3 DEF Away, Forgot
<1> QED BY <1>5, <1>6, <1>7, <1>8 DEF Forgot, Away

-----------------------------------------------------------------------------
(* The queues.                                                               *)

LEMMA QueuesSame ==
  ASSUME Forgot, UNCHANGED queue
  PROVE  QueuesStay
BY DEF Forgot, QueuesClear, QueuesStay, Distinct

\* One event less, in the same order.
LEMMA RemovedDistinct ==
  ASSUME NEW S, NEW s \in Seq(S), NEW e, Distinct(s), NEW B, Away(s, B)
  PROVE  /\ Without(s, e) \in Seq(S)
         /\ Distinct(Without(s, e)) /\ Away(Without(s, e), B \cup {e})
<1> DEFINE n == Len(s)
           c == Without(s, e)
<1>1. n \in Nat /\ DOMAIN s = 1..n
  BY LenProperties
<1>2. CASE \A p \in 1..n : s[p] # e
  <2>1. c = s
    BY <1>1, <1>2 DEF Without
  <2>2. Away(s, B \cup {e})
    BY <1>2 DEF Away
  <2> QED BY <2>1, <2>2
<1>3. CASE \E p \in 1..n : s[p] = e
  <2>1. PICK k \in 1..n : s[k] = e /\
          \A p \in 1..n - 1 : c[p] = IF p < k THEN s[p] ELSE s[p + 1]
    BY <1>3, WithoutForm
  <2>2. Len(c) = n - 1 /\ c \in Seq(S)
    BY <1>3, WithoutForm
  <2> HIDE DEF c, n
  <2>3. ASSUME NEW p \in 1..Len(c)
        PROVE  \E i \in 1..n : i = (IF p < k THEN p ELSE p + 1) /\ c[p] = s[i] /\ i # k
    <3>1. CASE p < k
      BY <1>1, <2>1, <2>2, <3>1
    <3>2. CASE ~(p < k)
      <4>1. p + 1 \in 1..n /\ c[p] = s[p + 1] /\ p + 1 # k
        BY <1>1, <2>1, <2>2, <3>2
      <4> QED BY <3>2, <4>1
    <3> QED BY <3>1, <3>2
  <2>4. ASSUME NEW i \in 1..n, i # k
        PROVE  s[i] # e
    <3>1. i < k \/ k < i
      BY <1>1, <2>4
    <3>2. s[i] # s[k]
      BY <3>1 DEF Distinct, n
    <3> QED BY <2>1, <3>2
  <2>5. ASSUME NEW p \in 1..Len(c), NEW q \in 1..Len(c), p < q
        PROVE  c[p] # c[q]
    <3>1. PICK i \in 1..n : i = (IF p < k THEN p ELSE p + 1) /\ c[p] = s[i]
      BY <2>3
    <3>2. PICK j \in 1..n : j = (IF q < k THEN q ELSE q + 1) /\ c[q] = s[j]
      BY <2>3
    <3>3. i < j
      BY <1>1, <2>2, <2>5, <3>1, <3>2
    <3> QED BY <3>1, <3>2, <3>3 DEF Distinct, n
  <2>6. \A p \in 1..Len(c) : c[p] \notin B \cup {e}
    BY <2>3, <2>4 DEF Away, n
  <2> QED BY <2>2, <2>5, <2>6 DEF Distinct, Away, c
<1> QED BY <1>1, <1>2, <1>3

LEMMA NotifyStays ==
  ASSUME Inv, Forgot, NEW e \in All \ Banned, CoreNotifyEvent(e)
  PROVE  QueuesStay
<1> DEFINE l == TplOf(e)
           c == Without(queue[l], e)
           n == Append(c, e)
<1>1. l \in Levels /\ queue[l] \in Seq(All) /\ Distinct(queue[l]) /\ Away(queue[l], Banned)
  BY QueuedAt DEF Forgot, QueuesClear
<1>2. c \in Seq(All) /\ Distinct(c) /\ Away(c, Banned \cup {e})
  BY <1>1, RemovedDistinct
<1>3. queue' = [queue EXCEPT ![l] = n]
  BY DEF CoreNotifyEvent
<1> HIDE DEF c
<1>4. /\ n \in Seq(All) /\ Len(n) = Len(c) + 1 /\ Len(c) \in Nat
      /\ \A p \in 1..Len(c) : n[p] = c[p]
      /\ n[Len(c) + 1] = e
  BY <1>2, AppendProperties, LenProperties
<1> HIDE DEF n, l
<1>5. queue'[l] = n /\ \A m \in Levels : m # l => queue'[m] = queue[m]
  BY <1>1, <1>3 DEF Inv, DataOK, QueuesOK
<1>6. \A p \in 1..Len(n) : p = Len(c) + 1 \/ p \in 1..Len(c)
  BY <1>4
<1>7. Away(n, Banned)
  BY <1>2, <1>4, <1>6 DEF Away
<1>8. Distinct(n)
  <2> SUFFICES ASSUME NEW p \in 1..Len(n), NEW q \in 1..Len(n), p < q
               PROVE  n[p] # n[q]
    BY DEF Distinct
  <2>1. p \in 1..Len(c) /\ n[p] = c[p]
    BY <1>4
  <2>2. CASE q = Len(c) + 1
    BY <1>2, <1>4, <2>1, <2>2 DEF Away
  <2>3. CASE q \in 1..Len(c)
    BY <1>2, <1>4, <2>1, <2>3 DEF Distinct
  <2> QED BY <1>6, <2>2, <2>3
<1> QED BY <1>5, <1>7, <1>8 DEF QueuesStay, Forgot, QueuesClear

LEMMA SectionStays ==
  ASSUME Inv, Forgot, NEW e \in All \ Banned, SignalSection(e)
  PROVE  QueuesStay
<1>1. CoreNotifyEvent(e) \/ UNCHANGED queue
  BY DEF SignalSection
<1> QED BY <1>1, NotifyStays, QueuesSame

-----------------------------------------------------------------------------
(* Actions that queue no function, or one that may be.                       *)

LEMMA RestoreHarmless ==
  ASSUME Inv, NEW owner
  PROVE  Harmless(Restore(owner))
<1>1. App \notin Banned
  BY BannedEvents
<1> QED BY <1>1 DEF Harmless, Restore, Frame, Ends, Arming, Holding

LEMMA DerivedRelease ==
  ASSUME Inv, NEW L, NEW base, Derived(base, L), NEW owner, Release(base, owner)
  PROVE  Derived(stack', L)
<1>1. PICK f : f = Restore(owner)
  OBVIOUS
<1>2. stack' = Append(base, f) /\ Harmless(f)
  BY <1>1, RestoreHarmless DEF Release
<1> QED BY <1>2, DerivedAppend

\* The running frame with another label or count.
LEMMA Relabelled ==
  ASSUME Inv, FramesClear, NEW f, f.ev = Top.ev, Top.at # "free",
         f.at \in {"list", "relock", "look", "restore", "lower", "dispatch"}
  PROVE  Harmless(f)
BY TopHarmless DEF Harmless, Ends, Arming, Holding

LEMMA WalksForgotten ==
  ASSUME Inv, Forgot, ListGroup \/ ListNotifies \/ ListEnds \/ Relock
  PROVE  Forgot'
<1>1. Top \in Frames
  BY TopFacts DEF Inv
<1>2. Top.at \notin Cancel /\ Top.at # "free"
  BY DEF ListGroup, ListNotifies, ListEnds, Relock, At, Cancel
<1>3. Derived(Below, Cancel) /\ FramesClear
  BY <1>2, DerivedBelow DEF Forgot
<1>4. UNCHANGED <<signalQueue, status, timers>>
  BY DEF ListGroup, ListNotifies, ListEnds, Relock, timing
<1>5. Away(timers', Disarmed)
  BY <1>4 DEF Forgot, Away
<1>6. CASE ListGroup
  <2>1. PICK n, f : f = [Top EXCEPT !.at = "list", !.n = n] /\ stack' = Append(Below, f)
    BY <1>6 DEF ListGroup
  <2>2. f.at = "list" /\ f.ev = Top.ev
    BY <1>1, <2>1 DEF Frames
  <2>3. Derived(stack', Cancel)
    BY <1>2, <1>3, <2>1, <2>2, Relabelled, DerivedAppend
  <2>4. QueuesStay
    BY <1>6, QueuesSame DEF ListGroup, database
  <2> QED BY <1>4, <1>5, <2>3, <2>4, ForgotStep
<1>7. CASE ListNotifies
  <2>1. PICK n, f : f = [Top EXCEPT !.n = n] /\ stack' = Append(Below, f)
    BY <1>7 DEF ListNotifies
  <2>2. f.at = "list" /\ f.ev = Top.ev
    BY <1>1, <1>7, <2>1 DEF Frames, ListNotifies, At
  <2>3. Derived(stack', Cancel)
    BY <1>2, <1>3, <2>1, <2>2, Relabelled, DerivedAppend
  <2>4. PICK p : p = Top.n
    OBVIOUS
  <2>5. p \in 1..Len(signalQueue)
    <3>1. Top.n \in Nat \ {0} /\ Top.n <= Len(signalQueue)
      BY <1>7, TopFacts DEF Inv, Shape, ListNotifies, At
    <3>2. Len(signalQueue) \in Nat
      BY LenProperties DEF Inv, DataOK
    <3> QED BY <2>4, <3>1, <3>2
  <2>6. signalQueue[p] \in All \ Banned
    <3>1. signalQueue[p] \in NotifySignal
      BY <2>5, ElementOfSeq DEF Inv, DataOK
    <3>2. signalQueue[p] \notin Banned
      BY <2>5 DEF Forgot, ListClear, Away
    <3> QED BY <3>1, <3>2, EventAssumption DEF All
  <2>7. CoreNotifyEvent(signalQueue[p]) \/ UNCHANGED queue
    BY <1>7, <2>4 DEF ListNotifies
  <2>8. QueuesStay
    BY <2>6, <2>7, NotifyStays, QueuesSame
  <2> QED BY <1>4, <1>5, <2>3, <2>8, ForgotStep
<1>8. CASE ListEnds
  <2>1. PICK f : f = [Top EXCEPT !.at = "relock"] /\ Release(Append(Below, f), Top.to)
    BY <1>8 DEF ListEnds
  <2>2. f.at = "relock" /\ f.ev = Top.ev
    BY <1>1, <2>1 DEF Frames
  <2>3. Derived(Append(Below, f), Cancel)
    BY <1>2, <1>3, <2>2, Relabelled, DerivedAppend
  <2>4. Derived(stack', Cancel)
    BY <2>1, <2>3, DerivedRelease
  <2>5. QueuesStay
    BY <1>8, QueuesSame DEF ListEnds, database
  <2> QED BY <1>4, <1>5, <2>4, <2>5, ForgotStep
<1>9. CASE Relock
  <2>1. Derived(stack', Cancel)
    BY <1>3, <1>9, DerivedRelease DEF Relock
  <2>2. QueuesStay
    BY <1>9, QueuesSame DEF Relock, database
  <2> QED BY <1>4, <1>5, <2>1, <2>2, ForgotStep
<1> QED BY <1>6, <1>7, <1>8, <1>9

LEMMA LevelsForgotten ==
  ASSUME Inv, Forgot,
         \/ RestoreDispatches \/ RestoreEnds \/ RestoreLowers \/ EndOfInterrupt \/ Return
         \/ CallRestore \/ CallNotify \/ ExpireEnds
  PROVE  Forgot'
<1>1. Top \in Frames /\ Shape(Top)
  BY TopFacts DEF Inv
<1>2. Top.at \notin Cancel /\ Top.at # "free"
  BY DEF RestoreDispatches, RestoreEnds, RestoreLowers, EndOfInterrupt, Return,
         CallRestore, CallNotify, ExpireEnds, At, Cancel
<1>3. Derived(Below, Cancel) /\ Derived(stack, Cancel) /\ FramesClear
  BY <1>2, DerivedBelow, DerivedStack DEF Forgot
<1>4. UNCHANGED <<signalQueue, status, timers, queue>>
  BY DEF RestoreDispatches, RestoreEnds, RestoreLowers, EndOfInterrupt, Return,
         CallRestore, CallNotify, ExpireEnds, timing, database
<1>5. Away(timers', Disarmed) /\ QueuesStay
  BY <1>4, QueuesSame DEF Forgot, Away
<1>6. App \notin Banned
  BY BannedEvents
<1>7. CASE RestoreLowers \/ EndOfInterrupt \/ Return \/ ExpireEnds
  <2>1. Derived(stack', Cancel)
    BY <1>3, <1>7 DEF RestoreLowers, EndOfInterrupt, Return, ExpireEnds
  <2> QED BY <1>4, <1>5, <2>1, ForgotStep
<1>8. CASE RestoreEnds
  <2>1. PICK f : f = [Top EXCEPT !.at = "lower"]
    OBVIOUS
  <2>2. f.at = "lower" /\ f.ev = Top.ev
    BY <1>1, <2>1 DEF Frames
  <2>3. stack' = Below \/ stack' = Append(Below, f)
    BY <1>8, <2>1 DEF RestoreEnds
  <2>4. Derived(Append(Below, f), Cancel)
    BY <1>2, <1>3, <2>2, Relabelled, DerivedAppend
  <2>5. Derived(stack', Cancel)
    BY <1>3, <2>3, <2>4
  <2> QED BY <1>4, <1>5, <2>5, ForgotStep
<1>9. CASE RestoreDispatches \/ CallRestore
  <2>1. \E f : f.at \in {"dispatch", "restore"} /\ f.ev = App /\ stack' = Append(stack, f)
    BY <1>9 DEF RestoreDispatches, CallRestore, Restore, Frame
  <2>2. PICK f : Harmless(f) /\ stack' = Append(stack, f)
    BY <1>6, <2>1 DEF Harmless, Ends, Arming, Holding
  <2>3. Derived(stack', Cancel)
    BY <1>3, <2>2, DerivedAppend
  <2> QED BY <1>4, <1>5, <2>3, ForgotStep
<1>10. CASE CallNotify
  <2>1. Top.at = "notify" /\ Top.ev \in All
    BY <1>1, <1>10 DEF CallNotify, At, Shape
  <2>2. Top.ev \notin Banned /\ Top.ev # App
    BY <1>3, <2>1, TopHarmless, EventAssumption DEF All
  <2> DEFINE f == Frame("dispatch", Top.to, App, 0)
             g == IF Top.ev = CheckTimers THEN Frame("expire", Top.to, App, 0)
                  ELSE Frame("code", Top.to, Top.ev, MaxOps)
  <2>3. f.at = "dispatch" /\ f.ev = App
    BY DEF Frame
  <2>4. (g.at = "expire" /\ g.ev = App) \/ (g.at = "code" /\ g.ev = Top.ev)
    BY DEF Frame
  <2>5. stack' = Append(Append(Below, f), g)
    BY <1>10 DEF CallNotify
  <2> HIDE DEF f, g
  <2>6. Harmless(f) /\ Harmless(g)
    BY <1>6, <2>2, <2>3, <2>4 DEF Harmless, Ends, Arming, Holding
  <2>7. Derived(Append(Below, f), Cancel)
    BY <1>3, <2>6, DerivedAppend
  <2>8. Derived(stack', Cancel)
    BY <2>5, <2>6, <2>7, DerivedAppend
  <2> QED BY <1>4, <1>5, <2>8, ForgotStep
<1> QED BY <1>7, <1>8, <1>9, <1>10

LEMMA DispatchForgotten ==
  ASSUME Inv, Forgot, DispatchTakes \/ DispatchEnds
  PROVE  Forgot'
<1>1. Top.at \notin Cancel /\ Top.at # "free"
  BY DEF DispatchTakes, DispatchEnds, At, Cancel
<1>2. Derived(Below, Cancel)
  BY <1>1, DerivedBelow
<1>3. UNCHANGED <<signalQueue, status, timers>>
  BY DEF DispatchTakes, DispatchEnds, timing
<1>4. Away(timers', Disarmed)
  BY <1>3 DEF Forgot, Away
<1>5. CASE DispatchTakes
  <2>1. PICK l : l = Top.to
    OBVIOUS
  <2>2. l \in Levels
    BY <1>5, <2>1, TopFacts DEF Inv, Shape, Calling, DispatchTakes, At
  <2>3. PICK s \in Seq(All) : s = queue[l]
    BY <2>2 DEF Inv, DataOK, QueuesOK
  <2>4. s # <<>> /\ queue' = [queue EXCEPT ![l] = Tail(s)]
    BY <1>5, <2>1, <2>3 DEF DispatchTakes
  <2>5. PICK e : e = Head(s)
    OBVIOUS
  <2>6. /\ Len(s) \in Nat \ {0} /\ s[1] = e /\ Len(Tail(s)) = Len(s) - 1
        /\ \A p \in 1..Len(Tail(s)) : Tail(s)[p] = s[p + 1]
    <3>1. Len(s) \in Nat \ {0}
      BY <2>4, EmptySeq, LenProperties
    <3> QED BY <2>4, <2>5, <3>1, HeadTailProperties
  <2>7. Distinct(s) /\ Away(s, Banned)
    BY <2>2, <2>3 DEF Forgot, QueuesClear
  <2>8. PICK c : c = Tail(s)
    OBVIOUS
  <2>9. \A p \in 1..Len(c) : p + 1 \in 1..Len(s) /\ c[p] = s[p + 1]
    BY <2>6, <2>8
  <2>10. Distinct(c)
    <3> SUFFICES ASSUME NEW p \in 1..Len(c), NEW q \in 1..Len(c), p < q
                 PROVE  c[p] # c[q]
      BY DEF Distinct
    <3>1. p + 1 < q + 1
      BY <2>6, <2>8
    <3> QED BY <2>7, <2>9, <3>1 DEF Distinct
  <2>11. Away(c, Banned)
    BY <2>7, <2>9 DEF Away
  <2>12. queue'[l] = c /\ \A m \in Levels : m # l => queue'[m] = queue[m]
    BY <2>2, <2>4, <2>8 DEF Inv, DataOK, QueuesOK
  <2>13. QueuesStay
    BY <2>10, <2>11, <2>12 DEF QueuesStay, Forgot, QueuesClear
  <2>14. e \notin Banned
    BY <2>6, <2>7 DEF Away
  <2>15. PICK f : f.at = "notify" /\ f.ev = e /\ Release(Append(Below, f), tpl)
    BY <1>5, <2>1, <2>3, <2>5 DEF DispatchTakes, Frame
  <2>16. Harmless(f)
    BY <2>14, <2>15 DEF Harmless, Ends, Arming, Holding
  <2>17. Derived(Append(Below, f), Cancel)
    BY <1>2, <2>16, DerivedAppend
  <2>18. Derived(stack', Cancel)
    BY <2>15, <2>17, DerivedRelease
  <2> QED BY <1>3, <1>4, <2>13, <2>18, ForgotStep
<1>6. CASE DispatchEnds
  <2>1. Derived(stack', Cancel)
    BY <1>2, <1>6, DerivedRelease DEF DispatchEnds
  <2>2. QueuesStay
    BY <1>6, QueuesSame DEF DispatchEnds
  <2> QED BY <1>3, <1>4, <2>1, <2>2, ForgotStep
<1> QED BY <1>5, <1>6

-----------------------------------------------------------------------------
(* Signals and checks.                                                       *)

LEMMA CoreSignalForgotten ==
  ASSUME Inv, Forgot, NEW e \in Events \ Banned, NEW base, Derived(base, Cancel), NEW t,
         CoreSignalEvent(e, base, t), UNCHANGED <<signalQueue, status, timers>>
  PROVE  Forgot'
<1> DEFINE g == Frame("group", t, e, 0)
<1>1. Release(base, t) \/ Release(Append(base, g), t)
  BY DEF CoreSignalEvent
<1>2. g.at = "group" /\ g.ev = e
  BY DEF Frame
<1> HIDE DEF g
<1>3. Harmless(g)
  BY <1>2 DEF Harmless, Ends, Arming, Holding
<1>4. Derived(Append(base, g), Cancel)
  BY <1>3, DerivedAppend
<1>5. Derived(stack', Cancel)
  BY <1>1, <1>4, DerivedRelease
<1>6. QueuesStay
  BY SectionStays DEF CoreSignalEvent, All
<1>7. Away(timers', Disarmed)
  BY DEF Forgot, Away
<1> QED BY <1>5, <1>6, <1>7, ForgotStep

LEMMA CheckForgotten ==
  ASSUME Inv, Forgot, NEW e \in Events \ Banned, NEW base, Derived(base, Cancel),
         CoreCheckEvent(e, base), UNCHANGED <<signalQueue, status, timers>>
  PROVE  Forgot'
<1> DEFINE g == Frame("look", tpl, e, 0)
<1>1. Release(Append(base, g), tpl) \/ stack' = Append(base, g)
  BY DEF CoreCheckEvent
<1>2. g.at = "look" /\ g.ev = e
  BY DEF Frame
<1> HIDE DEF g
<1>3. Harmless(g)
  BY <1>2 DEF Harmless, Ends, Arming, Holding
<1>4. Derived(Append(base, g), Cancel)
  BY <1>3, DerivedAppend
<1>5. Derived(stack', Cancel)
  BY <1>1, <1>4, DerivedRelease
<1>6. CoreNotifyEvent(e) \/ UNCHANGED queue
  BY DEF CoreCheckEvent
<1>7. QueuesStay
  BY <1>6, NotifyStays, QueuesSame DEF All
<1>8. Away(timers', Disarmed)
  BY DEF Forgot, Away
<1> QED BY <1>5, <1>7, <1>8, ForgotStep

LEMMA EventsForgotten ==
  ASSUME Inv, Forgot, ExpireSignals \/ WaitIdles \/ WaitChecks \/ Look
  PROVE  Forgot'
<1>1. Top \in Frames /\ Shape(Top) /\ FramesClear
  BY TopFacts DEF Inv, Forgot
<1>2. Top.at \notin Cancel /\ Top.at # "free"
  BY DEF ExpireSignals, WaitIdles, WaitChecks, Look, At, Cancel
<1>3. Derived(Below, Cancel) /\ Derived(stack, Cancel)
  BY <1>2, DerivedBelow, DerivedStack
<1>4. UNCHANGED <<signalQueue, status, timers>>
  BY DEF ExpireSignals, WaitIdles, WaitChecks, Look, timing
<1>5. Away(timers', Disarmed)
  BY <1>4 DEF Forgot, Away
<1>6. Top.ev \notin Banned
  BY <1>1, <1>2, TopHarmless
<1>7. CASE ExpireSignals
  <2>1. PICK f : f = [Top EXCEPT !.at = "rearm"] /\ CoreSignalEvent(Top.ev, Append(Below, f), tpl)
    BY <1>7 DEF ExpireSignals
  <2>2. f.at = "rearm" /\ f.ev = Top.ev
    BY <1>1, <2>1 DEF Frames
  <2>3. Top.at = "signal" /\ Top.ev \in Timers
    BY <1>1, <1>7 DEF ExpireSignals, At, Shape
  <2>4. Top.ev \notin Disarmed
    BY <1>1, <2>3, TopHarmless DEF Arming, Holding
  <2>5. Harmless(f)
    BY <1>6, <2>2, <2>4 DEF Harmless, Ends
  <2>6. Derived(Append(Below, f), Cancel)
    BY <1>3, <2>5, DerivedAppend
  <2>7. Top.ev \in Events \ Banned
    BY <1>6, <2>3, EventAssumption
  <2> QED BY <1>4, <2>1, <2>6, <2>7, CoreSignalForgotten
<1>8. CASE WaitIdles
  <2>1. stack \in Seq(Frames) /\ stack # <<>> /\ Len(stack) \in Nat \ {0}
        /\ Top = stack[Len(stack)] /\ Below = SubSeq(stack, 1, Len(stack) - 1)
    BY TopFacts, EmptySeq DEF Inv, Top, Below
  <2>2. PICK f : f = [Top EXCEPT !.n = 1] /\ CoreSignalEvent(Idle, Append(Below, f), tpl)
    BY <1>8 DEF WaitIdles
  <2>3. f.at = Top.at /\ f.ev = Top.ev
    BY <1>1, <2>2 DEF Frames
  <2>4. Derived(Append(Below, f), Cancel)
    <3> DEFINE t == Append(Below, f)
    <3>1. Below \in Seq(Frames) /\ Len(Below) = Len(stack) - 1
          /\ \A i \in 1..Len(stack) - 1 : Below[i] = stack[i]
      BY <2>1, FrontLast DEF Front
    <3>2. /\ t \in Seq(Frames \cup {f}) /\ Len(t) = Len(stack)
          /\ \A i \in 1..Len(stack) - 1 : t[i] = Below[i]
          /\ t[Len(stack)] = f
      <4>1. Len(Below) + 1 = Len(stack)
        BY <2>1, <3>1
      <4> QED BY <3>1, <4>1, AnyAppended
    <3> HIDE DEF t
    <3>3. \A i \in 1..Len(stack) : t[i].at = stack[i].at /\ t[i].ev = stack[i].ev
      <4>1. \A i \in 1..Len(stack) : i = Len(stack) \/ i \in 1..Len(stack) - 1
        BY <2>1
      <4> QED BY <2>1, <2>3, <3>1, <3>2, <4>1
    <3>4. Derived(t, Cancel)
      BY <1>3, <3>2, <3>3, DerivedSame
    <3> QED BY <3>4 DEF t
  <2>5. Idle \in Events \ Banned
    BY BannedEvents, EventAssumption DEF Forgot
  <2> QED BY <1>4, <2>2, <2>4, <2>5, CoreSignalForgotten
<1>9. CASE WaitChecks
  <2>1. PICK p : p = Top.n
    OBVIOUS
  <2>2. p \in 1..Len(WaitList) /\ WaitList \in Seq(Events \ NotifySignal)
    <3>1. WaitList \in Seq(Events \ NotifySignal)
      BY EventAssumption
    <3>2. Top.n \in Nat \ {0} /\ Top.n <= Len(WaitList)
      BY <1>1, <1>9 DEF Shape, WaitChecks, At
    <3>3. Len(WaitList) \in Nat
      BY <3>1, LenProperties
    <3> QED BY <2>1, <3>1, <3>2, <3>3
  <2>3. WaitList[p] \in Events
    BY <2>2, ElementOfSeq
  <2>4. WaitList[p] \notin Finished
    BY <1>1, <1>9, <2>2, TopHarmless DEF WaitChecks, At, Away
  <2>5. WaitList[p] \notin Banned
    BY <2>4, BannedEvents
  <2>6. CoreCheckEvent(WaitList[p], stack)
    BY <1>9, <2>1 DEF WaitChecks
  <2> QED BY <1>3, <1>4, <2>3, <2>5, <2>6, CheckForgotten
<1>10. CASE Look
  <2>1. StackOK(Below, Top.to)
    BY <1>10, TopFacts, Pop DEF Inv, Look, At
  <2>2. \A ready \in BOOLEAN : Derived(Answer(ready, Below), Cancel)
    BY <1>3, <2>1, DerivedAnswer DEF StackOK, Body
  <2>3. stack' = Answer(FALSE, Below) \/ Release(Answer(TRUE, Below), Top.to)
    BY <1>10 DEF Look
  <2>4. Derived(stack', Cancel)
    <3>1. Derived(Answer(TRUE, Below), Cancel) /\ Derived(Answer(FALSE, Below), Cancel)
      BY <2>2
    <3> QED BY <2>3, <3>1, DerivedRelease
  <2>5. QueuesStay
    BY <1>10, QueuesSame DEF Look
  <2> QED BY <1>4, <1>5, <2>4, <2>5, ForgotStep
<1> QED BY <1>7, <1>8, <1>9, <1>10

-----------------------------------------------------------------------------
(* The sections under mEfiTimerLock.                                         *)

LEMMA NoneCancels ==
  ASSUME Inv, Top.at \in TimerLabels
  PROVE  /\ EvsAt(Below, Cancel) = {} /\ EvsAt(Below, Arming) = {}
         /\ Top.at # "TimerCancel" => Banned \subseteq Disarmed
<1>1. /\ Body(stack) /\ Top = Last(stack) /\ Below = Front(stack)
      /\ stack \in Seq(Frames) /\ Len(stack) \in Nat \ {0}
  BY TopFacts DEF Inv
<1>2. Len(Below) = Len(stack) - 1 /\ \A i \in 1..Len(stack) - 1 : Below[i] = stack[i]
  BY <1>1, EmptySeq, FrontLast
<1>3. ASSUME NEW i \in 1..Len(Below)
      PROVE  Below[i].at \notin TimerLabels
  <2>1. i \in 1..Len(stack) /\ Len(stack) \in 1..Len(stack) /\ i < Len(stack)
        /\ Below[i] = stack[i]
    BY <1>1, <1>2
  <2>2. Over(stack[i], stack[Len(stack)])
    BY <1>1, <2>1 DEF Body
  <2> QED BY <1>1, <2>1, <2>2 DEF Over, Last
<1>4. EvsAt(Below, Cancel) = {} /\ EvsAt(Below, Arming) = {}
  BY <1>3 DEF EvsAt, Cancel, Arming, Holding
<1>5. Top.at # "TimerCancel" => EvsAt(stack, Cancel) = {}
  <2>1. EvsAt(stack, Cancel) \subseteq EvsAt(Below, Cancel) \/ Top.at \in Cancel
    BY <1>1, EmptySeq, Drops
  <2> QED BY <1>4, <2>1 DEF Cancel
<1> QED BY <1>4, <1>5, BannedEvents DEF Disarmed, Cancel

LEMMA ExpireTakesForgotten ==
  ASSUME Inv, Forgot, ExpireTakes
  PROVE  Forgot'
<1>1. Top.at = "expire" /\ Top \in Frames
  BY TopFacts DEF ExpireTakes, At, Inv
<1>2. timers \in Seq(Timers) /\ timers # <<>>
  BY DEF ExpireTakes, HeadExpired, Inv, DataOK
<1>3. PICK e : e = Head(timers)
  OBVIOUS
<1>4. PICK f : f = [Top EXCEPT !.at = "signal", !.ev = e]
  OBVIOUS
<1>5. stack' = Append(Below, f) /\ timers' = Tail(timers)
      /\ UNCHANGED <<queue, signalQueue, status>>
  BY <1>3, <1>4 DEF ExpireTakes, database
<1>6. f.ev = e /\ f.at = "signal"
  BY <1>1, <1>4 DEF Frames
<1>7. /\ Len(timers) \in Nat \ {0} /\ timers[1] = e /\ Len(timers') = Len(timers) - 1
      /\ \A p \in 1..Len(timers') : timers'[p] = timers[p + 1]
  <2>1. Len(timers) \in Nat \ {0}
    BY <1>2, EmptySeq, LenProperties
  <2> QED BY <1>2, <1>3, <1>5, <2>1, HeadTailProperties
<1>8. \A p \in 1..Len(timers') : p + 1 \in 1..Len(timers)
  BY <1>7
<1>9. 1 \in 1..Len(timers)
  BY <1>7
<1>10. e \notin Disarmed /\ Away(timers', Disarmed)
  BY <1>7, <1>8, <1>9 DEF Forgot, Away
<1>11. e \notin Banned
  BY <1>1, <1>10, NoneCancels
<1>12. Harmless(f)
  BY <1>6, <1>10, <1>11 DEF Harmless, Ends
<1>13. Derived(stack', Cancel)
  <2>1. Derived(Below, Cancel)
    BY <1>1, DerivedBelow DEF Cancel
  <2> QED BY <1>5, <1>12, <2>1, DerivedAppend
<1>14. QueuesStay
  BY <1>5, QueuesSame
<1> QED BY <1>5, <1>10, <1>13, <1>14, ForgotStep

LEMMA SetTimerForgotten ==
  ASSUME Inv, Forgot, SetTimer
  PROVE  Forgot'
<1>1. Top.at \in {"TimerPeriodic", "TimerRelative"} /\ Top \in Frames
  BY TopFacts DEF SetTimer, Inv
<1>2. PICK e : e = Top.ev
  OBVIOUS
<1>3. \E delay : /\ timers' = Without(timers, e)
                 /\ stack' = Append(Below, [Top EXCEPT !.at = "insert", !.n = delay])
  BY Zenon, <1>2 DEF SetTimer
<1>4. PICK f : /\ timers' = Without(timers, e)
               /\ \E delay : f = [Top EXCEPT !.at = "insert", !.n = delay]
               /\ stack' = Append(Below, f)
  BY <1>3
<1>5. f.ev = e /\ f.at = "insert"
  BY <1>1, <1>2, <1>4 DEF Frames
<1>6. timers \in Seq(Timers)
  BY DEF Inv, DataOK
<1>7. \A p \in 1..Len(timers') : \E q \in 1..Len(timers) : timers'[p] = timers[q]
  BY <1>4, <1>6, WithoutElements
<1>8. Away(timers', Disarmed)
  BY <1>7 DEF Forgot, Away
<1>9. e \notin Banned /\ e \notin Disarmed
  BY <1>1, <1>2, TopHarmless DEF Forgot, Arming
<1>10. Harmless(f)
  BY <1>5, <1>9 DEF Harmless, Ends
<1>11. Derived(stack', Cancel)
  <2>1. Derived(Below, Cancel)
    BY <1>1, DerivedBelow DEF Cancel
  <2> QED BY <1>4, <1>10, <2>1, DerivedAppend
<1>12. UNCHANGED <<queue, signalQueue, status>>
  BY DEF SetTimer, database
<1>13. QueuesStay
  BY <1>12, QueuesSame
<1> QED BY <1>8, <1>11, <1>12, <1>13, ForgotStep

LEMMA InsertedAway ==
  ASSUME Inv, NEW e, NEW d, CoreInsertEventTimer(e, d), NEW B, Away(timers, B), e \notin B,
         e \in Timers, d \in [Events -> Int]
  PROVE  Away(timers', B)
<1> DEFINE n == Len(timers)
           c == timers'
<1>1. timers \in Seq(Timers) /\ n \in Nat
  BY LenProperties DEF Inv, DataOK
<1>2. PICK k \in 0..n :
        /\ Len(c) = n + 1
        /\ c[k + 1] = e
        /\ \A p \in 1..k : c[p] = timers[p]
        /\ \A p \in k + 1..n : c[p + 1] = timers[p]
  BY <1>1, InsertForm
<1> HIDE DEF c, n
<1>3. ASSUME NEW p \in 1..n + 1
      PROVE  c[p] = e \/ \E q \in 1..n : c[p] = timers[q]
  <2>1. CASE p <= k
    <3>1. p \in 1..k /\ p \in 1..n
      BY <1>1, <2>1
    <3> QED BY <1>2, <3>1
  <2>2. CASE p = k + 1
    BY <1>2, <2>2
  <2>3. CASE p > k + 1
    <3>1. PICK q \in k + 1..n : q = p - 1 /\ q + 1 = p /\ q \in 1..n
      BY <1>1, <2>3
    <3>2. c[q + 1] = timers[q]
      BY <1>2
    <3> QED BY <3>1, <3>2
  <2> QED BY <1>1, <2>1, <2>2, <2>3
<1> QED BY <1>2, <1>3 DEF Away, c, n

LEMMA InsertForgotten ==
  ASSUME Inv, Forgot, InsertTimer
  PROVE  Forgot'
<1>1. Top.at = "insert" /\ Top.ev \in Timers
  BY TopFacts DEF InsertTimer, At, Inv, Shape
<1>2. PICK e \in Timers : e = Top.ev
  BY <1>1
<1>3. PICK d \in [Events -> Int] : d = due
  BY DEF Inv, DataOK
<1>4. PICK f : f = Restore(Top.to)
  OBVIOUS
<1>5. CoreInsertEventTimer(e, d) /\ stack' = Append(Below, f)
      /\ UNCHANGED <<signalQueue, status>>
  BY <1>2, <1>3, <1>4 DEF InsertTimer
<1>6. e \notin Disarmed
  BY <1>1, <1>2, TopHarmless DEF Forgot, Arming, Holding
<1>7. Away(timers', Disarmed)
  BY <1>5, <1>6, InsertedAway DEF Forgot
<1>8. Derived(stack', Cancel)
  <2>1. Derived(Below, Cancel)
    BY <1>1, DerivedBelow DEF Cancel
  <2>2. Harmless(f)
    BY <1>4, RestoreHarmless
  <2> QED BY <1>5, <2>1, <2>2, DerivedAppend
<1>9. SignalSection(CheckTimers) \/ UNCHANGED queue
  BY DEF InsertTimer, database
<1>10. QueuesStay
  <2>1. CheckTimers \in All \ Banned
    BY BannedEvents DEF All
  <2> QED BY <1>9, <2>1, SectionStays, QueuesSame
<1> QED BY <1>5, <1>7, <1>8, <1>10, ForgotStep

LEMMA RearmForgotten ==
  ASSUME Inv, Inv', Forgot, Rearm
  PROVE  Forgot'
<1>1. Top.at = "rearm" /\ Top.ev \in Timers /\ Top \in Frames
  BY TopFacts DEF Rearm, At, Inv, Shape
<1>2. PICK e \in Timers : e = Top.ev
  BY <1>1
<1>3. PICK d \in [Events -> Int] : d = due'
  BY DEF Inv, DataOK
<1>4. PICK f : f = [Top EXCEPT !.at = "expire", !.ev = App]
  OBVIOUS
<1>5. stack' = Append(Below, f) /\ UNCHANGED <<signalQueue, status>>
      /\ (CoreInsertEventTimer(e, d) \/ UNCHANGED timers)
      /\ (SignalSection(CheckTimers) \/ UNCHANGED queue)
  BY <1>2, <1>3, <1>4 DEF Rearm, database
<1>6. f.at = "expire" /\ f.ev = App
  BY <1>1, <1>4 DEF Frames
<1>7. e \notin Disarmed
  BY <1>1, <1>2, TopHarmless DEF Forgot, Arming, Holding
<1>8. Away(timers', Disarmed)
  <2>1. CASE CoreInsertEventTimer(e, d)
    BY <1>7, <2>1, InsertedAway DEF Forgot
  <2>2. CASE UNCHANGED timers
    BY <2>2 DEF Forgot, Away
  <2> QED BY <1>5, <2>1, <2>2
<1>9. Derived(stack', Cancel)
  <2>1. Derived(Below, Cancel)
    BY <1>1, DerivedBelow DEF Cancel
  <2>2. Harmless(f)
    BY <1>6, BannedEvents DEF Harmless, Ends, Arming, Holding
  <2> QED BY <1>5, <2>1, <2>2, DerivedAppend
<1>10. QueuesStay
  <2>1. CheckTimers \in All \ Banned
    BY BannedEvents DEF All
  <2> QED BY <1>5, <2>1, SectionStays, QueuesSame
<1> QED BY <1>5, <1>8, <1>9, <1>10, ForgotStep

\* From here on a closing event is on the list of timers no more.
LEMMA CancelForgotten ==
  ASSUME Inv, Timely, Forgot, CancelTimer
  PROVE  Forgot'
<1>1. Top.at = "TimerCancel" /\ Top.at \in TimerLabels
  BY DEF CancelTimer, At
<1>2. PICK e : e = Top.ev
  OBVIOUS
<1>3. PICK f : f = Restore(Top.to)
  OBVIOUS
<1>4. /\ timers' = Without(timers, e) /\ stack' = Append(Below, f)
      /\ UNCHANGED <<queue, signalQueue, status>>
  BY <1>2, <1>3 DEF CancelTimer, database
<1>5. Derived(stack', {})
  <2>1. Derived(Below, {})
    BY DerivedBelow
  <2>2. Harmless(f)
    BY <1>3, RestoreHarmless
  <2> QED BY <1>4, <2>1, <2>2, DerivedAppend
<1>6. f.at = "restore"
  BY <1>3 DEF Restore, Frame
<1>7. stack \in Seq(Frames) /\ stack # <<>> /\ Below \in Seq(Frames)
      /\ Top = Last(stack) /\ Below = Front(stack)
  BY TopFacts, EmptySeq, FrontLast DEF Inv
<1>8. EvsAt(stack', Arming) = {}
  <2>1. EvsAt(Append(Below, f), Arming) \subseteq
          EvsAt(Below, Arming) \cup (IF f.at \in Arming THEN {f.ev} ELSE {})
    BY <1>7, GrowsBy
  <2> QED BY <1>1, <1>4, <1>6, <2>1, NoneCancels DEF Arming, Holding
<1>9. \A p \in 1..Len(stack') : stack'[p].at \notin Arming
  BY <1>8 DEF EvsAt
<1>10. Gone' = Gone /\ Unborn' = Unborn
  BY <1>4 DEF Gone, Unborn
<1>11. FramesClear'
  BY <1>5, <1>9, <1>10, FramesStep DEF Forgot
<1>12. /\ EvsAt(stack', Ends) \subseteq Leaving
       /\ EvsAt(stack', {"free"}) \subseteq EvsAt(stack, {"free"})
  BY <1>5, DerivedEvs
<1>13. Finished' \subseteq Finished /\ Banned' \subseteq Banned
  BY <1>10, <1>12 DEF Finished, Banned, Leaving
<1>14. EvsAt(stack, Cancel) \subseteq {e}
  <2>1. EvsAt(stack, Cancel) \subseteq EvsAt(Below, Cancel) \cup {Top.ev}
    BY <1>7, Drops
  <2> QED BY <1>1, <1>2, <2>1, NoneCancels
<1>15. Disarmed' \subseteq Disarmed \cup {e}
  BY <1>13, <1>14 DEF Disarmed, Cancel
<1>16. Away(timers', Disarmed')
  <2>1. timers \in Seq(Timers) /\ Distinct(timers)
    BY DEF Inv, DataOK, Timely, Times, Distinct
  <2>2. Away(Without(timers, e), Disarmed \cup {e})
    BY <2>1, RemovedDistinct DEF Forgot
  <2> QED BY <1>4, <1>15, <2>2 DEF Away
<1>17. QueuesClear'
  BY <1>4, <1>13 DEF Forgot, QueuesClear, Distinct, Away
<1>18. ListClear'
  BY <1>4, <1>10, <1>13 DEF Forgot, ListClear, Distinct, Away
<1> QED BY <1>11, <1>13, <1>16, <1>17, <1>18 DEF Forgot, Away

-----------------------------------------------------------------------------
(* The calls of code, and the tick.                                          *)

LEMMA UsableClear ==
  ASSUME Inv, OwnersClose, NEW e \in Events, Usable(e)
  PROVE  e \notin Finished /\ e \notin Banned /\ e \notin Disarmed
<1>1. e \notin Leaving
  BY Closings DEF OwnersClose, Usable
<1>2. e \notin Gone
  BY DEF Usable, Gone
<1> QED BY <1>1, <1>2, BannedEvents DEF Finished, Disarmed

\* The application calls when nothing else is under way.
LEMMA Alone ==
  ASSUME Inv, FramesClear, Running, Top.ev = App
  PROVE  /\ Len(stack) = 1 /\ Caller = stack /\ stack \in Seq(Frames)
         /\ stack[1].at = "code" /\ stack[1].ev = App /\ Leaving = {}
<1>1. Len(stack) \in 1..Len(stack) /\ Top = stack[Len(stack)] /\ stack \in Seq(Frames)
  BY TopFacts DEF Inv, Top
<1>2. Len(stack) = 1
  BY <1>1 DEF FramesClear, Running, At
<1>3. stack[1].at = "code" /\ stack[1].ev = App
  BY <1>1, <1>2 DEF Running, At
<1>4. Leaving = {}
  <2>1. \A i \in 1..Len(stack) : stack[i].at \notin Ends
    BY <1>2, <1>3 DEF Ends
  <2> QED BY <2>1 DEF Leaving, EvsAt
<1>5. Caller = stack
  BY DEF Caller
<1> QED BY <1>1, <1>2, <1>3, <1>4, <1>5

LEMMA AppendedAt ==
  ASSUME NEW S, NEW s \in Seq(S), NEW f, NEW n, n = Len(s) + 1
  PROVE  /\ Append(s, f) \in Seq(S \cup {f}) /\ Len(Append(s, f)) = n
         /\ Append(s, f)[n] = f
         /\ \A i \in 1..n - 1 : Append(s, f)[i] = s[i]
<1>1. /\ Append(s, f) \in Seq(S \cup {f}) /\ Len(Append(s, f)) = Len(s) + 1
      /\ \A i \in 1..Len(s) : Append(s, f)[i] = s[i]
      /\ Append(s, f)[Len(s) + 1] = f /\ Len(s) \in Nat
  BY AnyAppended
<1>2. n - 1 = Len(s)
  BY <1>1
<1> QED BY <1>1, <1>2

LEMMA CallsForgotten ==
  ASSUME Inv, Forgot, OwnersClose,
         NEW e \in Events, CallSignal(e) \/ CallCheck(e)
  PROVE  Forgot'
<1>1. Running /\ Usable(e)
  BY DEF CallSignal, CallCheck
<1>2. e \in Events \ Banned
  BY <1>1, UsableClear
<1>3. Derived(Caller, Cancel)
  BY <1>1, DerivedCaller
<1>4. UNCHANGED <<signalQueue, status, timers>>
  BY DEF CallSignal, CallCheck, timing
<1> QED BY <1>2, <1>3, <1>4, CoreSignalForgotten, CheckForgotten DEF CallSignal, CallCheck

LEMMA SetForgotten ==
  ASSUME Inv, Forgot, OwnersClose, NEW a \in Arms, CallSetTimer(a[2], a[3], a[4])
  PROVE  Forgot'
<1>1. PICK e, type : e = a[2] /\ type = a[3]
  OBVIOUS
<1>2. e \in Events /\ type \in TimerTypes
  BY <1>1, EventAssumption
<1>3. PICK f : f.at = type /\ f.ev = e /\ stack' = Append(Caller, f)
  BY <1>1 DEF CallSetTimer, Frame
<1>4. Running /\ Usable(e) /\ UNCHANGED <<queue, signalQueue, status, timers>>
  BY <1>1 DEF CallSetTimer, database, timing
<1>5. e \notin Banned /\ e \notin Disarmed
  BY <1>2, <1>4, UsableClear
<1>6. Harmless(f)
  BY <1>2, <1>3, <1>5 DEF Harmless, Ends, TimerTypes
<1>7. Derived(stack', Cancel)
  BY <1>3, <1>4, <1>6, DerivedCaller, DerivedAppend
<1>8. QueuesStay /\ Away(timers', Disarmed)
  BY <1>4, QueuesSame DEF Forgot, Away
<1> QED BY <1>4, <1>7, <1>8, ForgotStep

LEMMA RaiseForgotten ==
  ASSUME Inv, Forgot, NEW l, CallRaise(l)
  PROVE  Forgot'
<1>1. Running /\ stack' = Caller /\ UNCHANGED <<queue, signalQueue, status, timers>>
  BY DEF CallRaise, database, timing
<1>2. Derived(stack', Cancel)
  BY <1>1, DerivedCaller
<1>3. QueuesStay /\ Away(timers', Disarmed)
  BY <1>1, QueuesSame DEF Forgot, Away
<1> QED BY <1>1, <1>2, <1>3, ForgotStep

LEMMA TickForgotten ==
  ASSUME Inv, Forgot, NEW d \in Durations, Tick(d)
  PROVE  Forgot'
<1> DEFINE n == Len(stack)
           aged == FramesAt(CheckSections)
           isr == Frame("isr", tpl, App, 0)
           same == [i \in 1..n |-> IF i \in aged THEN [stack[i] EXCEPT !.n = @ + d]
                                   ELSE stack[i]]
           base == [i \in 1..n + 1 |->
                      IF i > n THEN isr
                      ELSE IF i \in aged THEN [stack[i] EXCEPT !.n = @ + d]
                      ELSE stack[i]]
<1>1. Release(base, tpl) /\ UNCHANGED <<signalQueue, status, timers>>
      /\ (SignalSection(CheckTimers) \/ UNCHANGED queue)
  BY DEF Tick, database
<1>2. n \in Nat \ {0} /\ (\A i \in 1..n : stack[i] \in Frames)
      /\ stack \in Seq(Frames)
  BY TopFacts DEF Inv, Body, Shape
<1>3. \A i \in 1..n : same[i].at = stack[i].at /\ same[i].ev = stack[i].ev
  BY <1>2 DEF Frames
<1>4. same \in Seq({same[i] : i \in 1..n}) /\ Len(same) = n
  <2> DEFINE S == {same[i] : i \in 1..n}
  <2>1. DOMAIN same = 1..n /\ same = [i \in 1..n |-> same[i]]
    OBVIOUS
  <2> HIDE DEF same
  <2>2. same \in [1..n -> S]
    BY <2>1
  <2> HIDE DEF S
  <2>3. same \in Seq(S)
    BY <1>2, <2>2, SeqDef
  <2> QED BY <1>2, <2>1, <2>3, LenProperties DEF S
<1>5. base = Append(same, isr)
  BY <1>2, <1>4
<1>6. isr.at = "isr" /\ isr.ev = App
  BY DEF Frame
<1> HIDE DEF base, same, isr
<1>7. Derived(same, Cancel)
  <2>1. Derived(stack, Cancel) /\ Len(same) = Len(stack)
    BY <1>4, DerivedStack
  <2> QED BY <1>3, <1>4, <2>1, DerivedSame
<1>8. Harmless(isr)
  BY <1>6, BannedEvents DEF Harmless, Ends, Arming, Holding
<1>9. Derived(base, Cancel)
  BY <1>5, <1>7, <1>8, DerivedAppend
<1>10. Derived(stack', Cancel)
  BY <1>1, <1>9, DerivedRelease
<1>11. QueuesStay
  <2>1. CheckTimers \in All \ Banned
    BY BannedEvents DEF All
  <2> QED BY <1>1, <2>1, SectionStays, QueuesSame
<1>12. Away(timers', Disarmed)
  BY <1>1 DEF Forgot, Away
<1> QED BY <1>1, <1>10, <1>11, <1>12, ForgotStep

LEMMA WaitForgotten ==
  ASSUME Inv, Forgot, OwnersClose, CallWait
  PROVE  Forgot'
<1>1. Running /\ Top.ev = App /\ FramesClear
  BY DEF CallWait, Forgot
<1>2. /\ Len(stack) = 1 /\ Caller = stack /\ stack \in Seq(Frames)
      /\ stack[1].at = "code" /\ stack[1].ev = App /\ Leaving = {}
  BY <1>1, Alone
<1>3. PICK f : f = Frame("wait", Application, App, 1)
  OBVIOUS
<1>4. f.at = "wait" /\ f.ev = App
  BY <1>3 DEF Frame
<1>5. stack' = Append(stack, f) /\ UNCHANGED <<queue, signalQueue, status, timers>>
  BY <1>2, <1>3 DEF CallWait, database, timing
<1>6. PICK t : t = stack'
  OBVIOUS
<1>7. Len(t) = 2 /\ t[1] = stack[1] /\ t[2] = f
  <2>1. stack \in Seq(Frames) /\ 2 = Len(stack) + 1
    BY <1>2
  <2>2. /\ Len(Append(stack, f)) = 2 /\ Append(stack, f)[2] = f
        /\ \A i \in 1..2 - 1 : Append(stack, f)[i] = stack[i]
    BY <2>1, AppendedAt
  <2>3. Append(stack, f)[1] = stack[1]
    BY <2>2
  <2> QED BY <1>5, <1>6, <2>2, <2>3
<1>8. Gone' = Gone /\ Unborn' = Unborn
  BY <1>5 DEF Gone, Unborn
<1>9. \A L : "code" \notin L /\ "wait" \notin L => EvsAt(t, L) = {}
  BY <1>2, <1>4, <1>7 DEF EvsAt
<1>10. Leaving' = {} /\ EvsAt(stack', {"free"}) = {}
  BY <1>6, <1>9 DEF Leaving, Ends
<1>11. Finished' \subseteq Finished /\ Banned' \subseteq Banned
  BY <1>8, <1>10 DEF Finished, Banned
<1>12. Disarmed' \subseteq Disarmed
  <2>1. EvsAt(stack, Cancel) = {}
    BY <1>2 DEF EvsAt, Cancel
  <2> QED BY <1>11, <2>1 DEF Disarmed, Cancel
<1>13. Away(WaitList, Finished')
  <2>1. WaitList \in Seq(Events \ NotifySignal)
    BY EventAssumption
  <2>2. \A i \in 1..Len(WaitList) : WaitList[i] \in Events /\ Usable(WaitList[i])
    BY <2>1, LenProperties, ElementOfSeq DEF CallWait
  <2>3. \A i \in 1..Len(WaitList) : WaitList[i] \notin Finished
    BY <2>2, UsableClear
  <2> QED BY <1>11, <2>3 DEF Away
<1>14. FramesClear'
  <2>1. App \notin Gone'
    BY <1>8, BannedEvents DEF Gone
  <2>2. \A p \in 1..Len(t) : p = 1 \/ p = 2
    BY <1>7
  <2>3. \A q \in 1..Len(t) : t[q].at \notin Ends \cup Arming
    BY <1>2, <1>4, <1>7, <2>2 DEF Ends, Arming, Holding
  <2>4. \A p \in 1..Len(t) : /\ t[p].ev \notin Gone'
                             /\ t[p].at = "code" /\ t[p].ev = App => p = 1
    BY <1>2, <1>4, <1>7, <2>1, <2>2
  <2> QED BY <1>6, <1>13, <2>3, <2>4 DEF FramesClear, Ends
<1>15. QueuesClear'
  BY <1>5, <1>11 DEF Forgot, QueuesClear, Distinct, Away
<1>16. ListClear'
  BY <1>5, <1>8, <1>11 DEF Forgot, ListClear, Distinct, Away
<1> QED BY <1>5, <1>11, <1>12, <1>14, <1>15, <1>16 DEF Forgot, Away

LEMMA CloseForgotten ==
  ASSUME Inv, Forgot, OwnersClose, NEW e \in Events, CallClose(e)
  PROVE  Forgot'
<1>1. Running /\ Usable(e) /\ Top.ev = App /\ e # Idle /\ FramesClear
  <2>1. <<Top.ev, e>> \in {App} \X (Events \ {Idle})
    BY DEF CallClose, OwnersClose
  <2> QED BY <2>1 DEF CallClose, Forgot
<1>2. /\ Len(stack) = 1 /\ Caller = stack /\ stack \in Seq(Frames)
      /\ stack[1].at = "code" /\ stack[1].ev = App /\ Leaving = {}
  BY <1>1, Alone
<1>3. e \notin Finished /\ e # App
  BY <1>1, UsableClear, BannedEvents
<1>4. PICK f, g : f = Frame("unlink", tpl, e, 0) /\ g = Frame("TimerCancel", tpl, e, 0)
  OBVIOUS
<1>5. f.at = "unlink" /\ f.ev = e /\ g.at = "TimerCancel" /\ g.ev = e
  BY <1>4 DEF Frame
<1>6. UNCHANGED <<queue, signalQueue, status, timers>>
  BY DEF CallClose, database, timing
<1>7. \/ e \in Timers /\ stack' = Append(Append(stack, f), g)
      \/ e \notin Timers /\ stack' = Append(stack, f)
  BY <1>2, <1>4 DEF CallClose
<1>8. PICK t : t = stack'
  OBVIOUS
<1>9. PICK m \in {2, 3} : /\ Len(t) = m /\ t[1] = stack[1] /\ t[2] = f
                          /\ m = 3 => t[3] = g
                          /\ e \in Timers => m = 3
  <2>1. PICK b : b = Append(stack, f)
    OBVIOUS
  <2>2. b \in Seq(Frames \cup {f}) /\ Len(b) = 2 /\ b[1] = stack[1] /\ b[2] = f
    <3>1. stack \in Seq(Frames) /\ 2 = Len(stack) + 1
      BY <1>2
    <3>2. /\ b \in Seq(Frames \cup {f}) /\ Len(b) = 2 /\ b[2] = f
          /\ \A i \in 1..2 - 1 : b[i] = stack[i]
      BY <2>1, <3>1, AppendedAt
    <3> QED BY <3>2
  <2>3. /\ Len(Append(b, g)) = 3 /\ Append(b, g)[1] = b[1] /\ Append(b, g)[2] = b[2]
        /\ Append(b, g)[3] = g
    <3>1. b \in Seq(Frames \cup {f}) /\ 3 = Len(b) + 1
      BY <2>2
    <3>2. /\ Len(Append(b, g)) = 3 /\ Append(b, g)[3] = g
          /\ \A i \in 1..3 - 1 : Append(b, g)[i] = b[i]
      BY <3>1, AppendedAt
    <3> QED BY <3>2
  <2> QED BY <1>7, <1>8, <2>1, <2>2, <2>3
<1>10. \A p \in 1..Len(t) : \/ p = 1 /\ t[p].at = "code" /\ t[p].ev = App
                            \/ p = 2 /\ t[p].at = "unlink" /\ t[p].ev = e
                            \/ p = 3 /\ t[p].at = "TimerCancel" /\ t[p].ev = e
  BY <1>2, <1>5, <1>9
<1>11. Gone' = Gone /\ Unborn' = Unborn
  BY <1>6 DEF Gone, Unborn
<1>12. Leaving' \subseteq {e} /\ EvsAt(stack', {"free"}) = {}
  BY <1>8, <1>10 DEF Leaving, EvsAt, Ends
<1>13. Finished' \subseteq Finished \cup {e} /\ Banned' \subseteq Banned
  BY <1>11, <1>12 DEF Finished, Banned
<1>14. Disarmed' \subseteq Disarmed \cup {e} /\ (e \in Timers => e \notin Disarmed')
  <2>1. EvsAt(stack, Cancel) = {}
    BY <1>2 DEF EvsAt, Cancel
  <2>2. e \in Timers => e \in EvsAt(stack', Cancel)
    <3>1. e \in Timers => 3 \in 1..Len(t) /\ t[3].at = "TimerCancel" /\ t[3].ev = e
      BY <1>5, <1>9
    <3> QED BY <1>8, <3>1 DEF EvsAt, Cancel
  <2> QED BY <1>13, <2>1, <2>2 DEF Disarmed, Cancel
<1>15. FramesClear'
  <2>1. App \notin Gone' /\ e \notin Gone'
    BY <1>3, <1>11, BannedEvents DEF Gone, Finished
  <2>2. \A p \in 1..Len(t) : /\ t[p].ev \notin Gone' /\ t[p].at \notin Arming
                             /\ t[p].at = "code" /\ t[p].ev = App => p = 1
                             /\ t[p].at \notin {"wait", "free"}
    BY <1>3, <1>10, <2>1 DEF Arming, Holding
  <2>3. \A p, q \in 1..Len(t) : p < q /\ t[q].at \in Ends => t[p].ev # t[q].ev
    <3> SUFFICES ASSUME NEW p \in 1..Len(t), NEW q \in 1..Len(t), p < q, t[q].at \in Ends
                 PROVE  t[p].ev # t[q].ev
      OBVIOUS
    <3>1. q = 2 /\ t[q].ev = e
      BY <1>10 DEF Ends
    <3>2. p = 1 /\ t[p].ev = App
      BY <1>10, <3>1
    <3> QED BY <1>3, <3>1, <3>2
  <2> QED BY <1>8, <2>2, <2>3 DEF FramesClear
<1>16. Away(timers', Disarmed')
  <2>1. timers \in Seq(Timers)
    BY DEF Inv, DataOK
  <2>2. \A p \in 1..Len(timers) : timers[p] \in Timers
    BY <2>1, ElementOfSeq
  <2> QED BY <1>6, <1>14, <2>2 DEF Forgot, Away
<1>17. QueuesClear'
  BY <1>6, <1>13 DEF Forgot, QueuesClear, Distinct, Away
<1>18. ListClear'
  BY <1>6, <1>11, <1>13 DEF Forgot, ListClear, Distinct, Away
<1> QED BY <1>1, <1>13, <1>15, <1>16, <1>17, <1>18 DEF Forgot, Away

\* A new event of signal type heads gEventSignalQueue.
LEMMA CreateForgotten ==
  ASSUME Inv, Forgot, NEW e \in Events, CallCreate(e)
  PROVE  Forgot'
<1>1. Running /\ status[e] = "none" /\ UNCHANGED <<queue, timers>>
  BY DEF CallCreate, timing
<1>2. /\ status' = [status EXCEPT ![e] = "live"] /\ e \in All
      /\ status \in [All -> {"none", "live", "freed"}]
  BY DEF CallCreate, All, Inv, DataOK
<1>3. Gone' = Gone /\ Unborn' = Unborn \ {e} /\ e \in Unborn
  BY <1>1, <1>2 DEF Gone, Unborn, All
<1>4. Derived(stack', Cancel)
  <2>1. Derived(Caller, Cancel)
    BY <1>1, DerivedCaller
  <2> QED BY <2>1, DerivedRelease DEF CallCreate
<1>5. /\ EvsAt(stack', Ends) \subseteq Leaving
      /\ EvsAt(stack', {"free"}) \subseteq EvsAt(stack, {"free"})
      /\ EvsAt(stack, Cancel) \subseteq EvsAt(stack', Cancel)
  BY <1>4, DerivedEvs
<1>6. Finished' \subseteq Finished /\ Banned' \subseteq Banned /\ Disarmed' \subseteq Disarmed
  BY <1>3, <1>5 DEF Finished, Banned, Disarmed, Leaving, Cancel
<1>7. \A p \in 1..Len(stack') : stack'[p].at \in Arming => stack'[p].ev \notin Disarmed'
  BY <1>4, <1>6, ArmingAway DEF Forgot
<1>8. FramesClear'
  BY <1>3, <1>4, <1>7, FramesStep DEF Forgot
<1>9. QueuesClear'
  BY <1>1, <1>6 DEF Forgot, QueuesClear, Distinct, Away
<1>10. ListClear'
  <2>1. PICK s \in Seq(NotifySignal) : s = signalQueue
    BY DEF Inv, DataOK
  <2>2. Distinct(s) /\ Away(s, Banned \cup Unborn)
    BY <2>1 DEF Forgot, ListClear
  <2>3. CASE e \notin NotifySignal
    <3>1. signalQueue' = s
      BY <2>1, <2>3 DEF CallCreate
    <3> QED BY <1>3, <1>6, <2>2, <3>1 DEF ListClear, Distinct, Away
  <2>4. CASE e \in NotifySignal
    <3>1. PICK c : c = <<e>> \o s
      OBVIOUS
    <3>2. signalQueue' = c
      BY <2>1, <2>4, <3>1 DEF CallCreate
    <3>3. /\ Len(s) \in Nat /\ Len(c) = Len(s) + 1 /\ c[1] = e
          /\ \A p \in 1..Len(s) : c[p + 1] = s[p]
      <4>1. <<e>> \in Seq({e}) /\ Len(<<e>>) = 1 /\ <<e>>[1] = e
        OBVIOUS
      <4>2. s \in Seq(NotifySignal \cup {e}) /\ <<e>> \in Seq(NotifySignal \cup {e})
        BY <2>4
      <4> QED BY <3>1, <4>1, <4>2, ConcatProperties, LenProperties
    <3>4. ASSUME NEW p \in 1..Len(c)
          PROVE  (p = 1 /\ c[p] = e) \/ \E q \in 1..Len(s) : p = q + 1 /\ c[p] = s[q]
      <4>1. CASE p = 1
        BY <3>3, <4>1
      <4>2. CASE p # 1
        <5>1. PICK q \in 1..Len(s) : p = q + 1
          <6>1. p - 1 \in 1..Len(s) /\ p = p - 1 + 1
            BY <3>3, <4>2
          <6> QED BY <6>1
        <5> QED BY <3>3, <5>1
      <4> QED BY <4>1, <4>2
    <3>5. \A q \in 1..Len(s) : s[q] # e
      BY <1>3, <2>2 DEF Away
    <3>6. Distinct(c)
      <4> SUFFICES ASSUME NEW p \in 1..Len(c), NEW q \in 1..Len(c), p < q
                   PROVE  c[p] # c[q]
        BY DEF Distinct
      <4>1. PICK j \in 1..Len(s) : q = j + 1 /\ c[q] = s[j]
        BY <3>3, <3>4
      <4>2. CASE p = 1 /\ c[p] = e
        BY <3>5, <4>1, <4>2
      <4>3. CASE \E i \in 1..Len(s) : p = i + 1 /\ c[p] = s[i]
        <5>1. PICK i \in 1..Len(s) : p = i + 1 /\ c[p] = s[i]
          BY <4>3
        <5>2. i < j
          BY <4>1, <5>1
        <5> QED BY <2>2, <4>1, <5>1, <5>2 DEF Distinct
      <4> QED BY <3>4, <4>2, <4>3
    <3>7. e \notin Banned
      <4>1. e \notin EvsAt(stack, {"free"})
        <5>1. Top.ev = App /\ FramesClear
          BY DEF CallCreate, Forgot
        <5> QED BY <1>1, <5>1, Alone, BannedEvents
      <4> QED BY <1>1, <4>1 DEF Banned, Gone
    <3>8. Away(c, Banned' \cup Unborn')
      BY <1>3, <1>6, <2>2, <3>4, <3>7 DEF Away
    <3> QED BY <3>2, <3>6, <3>8 DEF ListClear
  <2> QED BY <2>3, <2>4
<1>11. Away(timers', Disarmed') /\ Idle \notin Finished'
  BY <1>1, <1>6 DEF Forgot, Away
<1> QED BY <1>8, <1>9, <1>10, <1>11 DEF Forgot

-----------------------------------------------------------------------------
(* The second half of CoreCloseEvent.                                        *)

LEMMA UnlinkForgotten ==
  ASSUME Inv, Forgot, Unlink
  PROVE  Forgot'
<1> DEFINE n == Len(stack)
<1>1. /\ Top.at = "unlink" /\ Top \in Frames /\ Top.ev \in Events /\ FramesClear
      /\ stack \in Seq(Frames) /\ stack # <<>> /\ n \in Nat \ {0}
      /\ Top = stack[n] /\ Below = Front(stack)
  BY TopFacts, EmptySeq DEF Unlink, At, Inv, Shape, Forgot, Top
<1>2. PICK e \in Events : e = Top.ev
  BY <1>1
<1>3. PICK f, g : f = [Top EXCEPT !.at = "free"] /\ g = Restore(Top.to)
  OBVIOUS
<1>4. f.at = "free" /\ f.ev = e /\ g.at = "restore" /\ g.ev = App
  BY <1>1, <1>2, <1>3 DEF Frames, Restore, Frame
<1>5. /\ stack' = Append(Append(Below, f), g) /\ UNCHANGED <<status, timers>>
      /\ queue' = [queue EXCEPT ![TplOf(e)] = Without(@, e)]
      /\ signalQueue' = Without(signalQueue, e)
  BY <1>2, <1>3 DEF Unlink, Release, timing
<1>6. PICK t : t = stack'
  OBVIOUS
<1>7. /\ Len(t) = n + 1 /\ t[n] = f /\ t[n + 1] = g
      /\ \A p \in 1..n - 1 : t[p] = stack[p]
  <2>1. /\ Below \in Seq(Frames) /\ Len(Below) = n - 1
        /\ \A p \in 1..n - 1 : Below[p] = stack[p]
    BY <1>1, FrontLast
  <2>2. PICK b : b = Append(Below, f)
    OBVIOUS
  <2>3. /\ b \in Seq(Frames \cup {f}) /\ Len(b) = n /\ b[n] = f
        /\ \A p \in 1..n - 1 : b[p] = Below[p]
    <3>1. n - 1 + 1 = n
      BY <1>1
    <3> QED BY <2>1, <2>2, <3>1, AnyAppended
  <2>4. /\ Len(Append(b, g)) = n + 1 /\ Append(b, g)[n + 1] = g
        /\ \A p \in 1..n : Append(b, g)[p] = b[p]
    BY <2>3, AnyAppended
  <2>5. \A p \in 1..n - 1 : p \in 1..n
    BY <1>1
  <2>6. n \in 1..n
    BY <1>1
  <2> QED BY <1>5, <1>6, <2>1, <2>2, <2>3, <2>4, <2>5, <2>6
<1> HIDE DEF n
<1>8. ASSUME NEW p \in 1..Len(t)
      PROVE  \/ /\ p \in 1..n /\ t[p].ev = stack[p].ev
                /\ \/ p < n /\ t[p].at = stack[p].at
                   \/ p = n /\ t[p].at = "free" /\ stack[p].at = "unlink" /\ t[p].ev = e
             \/ p = n + 1 /\ t[p].at = "restore" /\ t[p].ev = App
  <2>1. p \in 1..n - 1 \/ p = n \/ p = n + 1
    BY <1>1, <1>7
  <2>2. CASE p \in 1..n - 1
    BY <1>1, <1>7, <2>2
  <2>3. CASE p = n
    BY <1>1, <1>2, <1>4, <1>7, <2>3
  <2>4. CASE p = n + 1
    BY <1>4, <1>7, <2>4
  <2> QED BY <2>1, <2>2, <2>3, <2>4
<1>9. ASSUME NEW p \in 1..n
      PROVE  /\ p \in 1..Len(t) /\ t[p].ev = stack[p].ev
             /\ stack[p].at # "unlink" => t[p].at = stack[p].at
  <2>1. p \in 1..Len(t) /\ p # n + 1
    BY <1>1, <1>7
  <2> QED BY <1>1, <1>8, <2>1
<1>10. Leaving' \subseteq Leaving
  <2>1. \A p \in 1..Len(t) : t[p].at \in Ends =>
          p \in 1..n /\ stack[p].at \in Ends /\ t[p].ev = stack[p].ev
    BY <1>8 DEF Ends
  <2> QED BY <1>6, <2>1 DEF Leaving, EvsAt, n
<1>11. EvsAt(stack', {"free"}) \subseteq EvsAt(stack, {"free"}) \cup {e}
  <2>1. \A p \in 1..Len(t) : t[p].at = "free" =>
          t[p].ev = e \/ (p \in 1..n /\ stack[p].at = "free" /\ t[p].ev = stack[p].ev)
    BY <1>8
  <2> QED BY <1>6, <2>1 DEF EvsAt, n
<1>12. EvsAt(stack, Cancel) \subseteq EvsAt(stack', Cancel)
  <2>1. \A p \in 1..n : stack[p].at \in Cancel =>
          p \in 1..Len(t) /\ t[p].at \in Cancel /\ t[p].ev = stack[p].ev
    BY <1>9 DEF Cancel
  <2> QED BY <1>6, <2>1 DEF EvsAt, n
<1>13. Gone' = Gone /\ Unborn' = Unborn
  BY <1>5 DEF Gone, Unborn
<1>14. /\ Finished' \subseteq Finished /\ Banned' \subseteq Banned \cup {e}
       /\ Disarmed' \subseteq Disarmed
  BY <1>10, <1>11, <1>12, <1>13 DEF Finished, Banned, Disarmed, Cancel
<1>15. App \notin Gone /\ App # e
  BY BannedEvents DEF Gone
<1>16. FramesClear'
  <2>1. ASSUME NEW p \in 1..Len(t)
        PROVE  /\ t[p].ev \notin Gone'
               /\ t[p].at = "code" /\ t[p].ev = App => p = 1
               /\ t[p].at \in Arming => t[p].ev \notin Disarmed'
               /\ t[p].at = "wait" => Away(WaitList, Finished')
    <3>1. CASE p \in 1..n /\ t[p].ev = stack[p].ev /\ (t[p].at = stack[p].at \/ t[p].at = "free")
      <4>1. /\ stack[p].ev \notin Gone
            /\ stack[p].at = "code" /\ stack[p].ev = App => p = 1
            /\ stack[p].at \in Arming => stack[p].ev \notin Disarmed
            /\ stack[p].at = "wait" => Away(WaitList, Finished)
        BY <1>1, <3>1 DEF FramesClear, n
      <4> QED BY <1>13, <1>14, <3>1, <4>1 DEF Away, Arming, Holding
    <3>2. CASE t[p].at = "restore" /\ t[p].ev = App
      BY <1>13, <1>15, <3>2 DEF Arming, Holding
    <3> QED BY <1>8, <3>1, <3>2
  <2>2. ASSUME NEW p \in 1..Len(t), NEW q \in 1..Len(t), t[q].at \in Ends, p # q,
               p < q \/ t[q].at = "free"
        PROVE  t[p].ev # t[q].ev
    <3>1. q \in 1..n /\ t[q].ev = stack[q].ev /\ stack[q].at \in Ends
          /\ (q = n \/ t[q].at = stack[q].at)
      BY <1>8, <2>2 DEF Ends
    <3>2. CASE p = n + 1 /\ t[p].ev = App
      <4>1. stack[q].ev \in Leaving
        BY <3>1 DEF Leaving, EvsAt, n
      <4> QED BY <3>1, <3>2, <4>1, BannedEvents
    <3>3. CASE p \in 1..n /\ t[p].ev = stack[p].ev
      <4>1. p < q \/ stack[q].at = "free"
        <5>1. q = n => p < q
          BY <1>1, <2>2, <3>3
        <5> QED BY <2>2, <3>1, <5>1
      <4> QED BY <1>1, <2>2, <3>1, <3>3, <4>1 DEF FramesClear, n
    <3> QED BY <1>8, <3>2, <3>3
  <2>3. \A p, q \in 1..Len(t) :
           /\ p < q /\ t[q].at \in Ends => t[p].ev # t[q].ev
           /\ p # q /\ t[q].at = "free" => t[p].ev # t[q].ev
    <3> TAKE p, q \in 1..Len(t)
    <3>1. p < q => p # q
      BY <1>1, <1>7
    <3> QED BY <2>2, <3>1 DEF Ends
  <2> QED BY <1>6, <2>1, <2>3 DEF FramesClear
<1>17. QueuesClear'
  <2>1. PICK l : l = TplOf(e)
    OBVIOUS
  <2>2. e \in All /\ l \in Levels /\ queue[l] \in Seq(All)
    BY <2>1, QueuedAt DEF All
  <2>3. Distinct(queue[l]) /\ Away(queue[l], Banned)
    BY <2>2 DEF Forgot, QueuesClear
  <2>4. Distinct(Without(queue[l], e)) /\ Away(Without(queue[l], e), Banned \cup {e})
    BY <2>2, <2>3, RemovedDistinct
  <2>5. queue'[l] = Without(queue[l], e) /\ \A m \in Levels : m # l => queue'[m] = queue[m]
    BY <1>5, <2>1, <2>2 DEF Inv, DataOK, QueuesOK
  <2>6. ASSUME NEW m \in Levels, m # l
        PROVE  Distinct(queue[m]) /\ Away(queue[m], Banned \cup {e})
    <3>1. Distinct(queue[m]) /\ Away(queue[m], Banned)
      BY DEF Forgot, QueuesClear
    <3>2. \A p \in 1..Len(queue[m]) : TplOf(queue[m][p]) = m
      BY DEF Inv, DataOK, QueuesOK
    <3>3. \A p \in 1..Len(queue[m]) : queue[m][p] # e
      BY <2>1, <2>6, <3>2
    <3> QED BY <3>1, <3>3 DEF Away
  <2>7. \A m \in Levels : Distinct(queue'[m]) /\ Away(queue'[m], Banned \cup {e})
    <3> TAKE m \in Levels
    <3>1. CASE m = l
      BY <2>4, <2>5, <3>1
    <3>2. CASE m # l
      BY <2>5, <2>6, <3>2
    <3> QED BY <3>1, <3>2
  <2>8. \A m \in Levels : Distinct(queue'[m]) /\ Away(queue'[m], Banned')
    BY <1>14, <2>7 DEF Away
  <2> QED BY <2>8 DEF QueuesClear, Distinct, Away
<1>18. ListClear'
  <2>1. PICK s \in Seq(NotifySignal) : s = signalQueue
    BY DEF Inv, DataOK
  <2>2. Distinct(s) /\ Away(s, Banned \cup Unborn)
    BY <2>1 DEF Forgot, ListClear
  <2>3. /\ Distinct(Without(s, e))
        /\ Away(Without(s, e), (Banned \cup Unborn) \cup {e})
    BY <2>2, RemovedDistinct
  <2>4. PICK c : c = Without(s, e)
    OBVIOUS
  <2>5. Away(c, Banned' \cup Unborn') /\ Distinct(c) /\ signalQueue' = c
    BY <1>5, <1>13, <1>14, <2>1, <2>3, <2>4 DEF Away
  <2> QED BY <2>5 DEF ListClear
<1>19. Away(timers', Disarmed') /\ Idle \notin Finished'
  BY <1>5, <1>14 DEF Forgot, Away
<1> QED BY <1>16, <1>17, <1>18, <1>19 DEF Forgot

LEMMA FreeForgotten ==
  ASSUME Inv, Forgot, Free
  PROVE  Forgot'
<1> DEFINE n == Len(stack)
<1>1. /\ Top.at = "free" /\ Top.ev \in Events /\ FramesClear
      /\ stack \in Seq(Frames) /\ stack # <<>> /\ n \in Nat \ {0}
      /\ Top = stack[n] /\ Below = Front(stack)
  BY TopFacts, EmptySeq DEF Free, At, Inv, Shape, Forgot, Top
<1>2. PICK e \in Events : e = Top.ev
  BY <1>1
<1>3. /\ stack' = Below /\ UNCHANGED <<queue, signalQueue, timers>>
      /\ status' = [status EXCEPT ![e] = "freed"]
  BY <1>2 DEF Free, timing
<1>4. Len(stack') = n - 1 /\ \A p \in 1..n - 1 : stack'[p] = stack[p]
  BY <1>1, <1>3, FrontLast
<1> HIDE DEF n
<1>5. \A p \in 1..n - 1 : p \in 1..n /\ p < n /\ n \in 1..n
  BY <1>1
<1>6. n \in 1..n
  BY <1>1
<1>7. e \in EvsAt(stack, {"free"})
  BY <1>1, <1>2, <1>6 DEF EvsAt, n
<1>8. Gone' = Gone \cup {e} /\ Unborn' \subseteq Unborn
  <2>1. \A x \in Events : status'[x] = IF x = e THEN "freed" ELSE status[x]
    BY <1>3 DEF Inv, DataOK, All
  <2> QED BY <2>1 DEF Gone, Unborn
<1>9. Derived(stack', Cancel)
  BY <1>1, <1>3, DerivedBelow DEF Cancel
<1>10. /\ EvsAt(stack', Ends) \subseteq Leaving
       /\ EvsAt(stack', {"free"}) \subseteq EvsAt(stack, {"free"})
       /\ EvsAt(stack, Cancel) \subseteq EvsAt(stack', Cancel)
  BY <1>9, DerivedEvs
<1>11. Finished' \subseteq Finished /\ Banned' \subseteq Banned /\ Disarmed' \subseteq Disarmed
  <2>1. e \in Leaving /\ e \in Banned
    BY <1>7, BannedEvents DEF Banned
  <2>2. Finished' \subseteq Finished
    BY <1>8, <1>10, <2>1 DEF Finished, Leaving
  <2>3. Banned' \subseteq Banned
    BY <1>8, <1>10, <2>1 DEF Banned
  <2> QED BY <1>10, <2>2, <2>3 DEF Disarmed, Cancel
<1>12. FramesClear'
  <2>1. PICK t : t = stack'
    OBVIOUS
  <2>2. Len(t) = n - 1 /\ \A p \in 1..Len(t) : p \in 1..n /\ p # n /\ t[p] = stack[p]
    BY <1>1, <1>4, <1>5, <2>1
  <2>3. \A p \in 1..Len(t) :
          /\ t[p].ev \notin Gone
          /\ t[p].at = "code" /\ t[p].ev = App => p = 1
          /\ t[p].at \in Arming => t[p].ev \notin Disarmed
          /\ t[p].at = "wait" => Away(WaitList, Finished)
    BY <1>1, <2>2 DEF FramesClear, n
  <2>4. \A p \in 1..Len(t) : t[p].ev # e
    BY <1>1, <1>2, <1>6, <2>2 DEF FramesClear, n
  <2>5. \A p, q \in 1..Len(t) :
           /\ p < q /\ t[q].at \in Ends => t[p].ev # t[q].ev
           /\ p # q /\ t[q].at = "free" => t[p].ev # t[q].ev
    BY <1>1, <2>2 DEF FramesClear, n
  <2>6. \A p \in 1..Len(t) :
          /\ t[p].ev \notin Gone'
          /\ t[p].at \in Arming => t[p].ev \notin Disarmed'
          /\ t[p].at = "wait" => Away(WaitList, Finished')
    BY <1>8, <1>11, <2>3, <2>4 DEF Away
  <2> QED BY <2>1, <2>3, <2>5, <2>6 DEF FramesClear
<1>13. QueuesClear'
  BY <1>3, <1>11 DEF Forgot, QueuesClear, Distinct, Away
<1>14. ListClear'
  BY <1>3, <1>8, <1>11 DEF Forgot, ListClear, Distinct, Away
<1>15. Away(timers', Disarmed') /\ Idle \notin Finished'
  BY <1>3, <1>11 DEF Forgot, Away
<1> QED BY <1>12, <1>13, <1>14, <1>15 DEF Forgot

-----------------------------------------------------------------------------
LEMMA NextForgotten ==
  ASSUME Inv, Inv', Timely, Forgot, OwnersClose, Next
  PROVE  Forgot'
<1>1. CASE ListGroup \/ ListNotifies \/ ListEnds \/ Relock
  BY <1>1, WalksForgotten
<1>2. CASE \/ RestoreDispatches \/ RestoreEnds \/ RestoreLowers \/ EndOfInterrupt \/ Return
           \/ CallRestore \/ CallNotify \/ ExpireEnds
  BY <1>2, LevelsForgotten
<1>3. CASE DispatchTakes \/ DispatchEnds
  BY <1>3, DispatchForgotten
<1>4. CASE ExpireSignals \/ WaitIdles \/ WaitChecks \/ Look
  BY <1>4, EventsForgotten
<1>5. CASE ExpireTakes \/ CancelTimer \/ SetTimer \/ InsertTimer \/ Rearm
  BY <1>5, ExpireTakesForgotten, CancelForgotten, SetTimerForgotten, InsertForgotten,
     RearmForgotten
<1>6. CASE Unlink \/ Free
  BY <1>6, UnlinkForgotten, FreeForgotten
<1>7. CASE \E e \in Events : CallSignal(e) \/ CallClose(e) \/ CallCheck(e) \/ CallCreate(e)
  BY <1>7, CallsForgotten, CloseForgotten, CreateForgotten
<1>8. CASE \E a \in Arms : CallSetTimer(a[2], a[3], a[4])
  BY <1>8, SetForgotten
<1>9. CASE CallWait \/ \E l \in {Callback, Notify} : CallRaise(l)
  BY <1>9, WaitForgotten, RaiseForgotten
<1>10. CASE \E d \in Durations : Tick(d)
  BY <1>10, TickForgotten
<1> QED BY <1>1, <1>2, <1>3, <1>4, <1>5, <1>6, <1>7, <1>8, <1>9, <1>10 DEF Next, Core, Calls

LEMMA InitForgotten ==
  ASSUME Init
  PROVE  Forgot
<1>1. PICK f : f = Frame("code", Application, App, 0)
  OBVIOUS
<1>2. stack = <<f>> /\ f.at = "code" /\ f.ev = App
  BY <1>1 DEF Init, Frame
<1>3. Len(stack) = 1 /\ stack[1] = f
  BY <1>2
<1>4. Gone = {} /\ Unborn \subseteq Later
  <2>1. \A e \in Events : status[e] = IF e \in Later THEN "none" ELSE "live"
    BY DEF Init, All
  <2> QED BY <2>1 DEF Gone, Unborn
<1>5. Leaving = {} /\ EvsAt(stack, {"free"}) = {}
  BY <1>2, <1>3 DEF Leaving, EvsAt, Ends
<1>6. Banned = {} /\ Finished = {} /\ Disarmed = {}
  BY <1>4, <1>5 DEF Banned, Finished, Disarmed
<1>7. QueuesClear
  BY DEF Init, QueuesClear, Distinct, Away
<1>8. ListClear
  <2>1. signalQueue = FirstQueue /\ FirstQueue \in Seq(NotifySignal \ Later)
    BY EventAssumption DEF Init
  <2>2. DOMAIN FirstQueue = 1..Len(FirstQueue)
        /\ \A p \in 1..Len(FirstQueue) : FirstQueue[p] \notin Later
    BY <2>1, LenProperties, ElementOfSeq
  <2>3. \A p, q \in 1..Len(FirstQueue) : p < q => FirstQueue[p] # FirstQueue[q]
    BY <2>2, QueueAssumption
  <2> QED BY <1>4, <1>6, <2>1, <2>2, <2>3 DEF ListClear, Distinct, Away
<1>9. FramesClear
  BY <1>2, <1>3, <1>4 DEF FramesClear, Arming, Holding, Ends
<1> QED BY <1>6, <1>7, <1>8, <1>9 DEF Forgot, Away, Init

\* Whoever lets go of the events he closes leaves nothing behind: once CloseEvent
\* gave the memory back, no queue and no list holds the event, and no routine that
\* was interrupted is still at work on it, wherever the timer interrupt and the
\* functions it dispatched came in between the two sections of the lock
\* (CoreCloseEvent, Event.c:727-763).
THEOREM ClosedCorrect ==
  ASSUME OwnersClose
  PROVE  Spec => []ClosedIsForgotten
<1>1. Inv /\ Inv' /\ Timely /\ Forgot /\ [Next]_vars => Forgot'
  <2>1. Forgot /\ UNCHANGED vars => Forgot'
    BY DEF vars, Forgot, QueuesClear, ListClear, FramesClear, Distinct, Away, Banned,
           Disarmed, Finished, Leaving, Gone, Unborn, EvsAt
  <2> QED BY <2>1, NextForgotten
<1>2. Inv /\ Inv' /\ Timely /\ [Next]_vars => Timely'
  <2>1. Timely /\ UNCHANGED vars => Timely'
    BY DEF vars, Timely, Times, Away, Held
  <2> QED BY <2>1, NextTimely
<1>3. Inv /\ Forgot => ClosedIsForgotten
  <2> SUFFICES ASSUME Inv, Forgot, NEW e \in Events, status[e] = "freed"
               PROVE  /\ \A l \in Levels : \A p \in DOMAIN queue[l] : queue[l][p] # e
                      /\ \A p \in DOMAIN timers : timers[p] # e
                      /\ \A p \in DOMAIN signalQueue : signalQueue[p] # e
                      /\ \A p \in DOMAIN stack : stack[p].ev # e
    BY DEF ClosedIsForgotten
  <2>1. e \in Gone /\ e \in Banned
    BY DEF Gone, Banned
  <2>2. /\ \A l \in Levels : DOMAIN queue[l] = 1..Len(queue[l])
        /\ DOMAIN timers = 1..Len(timers)
        /\ DOMAIN signalQueue = 1..Len(signalQueue)
        /\ DOMAIN stack = 1..Len(stack)
    BY LenProperties, TopFacts DEF Inv, DataOK, QueuesOK
  <2>3. \A p \in 1..Len(stack) : stack[p].ev # e
    BY <2>1 DEF Forgot, FramesClear
  <2>4. e \notin EvsAt(stack, {"TimerCancel"})
    BY <2>3 DEF EvsAt
  <2>5. e \in Disarmed
    BY <2>1, <2>4 DEF Disarmed, Finished
  <2>6. \A p \in 1..Len(timers) : timers[p] # e
    BY <2>5 DEF Forgot, Away
  <2>7. \A p \in 1..Len(signalQueue) : signalQueue[p] # e
    BY <2>1 DEF Forgot, ListClear, Away
  <2>8. \A l \in Levels : \A p \in 1..Len(queue[l]) : queue[l][p] # e
    BY <2>1 DEF Forgot, QueuesClear, Away
  <2> QED BY <2>2, <2>3, <2>6, <2>7, <2>8
<1> QED BY <1>1, <1>2, <1>3, InitTimely, InitForgotten, InvHolds, PTL DEF Spec

-----------------------------------------------------------------------------
(* The services implement Notifications.                                      *)

\* The function that a frame runs or is about to call, and the event that it closes.
Runs(f) ==
  IF f.at \in CheckSections THEN {CheckTimers}
  ELSE IF f.at = "notify" \/ (f.at = "code" /\ f.ev # App) THEN {f.ev} ELSE {}
RunsIn(s) == UNION {Runs(s[p]) : p \in 1..Len(s)}
Leaves(f) == IF f.at \in Ends THEN {f.ev} ELSE {}

\* The functions of a stack rise in level; no queue holds an event twice.
Rises(s) ==
  \A p, q \in 1..Len(s) : p < q =>
    \A x \in Runs(s[p]), y \in Runs(s[q]) : TplOf(x) < TplOf(y)
Once == \A l \in Levels : Distinct(queue[l])

\* What Notifications sees of a stack: the functions begun, the events being closed.
Shows(s, R, C) ==
  /\ \E S : s \in Seq(S)
  /\ Rises(s) /\ RunsIn(s) = R /\ EvsAt(s, Ends) = C

LEMMA RunsAt ==
  ASSUME NEW s, NEW x
  PROVE  x \in RunsIn(s) <=> \E p \in 1..Len(s) : x \in Runs(s[p])
BY DEF RunsIn

LEMMA EndsAt ==
  ASSUME NEW s, NEW x
  PROVE  x \in EvsAt(s, Ends) <=> \E p \in 1..Len(s) : x \in Leaves(s[p])
BY DEF EvsAt, Leaves

LEMMA ShowsAppend ==
  ASSUME NEW s, NEW R, NEW C, Shows(s, R, C), NEW f,
         \A x \in R, y \in Runs(f) : TplOf(x) < TplOf(y)
  PROVE  Shows(Append(s, f), R \cup Runs(f), C \cup Leaves(f))
<1> DEFINE t == Append(s, f)
<1>1. PICK S : s \in Seq(S)
  BY DEF Shows
<1>2. /\ t \in Seq(S \cup {f}) /\ Len(t) = Len(s) + 1 /\ Len(s) \in Nat
      /\ \A i \in 1..Len(s) : t[i] = s[i]
      /\ t[Len(s) + 1] = f
  BY <1>1, AnyAppended
<1> HIDE DEF t
<1>3. /\ \A i \in 1..Len(t) : i = Len(s) + 1 \/ i \in 1..Len(s)
      /\ \A i \in 1..Len(s) : i \in 1..Len(t)
      /\ Len(s) + 1 \in 1..Len(t)
  BY <1>2
<1>4. RunsIn(t) = R \cup Runs(f)
  <2>1. ASSUME NEW x
        PROVE  x \in RunsIn(t) <=> x \in RunsIn(s) \/ x \in Runs(f)
    BY <1>2, <1>3, RunsAt
  <2> QED BY <2>1 DEF Shows
<1>5. EvsAt(t, Ends) = C \cup Leaves(f)
  <2>1. ASSUME NEW x
        PROVE  x \in EvsAt(t, Ends) <=> x \in EvsAt(s, Ends) \/ x \in Leaves(f)
    BY <1>2, <1>3, EndsAt
  <2> QED BY <2>1 DEF Shows
<1>6. Rises(t)
  <2> SUFFICES ASSUME NEW p \in 1..Len(t), NEW q \in 1..Len(t), p < q,
                      NEW x \in Runs(t[p]), NEW y \in Runs(t[q])
               PROVE  TplOf(x) < TplOf(y)
    BY DEF Rises
  <2>1. p \in 1..Len(s) /\ t[p] = s[p]
    BY <1>2, <1>3
  <2>2. CASE q = Len(s) + 1
    <3>1. x \in R
      BY <2>1, RunsAt DEF Shows
    <3> QED BY <1>2, <2>2, <3>1
  <2>3. CASE q \in 1..Len(s)
    BY <1>2, <2>1, <2>3 DEF Shows, Rises
  <2> QED BY <1>3, <2>2, <2>3
<1> QED BY <1>2, <1>4, <1>5, <1>6 DEF Shows, t

LEMMA ShowsQuiet ==
  ASSUME NEW s, NEW R, NEW C, Shows(s, R, C), NEW f, Runs(f) = {}, f.at \notin Ends
  PROVE  Shows(Append(s, f), R, C)
<1>1. Shows(Append(s, f), R \cup Runs(f), C \cup Leaves(f))
  BY ShowsAppend
<1>2. R \cup Runs(f) = R /\ C \cup Leaves(f) = C
  BY DEF Leaves
<1> QED BY <1>1, <1>2

LEMMA ShowsSame ==
  ASSUME NEW s, NEW t, NEW R, NEW C, Shows(s, R, C), Len(t) = Len(s), \E S : t \in Seq(S),
         \A i \in 1..Len(s) : t[i].at = s[i].at /\ t[i].ev = s[i].ev
  PROVE  Shows(t, R, C)
<1>1. \A i \in 1..Len(s) : Runs(t[i]) = Runs(s[i])
  BY DEF Runs
<1>2. Rises(t)
  BY <1>1 DEF Shows, Rises
<1>3. RunsIn(t) = RunsIn(s)
  BY <1>1 DEF RunsIn
<1>4. EvsAt(t, Ends) = EvsAt(s, Ends)
  BY SameEvs
<1> QED BY <1>2, <1>3, <1>4 DEF Shows

\* What is below the last frame, and what that one adds.
Under(s, f, R, C, B, D) ==
  /\ Shows(s, B, D)
  /\ R = B \cup Runs(f) /\ C = D \cup Leaves(f)
  /\ \A x \in B, y \in Runs(f) : TplOf(x) < TplOf(y)

LEMMA ShowsFront ==
  ASSUME NEW s \in Seq(Frames), s # <<>>, NEW R, NEW C, Shows(s, R, C)
  PROVE  Under(Front(s), Last(s), R, C, RunsIn(Front(s)), EvsAt(Front(s), Ends))
<1> DEFINE t == Front(s)
           n == Len(s)
<1>1. /\ t \in Seq(Frames) /\ Len(t) = n - 1 /\ n \in Nat \ {0}
      /\ \A i \in 1..n - 1 : t[i] = s[i]
  BY FrontLast
<1>2. Last(s) = s[n]
  BY DEF Last
<1> HIDE DEF t, n
<1>3. /\ \A i \in 1..n : i = n \/ i \in 1..Len(t)
      /\ \A i \in 1..Len(t) : i \in 1..n /\ i < n /\ t[i] = s[i]
      /\ n \in 1..n
  BY <1>1
<1>4. Rises(t)
  BY <1>3 DEF Shows, Rises, n
<1>5. R = RunsIn(t) \cup Runs(Last(s))
  <2>1. ASSUME NEW x
        PROVE  x \in RunsIn(s) <=> x \in RunsIn(t) \/ x \in Runs(Last(s))
    BY <1>2, <1>3, RunsAt DEF n
  <2> QED BY <2>1 DEF Shows
<1>6. C = EvsAt(t, Ends) \cup Leaves(Last(s))
  <2>1. ASSUME NEW x
        PROVE  x \in EvsAt(s, Ends) <=> x \in EvsAt(t, Ends) \/ x \in Leaves(Last(s))
    BY <1>2, <1>3, EndsAt DEF n
  <2> QED BY <2>1 DEF Shows
<1>7. ASSUME NEW x \in RunsIn(t), NEW y \in Runs(Last(s))
      PROVE  TplOf(x) < TplOf(y)
  <2>1. PICK p \in 1..Len(t) : x \in Runs(t[p])
    BY RunsAt
  <2>2. p \in 1..n /\ p < n /\ x \in Runs(s[p]) /\ y \in Runs(s[n])
    BY <1>2, <1>3, <2>1
  <2> QED BY <1>3, <2>2 DEF Shows, Rises, n
<1> QED BY <1>1, <1>4, <1>5, <1>6, <1>7 DEF Under, Shows, t

LEMMA ShowsStack ==
  ASSUME Inv, Rises(stack)
  PROVE  Shows(stack, Begun, Leaving)
<1>1. /\ stack \in Seq(Frames) /\ Len(stack) \in Nat \ {0}
      /\ \A p \in 1..Len(stack) : Shape(stack[p])
  BY TopFacts DEF Inv, Body
<1>2. DOMAIN stack = 1..Len(stack)
  BY <1>1, LenProperties
<1>3. App \notin All
  BY EventAssumption
<1>4. \A p \in 1..Len(stack) : stack[p].at = "notify" => stack[p].ev # App
  BY <1>1, <1>3 DEF Shape
<1>5. ASSUME NEW x
      PROVE  x \in Begun <=> \E p \in 1..Len(stack) : x \in Runs(stack[p])
  BY <1>2, <1>4 DEF Begun, FramesAt, Runs
<1>6. RunsIn(stack) = Begun
  BY <1>5, RunsAt
<1> QED BY <1>1, <1>6 DEF Shows, Leaving

LEMMA ShowsBelow ==
  ASSUME Inv, Rises(stack)
  PROVE  \E B, D : Under(Below, Top, Begun, Leaving, B, D)
<1>1. stack \in Seq(Frames) /\ stack # <<>> /\ Below = Front(stack) /\ Top = Last(stack)
  BY TopFacts, EmptySeq DEF Inv
<1> QED BY <1>1, ShowsStack, ShowsFront

LEMMA QuietBelow ==
  ASSUME Inv, Rises(stack), Runs(Top) = {}, Top.at \notin Ends
  PROVE  Shows(Below, Begun, Leaving)
<1>1. PICK B, D : Under(Below, Top, Begun, Leaving, B, D)
  BY ShowsBelow
<1>2. Begun = B /\ Leaving = D
  BY <1>1 DEF Under, Leaves
<1> QED BY <1>1, <1>2 DEF Under

\* The last frame goes on at another place, in the same function.
LEMMA ShowsGoesOn ==
  ASSUME Inv, Rises(stack), NEW f, Runs(f) = Runs(Top), Leaves(f) = Leaves(Top)
  PROVE  Shows(Append(Below, f), Begun, Leaving)
<1>1. PICK B, D : Under(Below, Top, Begun, Leaving, B, D)
  BY ShowsBelow
<1>2. Shows(Append(Below, f), B \cup Runs(f), D \cup Leaves(f))
  BY <1>1, ShowsAppend DEF Under
<1> QED BY <1>1, <1>2 DEF Under

LEMMA CountsShow ==
  ASSUME NEW s \in Seq(Frames), s # <<>>, NEW R, NEW C, Shows(s, R, C), NEW v \in Int,
         NEW t, t = [s EXCEPT ![Len(s)].n = v]
  PROVE  Shows(t, R, C)
<1>1. Len(s) \in 1..Len(s) /\ s[Len(s)] \in Frames
  BY FrontLast, ElementOfSeq DEF Last
<1>2. PICK f \in Frames : f = s[Len(s)]
  BY <1>1
<1> DEFINE g == [f EXCEPT !.n = v]
<1>3. g \in Frames /\ g.at = f.at /\ g.ev = f.ev
  BY DEF Frames
<1>4. t = [s EXCEPT ![Len(s)] = g]
  BY <1>2
<1> HIDE DEF g
<1>5. /\ t \in Seq(Frames) /\ Len(t) = Len(s)
      /\ \A i \in 1..Len(s) : t[i] = IF i = Len(s) THEN g ELSE s[i]
  BY <1>1, <1>3, <1>4, ExceptSeq
<1>6. \A i \in 1..Len(s) : t[i].at = s[i].at /\ t[i].ev = s[i].ev
  BY <1>2, <1>3, <1>5
<1> QED BY <1>5, <1>6, ShowsSame

LEMMA ShowsCaller ==
  ASSUME Inv, Rises(stack), Running
  PROVE  Shows(Caller, Begun, Leaving)
<1>1. CASE Top.ev = App
  BY <1>1, ShowsStack DEF Caller
<1>2. CASE Top.ev # App
  <2>1. PICK v \in Int : v = Top.n - 1
    BY TopFacts DEF Inv, Frames
  <2>2. Caller = [stack EXCEPT ![Len(stack)].n = v]
    BY <1>2, <2>1 DEF Caller, Top
  <2>3. stack \in Seq(Frames) /\ stack # <<>>
    BY TopFacts, EmptySeq DEF Inv
  <2> QED BY <2>2, <2>3, ShowsStack, CountsShow
<1> QED BY <1>1, <1>2

LEMMA ShowsAnswer ==
  ASSUME NEW base \in Seq(Frames), base # <<>>, NEW R, NEW C, Shows(base, R, C),
         NEW ready \in BOOLEAN
  PROVE  Shows(Answer(ready, base), R, C)
<1>1. Len(base) \in 1..Len(base) /\ base[Len(base)] \in Frames
  BY FrontLast, ElementOfSeq DEF Last
<1>2. CASE base[Len(base)].at # "wait"
  BY <1>2 DEF Answer
<1>3. CASE base[Len(base)].at = "wait" /\ ready
  <2>1. Answer(ready, base) = Front(base)
    BY <1>3 DEF Answer, Front
  <2>2. Runs(Last(base)) = {} /\ Leaves(Last(base)) = {}
    BY <1>3 DEF Last, Runs, Leaves, Ends
  <2>3. Under(Front(base), Last(base), R, C, RunsIn(Front(base)), EvsAt(Front(base), Ends))
    BY ShowsFront
  <2>4. R = RunsIn(Front(base)) /\ C = EvsAt(Front(base), Ends)
    BY <2>2, <2>3 DEF Under
  <2> QED BY <2>1, <2>3, <2>4 DEF Under
<1>4. CASE base[Len(base)].at = "wait" /\ ~ready
  <2>1. PICK v \in Int : v = base[Len(base)].n + 1
    BY <1>1 DEF Frames
  <2>2. Answer(ready, base) = [base EXCEPT ![Len(base)].n = v]
    BY <1>4, <2>1 DEF Answer
  <2> QED BY <2>2, CountsShow
<1> QED BY <1>2, <1>3, <1>4

LEMMA ShowsRelease ==
  ASSUME NEW base, NEW R, NEW C, Shows(base, R, C), NEW owner, Release(base, owner)
  PROVE  Shows(stack', R, C)
<1>1. PICK f : f = Restore(owner)
  OBVIOUS
<1>2. f.at = "restore"
  BY <1>1 DEF Restore, Frame
<1>3. stack' = Append(base, f)
  BY <1>1 DEF Release
<1>4. Runs(f) = {} /\ f.at \notin Ends
  BY <1>2 DEF Runs, Ends
<1> QED BY <1>3, <1>4, ShowsQuiet

-----------------------------------------------------------------------------
(* Actions that neither begin nor end a function or a CloseEvent.            *)

LEMMA QuietLabels ==
  ASSUME NEW f, f.at \in Labels \ (CheckSections \cup Ends \cup {"notify", "code"})
  PROVE  Runs(f) = {} /\ Leaves(f) = {} /\ f.at \notin Ends
BY DEF Runs, Leaves

LEMMA FrameHas ==
  ASSUME NEW at, NEW to, NEW ev, NEW n
  PROVE  Frame(at, to, ev, n).at = at /\ Frame(at, to, ev, n).ev = ev
BY DEF Frame

LEMMA CoreSignalQuiet ==
  ASSUME NEW e, NEW base, NEW R, NEW C, Shows(base, R, C), NEW t, CoreSignalEvent(e, base, t)
  PROVE  Shows(stack', R, C)
<1>1. PICK f : f = Frame("group", t, e, 0)
  OBVIOUS
<1>2. f.at = "group"
  BY <1>1, FrameHas
<1>3. Release(base, t) \/ Release(Append(base, f), t)
  BY <1>1 DEF CoreSignalEvent
<1>4. Shows(Append(base, f), R, C)
  BY <1>2, QuietLabels, ShowsQuiet DEF Labels, Ends
<1> QED BY <1>3, <1>4, ShowsRelease

LEMMA CheckQuiet ==
  ASSUME NEW e, NEW base, NEW R, NEW C, Shows(base, R, C), CoreCheckEvent(e, base)
  PROVE  Shows(stack', R, C)
<1>1. PICK f : f = Frame("look", tpl, e, 0)
  OBVIOUS
<1>2. f.at = "look"
  BY <1>1, FrameHas
<1>3. stack' = Append(base, f) \/ Release(Append(base, f), tpl)
  BY <1>1 DEF CoreCheckEvent
<1>4. Shows(Append(base, f), R, C)
  BY <1>2, QuietLabels, ShowsQuiet DEF Labels, Ends
<1> QED BY <1>3, <1>4, ShowsRelease

LEMMA WalksQuiet ==
  ASSUME Inv, Rises(stack), ListGroup \/ ListNotifies \/ ListEnds \/ Relock
  PROVE  Shows(stack', Begun, Leaving)
<1>1. Top.at \in {"group", "list", "relock"} /\ Top \in Frames
  BY TopFacts DEF Inv, ListGroup, ListNotifies, ListEnds, Relock, At
<1>2. Shows(Below, Begun, Leaving)
  BY <1>1, QuietBelow, QuietLabels DEF Labels, Ends
<1>3. CASE ListGroup
  <2>1. PICK f : f.at = "list" /\ stack' = Append(Below, f)
    BY <1>1, <1>3 DEF ListGroup, Frames
  <2> QED BY <1>2, <2>1, QuietLabels, ShowsQuiet DEF Labels, Ends
<1>4. CASE ListNotifies
  <2>1. PICK f : f = [Top EXCEPT !.n = @ + 1]
    OBVIOUS
  <2>2. f.at = "list" /\ stack' = Append(Below, f)
    BY <1>1, <1>4, <2>1 DEF ListNotifies, At, Frames
  <2> QED BY <1>2, <2>2, QuietLabels, ShowsQuiet DEF Labels, Ends
<1>5. CASE ListEnds
  <2>1. PICK f : f = [Top EXCEPT !.at = "relock"]
    OBVIOUS
  <2>2. f.at = "relock" /\ Release(Append(Below, f), Top.to)
    BY <1>1, <1>5, <2>1 DEF ListEnds, Frames
  <2> QED BY <1>2, <2>2, QuietLabels, ShowsQuiet, ShowsRelease DEF Labels, Ends
<1>6. CASE Relock
  BY <1>2, <1>6, ShowsRelease DEF Relock
<1> QED BY <1>3, <1>4, <1>5, <1>6

LEMMA LevelsQuiet ==
  ASSUME Inv, Rises(stack),
         \/ RestoreDispatches \/ RestoreEnds \/ RestoreLowers \/ EndOfInterrupt \/ CallRestore
         \/ DispatchEnds
  PROVE  Shows(stack', Begun, Leaving)
<1>1. Top.at \in {"restore", "lower", "isr", "dispatch"} => Shows(Below, Begun, Leaving)
  BY QuietBelow, QuietLabels DEF Labels, Ends
<1>2. Shows(stack, Begun, Leaving)
  BY ShowsStack
<1>3. CASE RestoreDispatches
  <2>1. PICK f : f = Frame("dispatch", Highest, App, 0)
    OBVIOUS
  <2> QED BY <1>2, <1>3, <2>1, FrameHas, QuietLabels, ShowsQuiet DEF RestoreDispatches, Labels, Ends
<1>4. CASE RestoreEnds
  <2>1. Shows(Below, Begun, Leaving)
    BY <1>1, <1>4 DEF RestoreEnds, At
  <2>2. PICK f : f = [Top EXCEPT !.at = "lower"]
    OBVIOUS
  <2>3. f.at = "lower" /\ (stack' = Append(Below, f) \/ stack' = Below)
    BY <1>4, <2>2, TopFacts DEF RestoreEnds, Inv, Frames
  <2> QED BY <2>1, <2>3, QuietLabels, ShowsQuiet DEF Labels, Ends
<1>5. CASE RestoreLowers
  BY <1>1, <1>5 DEF RestoreLowers, At
<1>6. CASE EndOfInterrupt
  BY <1>1, <1>6 DEF EndOfInterrupt, At
<1>7. CASE CallRestore
  <2>1. PICK f : f = Restore(Top.to)
    OBVIOUS
  <2>2. f.at = "restore" /\ stack' = Append(stack, f)
    BY <1>7, <2>1, FrameHas DEF CallRestore, Restore
  <2> QED BY <1>2, <2>2, QuietLabels, ShowsQuiet DEF Labels, Ends
<1>8. CASE DispatchEnds
  BY <1>1, <1>8, ShowsRelease DEF DispatchEnds, At
<1> QED BY <1>3, <1>4, <1>5, <1>6, <1>7, <1>8

\* The function goes on: CallNotify enters it, CoreCheckTimers goes its rounds.
LEMMA FunctionsQuiet ==
  ASSUME Inv, Rises(stack), CallNotify \/ ExpireTakes \/ ExpireSignals \/ Rearm
  PROVE  Shows(stack', Begun, Leaving)
<1>0. Top \in Frames /\ Shape(Top)
  BY TopFacts DEF Inv
<1>1. CASE CallNotify
  <2>1. Top.at = "notify" /\ Top.ev \in All
    BY <1>0, <1>1 DEF CallNotify, At, Shape, Calling
  <2>2. PICK g : g = Frame("dispatch", Top.to, App, 0)
    OBVIOUS
  <2>3. PICK f : f = IF Top.ev = CheckTimers THEN Frame("expire", Top.to, App, 0)
                     ELSE Frame("code", Top.to, Top.ev, MaxOps)
    OBVIOUS
  <2>4. g.at = "dispatch" /\ stack' = Append(Append(Below, g), f)
    BY <1>1, <2>2, <2>3, FrameHas DEF CallNotify
  <2>5. Top.ev # App
    BY <2>1, EventAssumption
  <2>6. Runs(f) = Runs(Top) /\ Leaves(f) = {} /\ Leaves(Top) = {}
    <3>1. CASE Top.ev = CheckTimers
      <4>1. f.at = "expire"
        BY <2>3, <3>1, FrameHas
      <4> QED BY <2>1, <3>1, <4>1 DEF Runs, Leaves, Ends
    <3>2. CASE Top.ev # CheckTimers
      <4>1. f.at = "code" /\ f.ev = Top.ev
        BY <2>3, <3>2, FrameHas
      <4> QED BY <2>1, <2>5, <4>1 DEF Runs, Leaves, Ends
    <3> QED BY <3>1, <3>2
  <2>7. PICK B, D : Under(Below, Top, Begun, Leaving, B, D)
    BY ShowsBelow
  <2>8. Shows(Append(Below, g), B, D)
    BY <2>4, <2>7, QuietLabels, ShowsQuiet DEF Under, Labels, Ends
  <2>9. Shows(Append(Append(Below, g), f), B \cup Runs(f), D \cup Leaves(f))
    BY <2>6, <2>7, <2>8, ShowsAppend DEF Under
  <2> QED BY <2>4, <2>6, <2>7, <2>9 DEF Under
<1>2. CASE ExpireTakes
  <2>1. PICK f : f = [Top EXCEPT !.at = "signal", !.ev = Head(timers)]
    OBVIOUS
  <2>2. Top.at = "expire" /\ f.at = "signal" /\ stack' = Append(Below, f)
    BY <1>0, <1>2, <2>1 DEF ExpireTakes, At, Frames
  <2>3. Runs(f) = Runs(Top) /\ Leaves(f) = Leaves(Top)
    BY <2>2 DEF Runs, Leaves, Ends
  <2> QED BY <2>2, <2>3, ShowsGoesOn
<1>3. CASE ExpireSignals
  <2>1. PICK f : f = [Top EXCEPT !.at = "rearm"]
    OBVIOUS
  <2>2. Top.at = "signal" /\ f.at = "rearm"
    BY <1>0, <1>3, <2>1 DEF ExpireSignals, At, Frames
  <2>3. Runs(f) = Runs(Top) /\ Leaves(f) = Leaves(Top)
    BY <2>2 DEF Runs, Leaves, Ends
  <2>4. Shows(Append(Below, f), Begun, Leaving)
    BY <2>3, ShowsGoesOn
  <2>5. CoreSignalEvent(Top.ev, Append(Below, f), tpl)
    BY <1>3, <2>1 DEF ExpireSignals
  <2> QED BY <2>4, <2>5, CoreSignalQuiet
<1>4. CASE Rearm
  <2>1. PICK f : f = [Top EXCEPT !.at = "expire", !.ev = App]
    OBVIOUS
  <2>2. Top.at = "rearm" /\ f.at = "expire" /\ stack' = Append(Below, f)
    BY <1>0, <1>4, <2>1 DEF Rearm, At, Frames
  <2>3. Runs(f) = Runs(Top) /\ Leaves(f) = Leaves(Top)
    BY <2>2 DEF Runs, Leaves, Ends
  <2> QED BY <2>2, <2>3, ShowsGoesOn
<1> QED BY <1>1, <1>2, <1>3, <1>4

LEMMA TimerSectionsQuiet ==
  ASSUME Inv, Rises(stack), CancelTimer \/ SetTimer \/ InsertTimer
  PROVE  Shows(stack', Begun, Leaving)
<1>1. Top.at \in TimerSections /\ Top \in Frames
  BY TopFacts DEF Inv, CancelTimer, SetTimer, InsertTimer, At
<1>2. Shows(Below, Begun, Leaving)
  BY <1>1, QuietBelow, QuietLabels DEF Labels, Ends
<1>3. CASE SetTimer
  <2>1. \E delay : stack' = Append(Below, [Top EXCEPT !.at = "insert", !.n = delay])
    BY Zenon, <1>3 DEF SetTimer
  <2>2. PICK delay, f : /\ f = [Top EXCEPT !.at = "insert", !.n = delay]
                        /\ stack' = Append(Below, f)
    BY <2>1
  <2>3. f.at = "insert"
    BY <1>1, <2>2 DEF Frames
  <2> QED BY <1>2, <2>2, <2>3, QuietLabels, ShowsQuiet DEF Labels, Ends
<1>4. CASE CancelTimer \/ InsertTimer
  <2>1. PICK f : f = Restore(Top.to)
    OBVIOUS
  <2>2. f.at = "restore" /\ stack' = Append(Below, f)
    BY <1>4, <2>1, FrameHas DEF CancelTimer, InsertTimer, Restore
  <2> QED BY <1>2, <2>2, QuietLabels, ShowsQuiet DEF Labels, Ends
<1> QED BY <1>3, <1>4

LEMMA EventsQuiet ==
  ASSUME Inv, Rises(stack), WaitChecks \/ WaitIdles \/ Look \/ Unlink
  PROVE  Shows(stack', Begun, Leaving)
<1>1. Top \in Frames /\ stack \in Seq(Frames) /\ stack # <<>>
  BY TopFacts, EmptySeq DEF Inv
<1>2. CASE WaitChecks
  BY <1>2, ShowsStack, CheckQuiet DEF WaitChecks
<1>3. CASE WaitIdles
  <2>1. PICK f : f = [Top EXCEPT !.n = 1] /\ CoreSignalEvent(Idle, Append(Below, f), tpl)
    BY <1>3 DEF WaitIdles
  <2>2. f.at = Top.at /\ f.ev = Top.ev
    BY <1>1, <2>1 DEF Frames
  <2>3. Runs(f) = Runs(Top) /\ Leaves(f) = Leaves(Top)
    BY <2>2 DEF Runs, Leaves
  <2> QED BY <2>1, <2>3, ShowsGoesOn, CoreSignalQuiet
<1>4. CASE Look
  <2>1. Top.at = "look"
    BY <1>4 DEF Look, At
  <2>2. Shows(Below, Begun, Leaving)
    BY <2>1, QuietBelow, QuietLabels DEF Labels, Ends
  <2>3. Below \in Seq(Frames) /\ Below # <<>>
    BY <2>1, TopFacts, Pop DEF Inv, StackOK, Body
  <2>4. Shows(Answer(TRUE, Below), Begun, Leaving) /\ Shows(Answer(FALSE, Below), Begun, Leaving)
    <3>1. \A ready \in BOOLEAN : Shows(Answer(ready, Below), Begun, Leaving)
      BY <2>2, <2>3, ShowsAnswer
    <3> QED BY <3>1
  <2>5. stack' = Answer(FALSE, Below) \/ Release(Answer(TRUE, Below), Top.to)
    BY <1>4 DEF Look
  <2> QED BY <2>4, <2>5, ShowsRelease
<1>5. CASE Unlink
  <2>1. PICK f : f = [Top EXCEPT !.at = "free"]
    OBVIOUS
  <2>2. Top.at = "unlink" /\ f.at = "free" /\ f.ev = Top.ev
        /\ Release(Append(Below, f), Top.to)
    BY <1>1, <1>5, <2>1 DEF Unlink, At, Frames
  <2>3. Runs(f) = Runs(Top) /\ Leaves(f) = Leaves(Top)
    BY <2>2 DEF Runs, Leaves, Ends
  <2> QED BY <2>2, <2>3, ShowsGoesOn, ShowsRelease
<1> QED BY <1>2, <1>3, <1>4, <1>5

LEMMA CallsQuiet ==
  ASSUME Inv, Rises(stack),
         \/ \E e \in Events : CallSignal(e) \/ CallCheck(e) \/ CallCreate(e)
         \/ \E a \in Arms : CallSetTimer(a[2], a[3], a[4])
         \/ CallWait
         \/ \E l \in {Callback, Notify} : CallRaise(l)
  PROVE  Shows(stack', Begun, Leaving)
<1>1. Running
  BY DEF CallSignal, CallCheck, CallCreate, CallSetTimer, CallWait, CallRaise
<1>2. Shows(Caller, Begun, Leaving)
  BY <1>1, ShowsCaller
<1>3. CASE \E e \in Events : CallSignal(e) \/ CallCheck(e) \/ CallCreate(e)
  BY <1>2, <1>3, CoreSignalQuiet, CheckQuiet, ShowsRelease DEF CallSignal, CallCheck, CallCreate
<1>4. CASE \E a \in Arms : CallSetTimer(a[2], a[3], a[4])
  <2>1. PICK a \in Arms : CallSetTimer(a[2], a[3], a[4])
    BY <1>4
  <2>2. PICK f : f = Frame(a[3], tpl, a[2], a[4])
    OBVIOUS
  <2>3. f.at \in TimerTypes
    BY <2>2, FrameHas, EventAssumption
  <2>4. stack' = Append(Caller, f)
    BY <2>1, <2>2 DEF CallSetTimer
  <2> QED BY <1>2, <2>3, <2>4, QuietLabels, ShowsQuiet DEF Labels, Ends, TimerTypes
<1>5. CASE CallWait
  <2>1. PICK f : f = Frame("wait", Application, App, 1)
    OBVIOUS
  <2>2. f.at = "wait" /\ stack' = Append(Caller, f)
    BY <1>5, <2>1, FrameHas DEF CallWait
  <2> QED BY <1>2, <2>2, QuietLabels, ShowsQuiet DEF Labels, Ends
<1>6. CASE \E l \in {Callback, Notify} : CallRaise(l)
  BY <1>2, <1>6 DEF CallRaise
<1> QED BY <1>3, <1>4, <1>5, <1>6

LEMMA TickQuiet ==
  ASSUME Inv, Rises(stack), NEW d \in Durations, Tick(d)
  PROVE  Shows(stack', Begun, Leaving)
<1> DEFINE n == Len(stack)
           aged == FramesAt(CheckSections)
           isr == Frame("isr", tpl, App, 0)
           same == [i \in 1..n |-> IF i \in aged THEN [stack[i] EXCEPT !.n = @ + d]
                                   ELSE stack[i]]
           base == [i \in 1..n + 1 |->
                      IF i > n THEN isr
                      ELSE IF i \in aged THEN [stack[i] EXCEPT !.n = @ + d]
                      ELSE stack[i]]
<1>1. Release(base, tpl)
  BY DEF Tick
<1>2. n \in Nat \ {0} /\ (\A i \in 1..n : stack[i] \in Frames)
  BY TopFacts DEF Inv, Body, Shape
<1>3. \A i \in 1..n : same[i].at = stack[i].at /\ same[i].ev = stack[i].ev
  BY <1>2 DEF Frames
<1>4. same \in Seq({same[i] : i \in 1..n}) /\ Len(same) = n
  <2> DEFINE S == {same[i] : i \in 1..n}
  <2>1. DOMAIN same = 1..n /\ same = [i \in 1..n |-> same[i]]
    OBVIOUS
  <2> HIDE DEF same
  <2>2. same \in [1..n -> S]
    BY <2>1
  <2> HIDE DEF S
  <2>3. same \in Seq(S)
    BY <1>2, <2>2, SeqDef
  <2> QED BY <1>2, <2>1, <2>3, LenProperties DEF S
<1>5. base = Append(same, isr)
  BY <1>2, <1>4
<1>6. isr.at = "isr"
  BY FrameHas
<1> HIDE DEF base, same, isr
<1>7. Shows(same, Begun, Leaving)
  BY <1>3, <1>4, ShowsStack, ShowsSame
<1>8. Shows(base, Begun, Leaving)
  BY <1>5, <1>6, <1>7, QuietLabels, ShowsQuiet DEF Labels, Ends
<1> QED BY <1>1, <1>8, ShowsRelease

-----------------------------------------------------------------------------
(* Functions and CloseEvents that begin and end.                             *)

LEMMA TakesShows ==
  ASSUME Inv, Rises(stack), DispatchTakes
  PROVE  \E e \in All : /\ Top.to \in Levels /\ e = Head(queue[Top.to]) /\ TplOf(e) = Top.to
                        /\ \A r \in Begun : TplOf(r) < TplOf(e)
                        /\ Shows(stack', Begun \cup {e}, Leaving)
<1>1. Top.at = "dispatch" /\ Top.to \in Levels /\ tpl = Top.to
      /\ stack \in Seq(Frames) /\ Len(stack) \in Nat \ {0} /\ Body(stack)
      /\ Top = stack[Len(stack)]
  BY TopFacts DEF DispatchTakes, At, Inv, Shape, Fits, Calling, Top
<1>2. PICK l \in Levels : l = Top.to
  BY <1>1
<1>3. queue[l] \in Seq(All) /\ queue[l] # <<>>
      /\ \A p \in 1..Len(queue[l]) : TplOf(queue[l][p]) = l
  BY <1>1, <1>2 DEF DispatchTakes, Inv, DataOK, QueuesOK
<1>4. PICK e \in All : e = Head(queue[l]) /\ TplOf(e) = l
  <2>1. 1 \in 1..Len(queue[l]) /\ Head(queue[l]) = queue[l][1] /\ Head(queue[l]) \in All
    BY <1>3, HeadTailProperties, EmptySeq
  <2> QED BY <2>1, <1>3
<1>5. PICK f : f.at = "notify" /\ f.ev = e /\ Release(Append(Below, f), tpl)
  BY <1>2, <1>4 DEF DispatchTakes, Frame
<1>6. Runs(Top) = {} /\ Runs(f) = {e} /\ Leaves(f) = {} /\ Shows(Below, Begun, Leaving)
  <2>1. Runs(Top) = {} /\ Top.at \notin Ends
    BY <1>1 DEF Runs, Ends
  <2>2. Runs(f) = {e} /\ Leaves(f) = {}
    BY <1>5 DEF Runs, Leaves, Ends
  <2> QED BY <2>1, <2>2, QuietBelow
<1>7. ASSUME NEW r \in Begun
      PROVE  TplOf(r) < l
  <2>1. Shows(stack, Begun, Leaving)
    BY ShowsStack
  <2>2. PICK p \in 1..Len(stack) : r \in Runs(stack[p])
    BY <2>1, RunsAt DEF Shows
  <2>3. p < Len(stack)
    <3>1. p # Len(stack)
      BY <1>1, <1>6, <2>2
    <3> QED BY <1>1, <3>1
  <2>4. Over(stack[p], Top) /\ Shape(stack[p])
    BY <1>1, <2>3 DEF Body
  <2>5. Floor(stack[p]) < l
    BY <1>1, <1>2, <2>4 DEF Over, Calling
  <2>6. TplOf(r) = Floor(stack[p])
    BY <2>2, <2>4, EventAssumption DEF Runs, Shape, Floor, TplOf, All
  <2> QED BY <2>5, <2>6
<1>8. Shows(Append(Below, f), Begun \cup {e}, Leaving)
  <2>1. Shows(Append(Below, f), Begun \cup Runs(f), Leaving \cup Leaves(f))
    BY <1>4, <1>6, <1>7, ShowsAppend
  <2> QED BY <1>6, <2>1
<1>9. Shows(stack', Begun \cup {e}, Leaving)
  BY <1>5, <1>8, ShowsRelease
<1> QED BY <1>2, <1>4, <1>7, <1>9

LEMMA EndsShows ==
  ASSUME Inv, Rises(stack), Return \/ ExpireEnds
  PROVE  \E e \in Begun : /\ \A r \in Begun \ {e} : TplOf(r) < TplOf(e)
                          /\ Shows(stack', Begun \ {e}, Leaving)
<1>1. (Top.at = "code" /\ Top.ev # App) \/ Top.at = "expire"
  BY DEF Return, ExpireEnds, At
<1>2. stack' = Below
  BY DEF Return, ExpireEnds
<1>3. PICK e : Runs(Top) = {e} /\ Leaves(Top) = {}
  BY <1>1 DEF Runs, Leaves, Ends
<1>4. PICK B, D : Under(Below, Top, Begun, Leaving, B, D)
  BY ShowsBelow
<1>5. Begun = B \cup {e} /\ Leaving = D /\ \A r \in B : TplOf(r) < TplOf(e)
  BY <1>3, <1>4 DEF Under
<1>6. e \notin B
  <2>1. e \in All
    BY <1>1, <1>3, TopFacts DEF Inv, Shape, Runs, All
  <2>2. TplOf(e) \in Int
    BY <2>1, QueuedAt
  <2> QED BY <1>5, <2>2
<1>7. Begun \ {e} = B
  BY <1>5, <1>6
<1> QED BY <1>2, <1>4, <1>5, <1>7 DEF Under

LEMMA CloseShows ==
  ASSUME Inv, Rises(stack), NEW e, CallClose(e)
  PROVE  Shows(stack', Begun, Leaving \cup {e})
<1>1. Running
  BY DEF CallClose
<1>2. PICK f : f = Frame("unlink", tpl, e, 0)
  OBVIOUS
<1>3. PICK g : g = Frame("TimerCancel", tpl, e, 0)
  OBVIOUS
<1>4. f.at = "unlink" /\ f.ev = e /\ g.at = "TimerCancel"
  BY <1>2, <1>3, FrameHas
<1>5. Runs(f) = {} /\ Leaves(f) = {e}
  BY <1>4 DEF Runs, Leaves, Ends
<1>6. Shows(Append(Caller, f), Begun, Leaving \cup {e})
  <2>1. Shows(Append(Caller, f), Begun \cup Runs(f), Leaving \cup Leaves(f))
    BY <1>1, <1>5, ShowsCaller, ShowsAppend
  <2> QED BY <1>5, <2>1
<1>7. stack' = Append(Caller, f) \/ stack' = Append(Append(Caller, f), g)
  BY <1>2, <1>3 DEF CallClose
<1>8. Runs(g) = {} /\ g.at \notin Ends
  BY <1>4 DEF Runs, Ends
<1>9. Shows(Append(Append(Caller, f), g), Begun, Leaving \cup {e})
  BY <1>6, <1>8, ShowsQuiet
<1> QED BY <1>6, <1>7, <1>9

LEMMA FreeShows ==
  ASSUME Inv, Rises(stack), Free
  PROVE  \E C : /\ Shows(stack', Begun, C)
                /\ (C = Leaving \/ C = Leaving \ {Top.ev})
                /\ Top.ev \in Leaving
<1>1. Top.at = "free" /\ stack' = Below
  BY DEF Free, At
<1>2. Runs(Top) = {} /\ Leaves(Top) = {Top.ev}
  BY <1>1 DEF Runs, Leaves, Ends
<1>3. PICK B, D : Under(Below, Top, Begun, Leaving, B, D)
  BY ShowsBelow
<1>4. Begun = B /\ Leaving = D \cup {Top.ev}
  BY <1>2, <1>3 DEF Under
<1>5. D = Leaving \/ D = Leaving \ {Top.ev}
  BY <1>4
<1> QED BY <1>1, <1>3, <1>4, <1>5 DEF Under

-----------------------------------------------------------------------------
(* What is owed.                                                             *)

Owing(O) == Once' /\ Owed' = O

Within(s, x) == \E p \in 1..Len(s) : s[p] = x
Others(s, t, e) == \A x : x # e => (Within(t, x) <=> Within(s, x))

LEMMA OwedAt ==
  ASSUME Inv, NEW e
  PROVE  e \in Owed <=> e \in All /\ Within(queue[TplOf(e)], e)
BY QueuedAt DEF Owed, Within

\* One queue changes, by one event.
LEMMA QueueChanges ==
  ASSUME Inv, Inv', Once, NEW e \in All, NEW t,
         queue' = [queue EXCEPT ![TplOf(e)] = t],
         Distinct(t), Others(queue[TplOf(e)], t, e)
  PROVE  /\ Within(t, e) => Owing(Owed \cup {e})
         /\ ~Within(t, e) => Owing(Owed \ {e})
<1>0. PICK l \in Levels : l = TplOf(e)
  BY QueuedAt
<1>1. queue'[l] = t /\ \A m \in Levels : m # l => queue'[m] = queue[m]
  BY <1>0 DEF Inv, DataOK, QueuesOK
<1>2. Once'
  BY <1>1 DEF Once, Distinct
<1>3. \A x : TplOf(x)' = TplOf(x)
  BY DEF TplOf
<1>4. \A x : x \in Owed' <=> x \in All /\ Within(queue'[TplOf(x)], x)
  <2>1. \A x \in All : Queued(x)' <=> Within(queue'[TplOf(x)], x)
    <3> TAKE x \in All
    <3>1. queue'[TplOf(x)] \in Seq(All)
      BY QueuedAt DEF Inv, DataOK, QueuesOK
    <3> QED BY <1>3, <3>1, LenProperties DEF Queued, Within
  <2> QED BY <2>1 DEF Owed
<1>5. ASSUME NEW x, x # e
      PROVE  x \in Owed' <=> x \in Owed
  <2>1. CASE x \notin All
    BY <2>1, <1>4, OwedAt
  <2>2. CASE x \in All /\ TplOf(x) = l
    BY <1>0, <1>1, <1>4, <1>5, <2>2, OwedAt DEF Others
  <2>3. CASE x \in All /\ TplOf(x) # l
    <3>1. TplOf(x) \in Levels
      BY <2>3, QueuedAt
    <3> QED BY <1>1, <1>4, <2>3, <3>1, OwedAt
  <2> QED BY <2>1, <2>2, <2>3
<1>6. e \in Owed' <=> Within(t, e)
  BY <1>0, <1>1, <1>4
<1> QED BY <1>2, <1>5, <1>6 DEF Owing

LEMMA SameOwed ==
  ASSUME Once, UNCHANGED queue
  PROVE  Owing(Owed)
<1>1. \A x : TplOf(x)' = TplOf(x)
  BY DEF TplOf
<1> QED BY <1>1 DEF Owing, Once, Distinct, Owed, Queued

LEMMA NotifyOwes ==
  ASSUME Inv, Inv', Once, NEW e \in All, CoreNotifyEvent(e)
  PROVE  Owing(Owed \cup {e})
<1>1. PICK l \in Levels : l = TplOf(e)
  BY QueuedAt
<1>2. PICK s \in Seq(All) : s = queue[l]
  BY <1>1, QueuedAt
<1>3. Distinct(s) /\ Away(s, {})
  BY <1>1, <1>2 DEF Once, Away
<1>4. PICK c : c = Without(s, e)
  OBVIOUS
<1>5. c \in Seq(All) /\ Distinct(c) /\ Away(c, {} \cup {e})
  BY <1>3, <1>4, RemovedDistinct
<1>6. /\ \A p \in 1..Len(c) : \E q \in 1..Len(s) : c[p] = s[q]
      /\ \A q \in 1..Len(s) : s[q] # e => \E p \in 1..Len(c) : c[p] = s[q]
  BY <1>4, WithoutElements
<1>7. PICK t : t = Append(c, e)
  OBVIOUS
<1>8. /\ t \in Seq(All) /\ Len(t) = Len(c) + 1 /\ Len(c) \in Nat
      /\ \A p \in 1..Len(c) : t[p] = c[p]
      /\ t[Len(c) + 1] = e
  BY <1>5, <1>7, AppendProperties, LenProperties
<1>9. /\ \A p \in 1..Len(t) : p = Len(c) + 1 \/ p \in 1..Len(c)
      /\ \A p \in 1..Len(c) : p \in 1..Len(t)
      /\ Len(c) + 1 \in 1..Len(t)
  BY <1>8
<1>10. Distinct(t)
  <2> SUFFICES ASSUME NEW p \in 1..Len(t), NEW q \in 1..Len(t), p < q
               PROVE  t[p] # t[q]
    BY DEF Distinct
  <2>1. p \in 1..Len(c) /\ t[p] = c[p]
    BY <1>8
  <2>2. CASE q = Len(c) + 1
    BY <1>5, <1>8, <2>1, <2>2 DEF Away
  <2>3. CASE q \in 1..Len(c)
    BY <1>5, <1>8, <2>1, <2>3 DEF Distinct
  <2> QED BY <1>9, <2>2, <2>3
<1>11. queue' = [queue EXCEPT ![l] = t]
  BY <1>1, <1>2, <1>4, <1>7 DEF CoreNotifyEvent
<1>12. Others(s, t, e)
  <2> SUFFICES ASSUME NEW x, x # e
               PROVE  Within(t, x) <=> Within(s, x)
    BY DEF Others
  <2>1. Within(t, x) <=> Within(c, x)
    BY <1>8, <1>9 DEF Within
  <2>2. Within(c, x) <=> Within(s, x)
    BY <1>6 DEF Within
  <2> QED BY <2>1, <2>2
<1>13. Within(t, e)
  BY <1>8, <1>9 DEF Within
<1> QED BY <1>1, <1>2, <1>10, <1>11, <1>12, <1>13, QueueChanges

\* An event of signal type or of wait type is queued, or none.
Rings == Owing(Owed) \/ \E e \in Callees : Owing(Owed \cup {e})

LEMMA SectionRings ==
  ASSUME Inv, Inv', Once, NEW e \in All, SignalSection(e)
  PROVE  Rings
<1>1. CASE FirstSignal(e) /\ ~SignalsGroup(e)
  <2>1. CoreNotifyEvent(e) /\ e \in Callees
    BY <1>1 DEF SignalSection, FirstSignal, Callees
  <2> QED BY <2>1, NotifyOwes DEF Rings
<1>2. CASE ~(FirstSignal(e) /\ ~SignalsGroup(e))
  BY <1>2, SameOwed DEF SignalSection, Rings
<1> QED BY <1>1, <1>2

LEMMA CheckRings ==
  ASSUME Inv, Inv', Once, NEW e \in All, NEW base, CoreCheckEvent(e, base)
  PROVE  Rings
<1>1. CASE signalCount[e] = 0 /\ e \in NotifyWait
  <2>1. CoreNotifyEvent(e) /\ e \in Callees
    BY <1>1 DEF CoreCheckEvent, Callees
  <2> QED BY <2>1, NotifyOwes DEF Rings
<1>2. CASE ~(signalCount[e] = 0 /\ e \in NotifyWait)
  BY <1>2, SameOwed DEF CoreCheckEvent, Rings
<1> QED BY <1>1, <1>2

\* Actions that do not touch the queues.
LEMMA QueuesAlone ==
  ASSUME Once,
         \/ ListGroup \/ ListEnds \/ Relock
         \/ RestoreDispatches \/ RestoreEnds \/ RestoreLowers \/ EndOfInterrupt \/ CallRestore
         \/ DispatchEnds \/ CallNotify \/ ExpireTakes \/ CancelTimer \/ SetTimer \/ Look
         \/ Return \/ ExpireEnds \/ Free
         \/ \E e \in Events : CallClose(e) \/ CallCreate(e)
         \/ \E a \in Arms : CallSetTimer(a[2], a[3], a[4])
         \/ CallWait
         \/ \E l \in {Callback, Notify} : CallRaise(l)
  PROVE  Owing(Owed)
<1>1. UNCHANGED queue
  BY DEF ListGroup, ListEnds, Relock, RestoreDispatches, RestoreEnds, RestoreLowers,
         EndOfInterrupt, CallRestore, DispatchEnds, CallNotify, ExpireTakes, CancelTimer,
         SetTimer, Look, Return, ExpireEnds, Free, CallClose, CallCreate, CallSetTimer,
         CallWait, CallRaise, database
<1> QED BY <1>1, SameOwed

LEMMA QueuesRing ==
  ASSUME Inv, Inv', Once,
         \/ ListNotifies \/ ExpireSignals \/ Rearm \/ InsertTimer \/ WaitChecks \/ WaitIdles
         \/ \E e \in Events : CallSignal(e) \/ CallCheck(e)
         \/ \E d \in Durations : Tick(d)
  PROVE  Rings
<1>0. /\ Shape(Top) /\ CheckTimers \in All /\ Events \subseteq All /\ Idle \in Events
      /\ Timers \subseteq Events /\ NotifySignal \subseteq Events
  BY TopFacts, EventAssumption DEF Inv, All
<1>1. CASE ListNotifies
  <2>1. PICK p : p = Top.n
    OBVIOUS
  <2>2. p \in 1..Len(signalQueue)
    <3>1. Top.n \in Nat \ {0} /\ Top.n <= Len(signalQueue)
      BY <1>0, <1>1 DEF Shape, ListNotifies, At
    <3>2. Len(signalQueue) \in Nat
      BY LenProperties DEF Inv, DataOK
    <3> QED BY <2>1, <3>1, <3>2
  <2>3. signalQueue[p] \in NotifySignal
    BY <2>2, ElementOfSeq DEF Inv, DataOK
  <2>4. signalQueue[p] \in All /\ signalQueue[p] \in Callees
    BY <1>0, <2>3 DEF Callees, OfSignalType
  <2>5. CoreNotifyEvent(signalQueue[p]) \/ UNCHANGED queue
    BY <1>1, <2>1 DEF ListNotifies
  <2> QED BY <2>4, <2>5, NotifyOwes, SameOwed DEF Rings
<1>2. CASE ExpireSignals
  <2>1. Top.ev \in All /\ SignalSection(Top.ev)
    BY <1>0, <1>2 DEF ExpireSignals, At, Shape, CoreSignalEvent
  <2> QED BY <2>1, SectionRings
<1>3. CASE Rearm
  <2>1. SignalSection(CheckTimers) \/ UNCHANGED queue
    BY Zenon, <1>3 DEF Rearm, database
  <2> QED BY <1>0, <2>1, SectionRings, SameOwed DEF Rings
<1>4. CASE InsertTimer
  <2>1. SignalSection(CheckTimers) \/ UNCHANGED queue
    BY <1>4 DEF InsertTimer, database
  <2> QED BY <1>0, <2>1, SectionRings, SameOwed DEF Rings
<1>5. CASE WaitChecks
  <2>1. PICK p : p = Top.n
    OBVIOUS
  <2>2. p \in 1..Len(WaitList) /\ WaitList \in Seq(Events \ NotifySignal)
    <3>1. WaitList \in Seq(Events \ NotifySignal)
      BY EventAssumption
    <3>2. Top.n \in Nat \ {0} /\ Top.n <= Len(WaitList)
      BY <1>0, <1>5 DEF Shape, WaitChecks, At
    <3>3. Len(WaitList) \in Nat
      BY <3>1, LenProperties
    <3> QED BY <2>1, <3>1, <3>2, <3>3
  <2>3. WaitList[p] \in All
    BY <1>0, <2>2, ElementOfSeq
  <2>4. CoreCheckEvent(WaitList[p], stack)
    BY <1>5, <2>1 DEF WaitChecks
  <2> QED BY <2>3, <2>4, CheckRings
<1>6. CASE WaitIdles
  <2>1. SignalSection(Idle)
    BY <1>6 DEF WaitIdles, CoreSignalEvent
  <2> QED BY <1>0, <2>1, SectionRings
<1>7. CASE \E e \in Events : CallSignal(e) \/ CallCheck(e)
  BY <1>0, <1>7, SectionRings, CheckRings DEF CallSignal, CallCheck, CoreSignalEvent
<1>8. CASE \E d \in Durations : Tick(d)
  <2>1. SignalSection(CheckTimers) \/ UNCHANGED queue
    BY <1>8 DEF Tick, database
  <2> QED BY <1>0, <2>1, SectionRings, SameOwed DEF Rings
<1> QED BY <1>1, <1>2, <1>3, <1>4, <1>5, <1>6, <1>7, <1>8

LEMMA TakesOwing ==
  ASSUME Inv, Inv', Once, DispatchTakes, NEW e \in All, Top.to \in Levels,
         e = Head(queue[Top.to]), TplOf(e) = Top.to
  PROVE  e \in Owed /\ Owing(Owed \ {e})
<1>1. PICK l \in Levels : l = Top.to
  OBVIOUS
<1>2. PICK s \in Seq(All) : s = queue[l]
  BY <1>1 DEF Inv, DataOK, QueuesOK
<1>3. s # <<>> /\ queue' = [queue EXCEPT ![l] = Tail(s)]
  BY <1>1, <1>2 DEF DispatchTakes
<1>4. PICK t : t = Tail(s)
  OBVIOUS
<1>5. /\ Len(s) \in Nat \ {0} /\ s[1] = e /\ Len(t) = Len(s) - 1
      /\ \A p \in 1..Len(t) : t[p] = s[p + 1]
  <2>1. Len(s) \in Nat \ {0}
    BY <1>3, EmptySeq, LenProperties
  <2> QED BY <1>1, <1>2, <1>3, <1>4, <2>1, HeadTailProperties
<1>6. /\ \A p \in 1..Len(t) : p + 1 \in 1..Len(s) /\ 1 < p + 1
      /\ \A p \in 1..Len(s) : p = 1 \/ (p - 1 \in 1..Len(t) /\ p - 1 + 1 = p)
      /\ 1 \in 1..Len(s)
  BY <1>5
<1>7. Distinct(s)
  BY <1>1, <1>2 DEF Once
<1>8. Distinct(t)
  <2> SUFFICES ASSUME NEW p \in 1..Len(t), NEW q \in 1..Len(t), p < q
               PROVE  t[p] # t[q]
    BY DEF Distinct
  <2>1. p + 1 < q + 1
    BY <1>5
  <2> QED BY <1>5, <1>6, <1>7, <2>1 DEF Distinct
<1>9. ~Within(t, e)
  BY <1>5, <1>6, <1>7 DEF Distinct, Within
<1>10. Others(s, t, e)
  <2> SUFFICES ASSUME NEW x, x # e
               PROVE  Within(t, x) <=> Within(s, x)
    BY DEF Others
  <2>1. Within(t, x) => Within(s, x)
    BY <1>5, <1>6 DEF Within
  <2>2. ASSUME NEW p \in 1..Len(s), s[p] = x
        PROVE  \E q \in 1..Len(t) : t[q] = x
    <3>1. p - 1 \in 1..Len(t) /\ p - 1 + 1 = p
      BY <1>5, <1>6, <2>2
    <3>2. t[p - 1] = x
      BY <1>5, <2>2, <3>1
    <3> QED BY <3>1, <3>2
  <2> QED BY <2>1, <2>2 DEF Within
<1>11. Owing(Owed \ {e})
  BY <1>1, <1>2, <1>3, <1>4, <1>8, <1>9, <1>10, QueueChanges
<1>12. e \in Owed
  BY <1>1, <1>2, <1>5, <1>6, OwedAt DEF Within
<1> QED BY <1>11, <1>12

LEMMA UnlinkOwing ==
  ASSUME Inv, Inv', Once, Unlink
  PROVE  Top.ev \in Leaving /\ Owing(Owed \ {Top.ev})
<1>1. Top.at = "unlink" /\ Top.ev \in Events /\ Len(stack) \in 1..Len(stack)
      /\ Top = stack[Len(stack)]
  BY TopFacts DEF Unlink, At, Inv, Shape, Top
<1>2. PICK e \in All : e = Top.ev
  BY <1>1 DEF All
<1>3. PICK l \in Levels : l = TplOf(e)
  BY QueuedAt
<1>4. PICK s \in Seq(All) : s = queue[l]
  BY <1>3, QueuedAt
<1>5. Distinct(s) /\ Away(s, {})
  BY <1>3, <1>4 DEF Once, Away
<1>6. PICK c : c = Without(s, e)
  OBVIOUS
<1>7. Distinct(c) /\ Away(c, {} \cup {e})
  BY <1>5, <1>6, RemovedDistinct
<1>8. /\ \A p \in 1..Len(c) : \E q \in 1..Len(s) : c[p] = s[q]
      /\ \A q \in 1..Len(s) : s[q] # e => \E p \in 1..Len(c) : c[p] = s[q]
  BY <1>6, WithoutElements
<1>9. Others(s, c, e)
  BY <1>8 DEF Others, Within
<1>10. ~Within(c, e)
  BY <1>7 DEF Away, Within
<1>11. queue' = [queue EXCEPT ![l] = c]
  BY <1>2, <1>3, <1>4, <1>6 DEF Unlink
<1>12. Owing(Owed \ {e})
  BY <1>3, <1>4, <1>7, <1>9, <1>10, <1>11, QueueChanges
<1>13. Top.ev \in Leaving
  BY <1>1 DEF Leaving, EvsAt, Ends
<1> QED BY <1>2, <1>12, <1>13

-----------------------------------------------------------------------------
(* Every step is one of Notifications, or none.                              *)

Nests == Rises(stack) /\ Once

\* What a step may do to the three of them.
Stays == Owed' = Owed /\ Begun' = Begun /\ Leaving' = Leaving
Steps ==
  \/ Stays
  \/ \E e \in Callees : Owed' = Owed \cup {e} /\ Begun' = Begun /\ Leaving' = Leaving
  \/ \E e \in Owed : /\ \A r \in Begun : TplOf(r) < TplOf(e)
                     /\ Owed' = Owed \ {e} /\ Begun' = Begun \cup {e} /\ Leaving' = Leaving
  \/ \E e \in Begun : /\ \A r \in Begun \ {e} : TplOf(r) < TplOf(e)
                      /\ Owed' = Owed /\ Begun' = Begun \ {e} /\ Leaving' = Leaving
  \/ \E e \in Events : Owed' = Owed /\ Begun' = Begun /\ Leaving' = Leaving \cup {e}
  \/ \E e \in Leaving : Owed' = Owed \ {e} /\ Begun' = Begun /\ Leaving' = Leaving
  \/ \E e \in Leaving : Owed' = Owed /\ Begun' = Begun /\ Leaving' = Leaving \ {e}

LEMMA Seen ==
  ASSUME Inv', NEW R, NEW C, Shows(stack', R, C)
  PROVE  Rises(stack)' /\ Begun' = R /\ Leaving' = C
<1>1. Rises(stack)'
  BY DEF Shows, Rises
<1>2. Leaving' = C
  BY DEF Shows, Leaving, EvsAt
<1>3. Begun' = R
  <2>1. /\ stack' \in Seq(Frames) /\ \A p \in 1..Len(stack') : Shape(stack'[p])
    BY DEF Inv, CpuOK, StackOK, Body, Shape
  <2>2. DOMAIN stack' = 1..Len(stack')
    BY <2>1, LenProperties
  <2>3. \A p \in 1..Len(stack') : stack'[p].at = "notify" => stack'[p].ev # App
    BY <2>1, EventAssumption DEF Shape
  <2>4. ASSUME NEW x
        PROVE  x \in Begun' <=> \E p \in 1..Len(stack') : x \in Runs(stack'[p])
    BY <2>2, <2>3 DEF Begun, FramesAt, Runs
  <2>5. RunsIn(stack') = Begun'
    BY <2>4, RunsAt
  <2> QED BY <2>5 DEF Shows
<1> QED BY <1>1, <1>2, <1>3

LEMMA NextSteps ==
  ASSUME Inv, Inv', Nests, Next
  PROVE  Nests' /\ Steps
<1>0. Rises(stack) /\ Once /\ Leaving \subseteq Events
  BY BannedEvents DEF Nests
<1> DEFINE Quiet == Shows(stack', Begun, Leaving)
<1>1. Quiet /\ Owing(Owed) => Nests' /\ Steps
  BY Seen DEF Owing, Nests, Steps, Stays
<1>2. Quiet /\ Rings => Nests' /\ Steps
  BY Seen DEF Rings, Owing, Nests, Steps, Stays
<1> HIDE DEF Quiet
<1>3. CASE ListGroup \/ ListNotifies \/ ListEnds \/ Relock
  <2>1. Quiet
    BY <1>0, <1>3, WalksQuiet DEF Quiet
  <2>2. Owing(Owed) \/ Rings
    BY <1>0, <1>3, QueuesAlone, QueuesRing
  <2> QED BY <1>1, <1>2, <2>1, <2>2
<1>4. CASE \/ RestoreDispatches \/ RestoreEnds \/ RestoreLowers \/ EndOfInterrupt \/ CallRestore
           \/ DispatchEnds
  <2>1. Quiet
    BY <1>0, <1>4, LevelsQuiet DEF Quiet
  <2>2. Owing(Owed)
    BY <1>0, <1>4, QueuesAlone
  <2> QED BY <1>1, <2>1, <2>2
<1>5. CASE CallNotify \/ ExpireTakes \/ ExpireSignals \/ Rearm
  <2>1. Quiet
    BY <1>0, <1>5, FunctionsQuiet DEF Quiet
  <2>2. Owing(Owed) \/ Rings
    BY <1>0, <1>5, QueuesAlone, QueuesRing
  <2> QED BY <1>1, <1>2, <2>1, <2>2
<1>6. CASE CancelTimer \/ SetTimer \/ InsertTimer
  <2>1. Quiet
    BY <1>0, <1>6, TimerSectionsQuiet DEF Quiet
  <2>2. Owing(Owed) \/ Rings
    BY <1>0, <1>6, QueuesAlone, QueuesRing
  <2> QED BY <1>1, <1>2, <2>1, <2>2
<1>7. CASE WaitChecks \/ WaitIdles \/ Look
  <2>1. Quiet
    BY <1>0, <1>7, EventsQuiet DEF Quiet
  <2>2. Owing(Owed) \/ Rings
    BY <1>0, <1>7, QueuesAlone, QueuesRing
  <2> QED BY <1>1, <1>2, <2>1, <2>2
<1>8. CASE Unlink
  <2>1. Quiet
    BY <1>0, <1>8, EventsQuiet DEF Quiet
  <2>2. Top.ev \in Leaving /\ Owing(Owed \ {Top.ev})
    BY <1>0, <1>8, UnlinkOwing
  <2>3. Rises(stack)' /\ Begun' = Begun /\ Leaving' = Leaving
    BY <2>1, Seen DEF Quiet
  <2> QED BY <2>2, <2>3 DEF Owing, Nests, Steps
<1>9. CASE \/ \E e \in Events : CallSignal(e) \/ CallCheck(e) \/ CallCreate(e)
           \/ \E a \in Arms : CallSetTimer(a[2], a[3], a[4])
           \/ CallWait
           \/ \E l \in {Callback, Notify} : CallRaise(l)
  <2>1. Quiet
    BY <1>0, <1>9, CallsQuiet DEF Quiet
  <2>2. Owing(Owed) \/ Rings
    BY <1>0, <1>9, QueuesAlone, QueuesRing
  <2> QED BY <1>1, <1>2, <2>1, <2>2
<1>10. CASE \E d \in Durations : Tick(d)
  <2>1. Quiet
    BY <1>0, <1>10, TickQuiet DEF Quiet
  <2>2. Rings
    BY <1>0, <1>10, QueuesRing
  <2> QED BY <1>2, <2>1, <2>2
<1>11. CASE DispatchTakes
  <2>1. PICK e \in All : /\ Top.to \in Levels /\ e = Head(queue[Top.to]) /\ TplOf(e) = Top.to
                         /\ \A r \in Begun : TplOf(r) < TplOf(e)
                         /\ Shows(stack', Begun \cup {e}, Leaving)
    BY <1>0, <1>11, TakesShows
  <2>2. e \in Owed /\ Owing(Owed \ {e})
    BY <1>0, <1>11, <2>1, TakesOwing
  <2>3. Rises(stack)' /\ Begun' = Begun \cup {e} /\ Leaving' = Leaving
    BY <2>1, Seen
  <2> QED BY <2>1, <2>2, <2>3 DEF Owing, Nests, Steps
<1>12. CASE Return \/ ExpireEnds
  <2>1. PICK e \in Begun : /\ \A r \in Begun \ {e} : TplOf(r) < TplOf(e)
                           /\ Shows(stack', Begun \ {e}, Leaving)
    BY <1>0, <1>12, EndsShows
  <2>2. Owing(Owed)
    BY <1>0, <1>12, QueuesAlone
  <2>3. Rises(stack)' /\ Begun' = Begun \ {e} /\ Leaving' = Leaving
    BY <2>1, Seen
  <2> QED BY <2>1, <2>2, <2>3 DEF Owing, Nests, Steps
<1>13. CASE \E e \in Events : CallClose(e)
  <2>1. PICK e \in Events : CallClose(e)
    BY <1>13
  <2>2. Rises(stack)' /\ Begun' = Begun /\ Leaving' = Leaving \cup {e}
    BY <1>0, <2>1, CloseShows, Seen
  <2>3. Owing(Owed)
    BY <1>0, <2>1, QueuesAlone
  <2> QED BY <2>2, <2>3 DEF Owing, Nests, Steps
<1>14. CASE Free
  <2>1. PICK C : /\ Shows(stack', Begun, C)
                 /\ (C = Leaving \/ C = Leaving \ {Top.ev})
                 /\ Top.ev \in Leaving
    BY <1>0, <1>14, FreeShows
  <2>2. Rises(stack)' /\ Begun' = Begun /\ Leaving' = C
    BY <2>1, Seen
  <2>3. Owing(Owed)
    BY <1>0, <1>14, QueuesAlone
  <2> QED BY <2>1, <2>2, <2>3 DEF Owing, Nests, Steps, Stays
<1> QED BY <1>3, <1>4, <1>5, <1>6, <1>7, <1>8, <1>9, <1>10, <1>11, <1>12, <1>13, <1>14
        DEF Next, Core, Calls

\* Steps, in the words of Notifications.
LEMMA StepsPromised ==
  ASSUME Inv, Inv', Steps
  PROVE  [Promised!Next]_(Promised!vars)
<1>1. Closing = Leaving /\ Closing' = Leaving'
  <2>1. DOMAIN stack' = 1..Len(stack')
    BY LenProperties DEF Inv, CpuOK, StackOK, Body
  <2>2. Closing' = Leaving'
    BY <2>1 DEF Closing, FramesAt, EvsAt, Leaving, Ends
  <2> QED BY <2>2, Closings
<1>2. Owed = {e \in All : Queued(e)} /\ Owed' = {e \in All : Queued(e)}'
  BY DEF Owed
<1>3. Owed \subseteq All /\ Begun \subseteq All
  <2>1. \A p \in 1..Len(stack) : Shape(stack[p]) /\ Runs(stack[p]) \subseteq All
    BY TopFacts DEF Inv, Body, Shape, Runs, All
  <2>2. \A x \in Begun : \E p \in 1..Len(stack) : x \in Runs(stack[p])
    <3>1. DOMAIN stack = 1..Len(stack)
      BY LenProperties, TopFacts DEF Inv
    <3>2. \A p \in 1..Len(stack) : stack[p].at = "notify" => stack[p].ev # App
      BY <2>1, EventAssumption DEF Shape
    <3> QED BY <3>1, <3>2 DEF Begun, FramesAt, Runs
  <2> QED BY <2>1, <2>2 DEF Owed
<1>4. CASE Stays
  BY <1>1, <1>2, <1>4 DEF Stays, Promised!vars
<1>5. CASE \E e \in Callees : Owed' = Owed \cup {e} /\ Begun' = Begun /\ Leaving' = Leaving
  BY <1>1, <1>2, <1>5 DEF Promised!Next, Promised!Ring
<1>6. CASE \E e \in Owed :
             /\ \A r \in Begun : TplOf(r) < TplOf(e)
             /\ Owed' = Owed \ {e} /\ Begun' = Begun \cup {e} /\ Leaving' = Leaving
  BY <1>1, <1>2, <1>3, <1>6 DEF Promised!Next, Promised!Begin
<1>7. CASE \E e \in Begun :
             /\ \A r \in Begun \ {e} : TplOf(r) < TplOf(e)
             /\ Owed' = Owed /\ Begun' = Begun \ {e} /\ Leaving' = Leaving
  BY <1>1, <1>2, <1>3, <1>7 DEF Promised!Next, Promised!Finish
<1>8. CASE \E e \in Events : Owed' = Owed /\ Begun' = Begun /\ Leaving' = Leaving \cup {e}
  BY <1>1, <1>2, <1>8 DEF Promised!Next, Promised!StartClose
<1>9. CASE \E e \in Leaving : Owed' = Owed \ {e} /\ Begun' = Begun /\ Leaving' = Leaving
  BY <1>1, <1>2, <1>9 DEF Promised!Next, Promised!Forget
<1>10. CASE \E e \in Leaving : Owed' = Owed /\ Begun' = Begun /\ Leaving' = Leaving \ {e}
  BY <1>1, <1>2, <1>10 DEF Promised!Next, Promised!EndClose
<1> QED BY <1>4, <1>5, <1>6, <1>7, <1>8, <1>9, <1>10 DEF Steps

LEMMA InitNests ==
  ASSUME Init
  PROVE  Nests /\ Promised!Init
<1>1. PICK f : f = Frame("code", Application, App, 0)
  OBVIOUS
<1>2. /\ stack = <<f>> /\ f.at = "code" /\ f.ev = App /\ queue = [l \in Levels |-> <<>>]
  BY <1>1, FrameHas DEF Init
<1>3. Len(stack) = 1 /\ stack[1] = f /\ DOMAIN stack = 1..1
  BY <1>2
<1>4. Rises(stack)
  BY <1>3 DEF Rises
<1>5. \A l \in Levels : queue[l] = <<>> /\ Len(queue[l]) = 0 /\ DOMAIN queue[l] = {}
  BY <1>2
<1>6. Once
  BY <1>5 DEF Once, Distinct
<1>7. {e \in All : Queued(e)} = {}
  <2>1. \A e \in All : TplOf(e) \in Levels
    BY EventAssumption DEF TplOf, All
  <2> QED BY <1>5, <2>1 DEF Queued
<1>8. Begun = {} /\ Closing = {}
  BY <1>2, <1>3 DEF Begun, Closing, FramesAt
<1> QED BY <1>4, <1>6, <1>7, <1>8 DEF Nests, Promised!Init

\* The event services implement Notifications: an event that was signalled is owed
\* one notification until its function begins or its CloseEvent takes it off the
\* queues, and a function begins only when all those under way are of lower level,
\* wherever the tick and the calls of CoreRestoreTpl come in between (CoreSignalEvent,
\* Event.c:527-573; CoreDispatchEventNotifies, Event.c:163-209; CoreRestoreTpl, Tpl.c:97-142).
THEOREM NotificationsImplemented == Spec => ImplementsNotifications
<1>1. Inv /\ Inv' /\ Nests /\ [Next]_vars => Nests' /\ [Promised!Next]_(Promised!vars)
  <2>1. Nests /\ UNCHANGED vars => Nests' /\ UNCHANGED Promised!vars
    <3> SUFFICES ASSUME Nests, UNCHANGED vars
                 PROVE  Nests' /\ UNCHANGED Promised!vars
      OBVIOUS
    <3>1. queue' = queue /\ stack' = stack
      BY DEF vars
    <3>2. \A x : TplOf(x)' = TplOf(x)
      BY DEF TplOf
    <3>3. Nests'
      BY <3>1 DEF Nests, Rises, Once, Distinct
    <3>4. /\ Begun' = Begun /\ Closing' = Closing
          /\ {e \in All : Queued(e)}' = {e \in All : Queued(e)}
      BY <3>1, <3>2 DEF Begun, Closing, FramesAt, Queued
    <3> QED BY <3>3, <3>4 DEF Promised!vars
  <2> QED BY <2>1, NextSteps, StepsPromised
<1> QED BY <1>1, InitNests, InvHolds, PTL DEF Spec, ImplementsNotifications, Promised!Spec
=============================================================================
