----------------------- MODULE SmmCoreDispatch_proofs -----------------------
(***************************************************************************)
(* SmmCore for any drivers, volumes and messages and any number of SMIs,   *)
(* notifications and calls: no walk over handlers goes astray, a success   *)
(* that the dispatcher reports is one, and drivers are started in order.   *)
(***************************************************************************)
EXTENDS SmmCore_proofs

USE DEF Depth

-----------------------------------------------------------------------------
(* What any step does to the stack: the frame on top turns into one that is   *)
(* about the same, a frame is put on it, or it is taken off; of the frames     *)
(* below one is told something.                                               *)

Turns == {<<"communicate", "size">>, <<"communicate", "answered">>, <<"communicate", "direct">>,
          <<"size", "trigger">>, <<"trigger", "sent">>, <<"sent", "answered">>,
          <<"direct", "answered">>, <<"entry", "sync">>, <<"entry", "root">>,
          <<"sync", "root">>, <<"manage", "managing">>, <<"managing", "astray">>,
          <<"find", "drain">>, <<"start", "calls">>, <<"start", "started">>,
          <<"calls", "started">>, <<"notify", "again">>, <<"notify", "notified">>,
          <<"again", "notify">>}

Turned(f, g) ==
  /\ g.type = f.type /\ g.up = f.up
  /\ g.at = f.at \/ <<f.at, g.at>> \in Turns
  /\ f.at \notin {"manage", "managing"} => g.who = f.who
  /\ f.at = "again" /\ g.at = "notify" => g.reply = "clear"
  /\ f.at = "managing" /\ g.at = "astray" => ~Stands(f, handlers)
  /\ g.at = "managing" =>
       /\ g.ret = f.ret
       /\ (f.at = "managing" /\ g.who = f.who) \/ g.who \in ToSet(handlers[g.type])
  /\ g.reply = f.reply \/ g.reply = "clear"

Pushed(f, g, c) ==
  /\ c.at \in {"communicate", "entry", "manage", "start", "notify",
               "handler", "lock", "legacy", "enddxe", "find"}
  /\ c.reply = "clear"
  /\ c.at = "communicate" => f.at \in {"dxe", "calls", "notify"}
  /\ c.at = "manage" => f.at \in {"communicate", "entry", "sync"}
  /\ c.at = "start" => f.at = "drain"
  /\ c.at = "notify" => /\ f.at \in {"dxe"} \cup Requests
                        /\ c.type \in {"lock", "boot"} => CpuIo \in ready
  /\ c.at \in HandlerLabels =>
       /\ c.who = g.who /\ g.who \in ToSet(handlers[g.type])
       /\ g.type = "root" \/ g.ret # "success"

Hears(t, i) ==
  /\ \/ t[i].ret = stack[i].ret
     \/ /\ i = Depth - 1 /\ Len(t) = Depth - 1
        /\ Top.at \in HandlerLabels \cup Walks \cup {"started"}
  /\ \/ t[i].reply = stack[i].reply
     \/ Top.at = "answered" /\ i = Depth - 1 /\ Len(t) = Depth - 1 /\ t[i].reply = Top.reply
     \/ /\ Top.at \in HandlerLabels /\ i = Top.up /\ i # Depth - 1 /\ Len(t) = Depth - 1
        /\ t[i].reply # "success" \/ DispatcherEnds

Moved(t) ==
  /\ Rest(t) /\ Len(t) \in {Depth - 1, Depth, Depth + 1}
  /\ Len(t) # Depth - 1 => Turned(Top, t[Depth])
  /\ Len(t) = Depth + 1 => Pushed(Top, t[Depth], t[Depth + 1])
  /\ \A i \in 1..Depth - 1 : Hears(t, i)

LEMMA HearsNothing ==
  ASSUME NEW t, NEW i, t[i] = stack[i]
  PROVE  Hears(t, i)
BY DEF Hears

LEMMA OneApart ==
  \A k \in Nat : /\ k # k - 1 /\ k # k + 1 /\ k >= k - 1
                 /\ k + 1 # k - 1 /\ k + 1 >= k - 1 /\ k - 1 # k + 1
OBVIOUS

LEMMA LastReplaced ==
  ASSUME NEW S, NEW s \in Seq(S), s # <<>>, NEW f, NEW t, t = [s EXCEPT ![Len(s)] = f]
  PROVE  /\ Len(s) \in Nat \ {0} /\ t \in Seq(S \cup {f}) /\ Len(t) = Len(s)
         /\ t[Len(s)] = f /\ \A i \in 1..Len(s) - 1 : t[i] = s[i]
<1>1. Len(s) \in Nat \ {0} /\ DOMAIN s = 1..Len(s) /\ Len(s) \in 1..Len(s)
  OBVIOUS
<1>2. PICK n \in Nat \ {0} : n = Len(s)
  BY <1>1
<1>3. PICK T : T = S \cup {f}
  OBVIOUS
<1>4. s \in Seq(T) /\ f \in T
  BY <1>3, SeqMonotonic
<1>5. t = [s EXCEPT ![n] = f] /\ n \in 1..Len(s)
  BY <1>1, <1>2
<1>6. t \in Seq(T) /\ Len(t) = Len(s)
  BY <1>4, <1>5, ExceptSeq
<1>7. \A i \in 1..n : t[i] = IF i = n THEN f ELSE s[i]
  BY <1>4, <1>5, <1>2, ExceptSeq
<1>8. n \in 1..n /\ \A i \in 1..n - 1 : i \in 1..n /\ i # n
  OBVIOUS
<1> QED BY <1>1, <1>2, <1>3, <1>6, <1>7, <1>8

LEMMA BecomeMoves ==
  ASSUME TypedStack, stack # <<>>, NEW f, Turned(Top, f), NEW t, t \in Seq(Frames),
         t = [stack EXCEPT ![Depth] = f]
  PROVE  Moved(t)
<1>1. Depth \in Nat \ {0} /\ Len(t) = Depth /\ t[Depth] = f
      /\ \A i \in 1..Depth - 1 : t[i] = stack[i]
  BY LastReplaced DEF TypedStack
<1>5. Depth # Depth - 1 /\ Depth # Depth + 1 /\ Depth >= Depth - 1
  BY <1>1, OneApart
<1>6. Rest(t)
  BY <1>1, <1>5, SameItself DEF Rest
<1>7. \A i \in 1..Depth - 1 : Hears(t, i)
  BY <1>1, HearsNothing
<1> QED BY <1>1, <1>5, <1>6, <1>7 DEF Moved

LEMMA CallMoves ==
  ASSUME TypedStack, stack # <<>>, NEW f, NEW c, Turned(Top, f), Pushed(Top, f, c), NEW t, t \in Seq(Frames),
         t = Called(f, c)
  PROVE  Moved(t)
<1>2. PICK u : u = [stack EXCEPT ![Depth] = f] /\ t = Append(u, c)
  BY DEF Called
<1>1. /\ Depth \in Nat \ {0} /\ u \in Seq(Frames \cup {f}) /\ Len(u) = Depth /\ u[Depth] = f
      /\ \A i \in 1..Depth - 1 : u[i] = stack[i]
  BY <1>2, LastReplaced DEF TypedStack
<1>3. PICK S : S = Frames \cup {f, c}
  OBVIOUS
<1>4. u \in Seq(S)
  <2>1. Frames \cup {f} \subseteq S
    BY <1>3
  <2> QED BY <1>1, <2>1, SeqMonotonic
<1>6. Len(t) = Depth + 1 /\ t[Depth + 1] = c /\ \A i \in 1..Depth : t[i] = u[i]
  <2>1. c \in S
    BY <1>3
  <2>2. /\ Len(Append(u, c)) = Len(u) + 1 /\ Append(u, c)[Len(u) + 1] = c
        /\ \A i \in 1..Len(u) : Append(u, c)[i] = u[i]
    BY ONLY <1>4, <2>1, Appended
  <2> QED BY <1>1, <1>2, <2>2
<1>7. t[Depth] = f /\ \A i \in 1..Depth - 1 : t[i] = stack[i]
  BY <1>1, <1>6
<1>8. Depth + 1 # Depth - 1 /\ Depth + 1 >= Depth - 1
  BY <1>1, OneApart
<1>9. Rest(t)
  BY <1>6, <1>7, <1>8, SameItself DEF Rest
<1>10. \A i \in 1..Depth - 1 : Hears(t, i)
  BY <1>7, HearsNothing
<1> QED BY <1>6, <1>7, <1>8, <1>9, <1>10 DEF Moved

LEMMA ReturnMoves ==
  ASSUME TypedStack, Depth > 1, NEW f \in Frames, Same(f, Caller),
         f.reply = Caller.reply \/ (Top.at = "answered" /\ f.reply = Top.reply),
         f.ret = Caller.ret \/ Top.at \in Walks \cup {"started"},
         NEW t, t = Append(SubSeq(stack, 1, Depth - 2), f)
  PROVE  Moved(t)
<1>1. Depth \in Nat
  BY DEF TypedStack
<1>3. /\ Rest(t) /\ Len(t) = Depth - 1 /\ t[Depth - 1] = f
      /\ \A i \in 1..Depth - 2 : t[i] = stack[i]
  BY Returning
<1>4. Depth - 1 # Depth + 1
  BY <1>1
<1>5. ASSUME NEW i \in 1..Depth - 1
      PROVE  Hears(t, i)
  <2>1. CASE i = Depth - 1
    BY <1>3, <2>1 DEF Hears, Caller
  <2>2. CASE i # Depth - 1
    <3>1. i \in 1..Depth - 2
      BY <1>1, <2>2
    <3> QED BY <1>3, <3>1, HearsNothing
  <2> QED BY <2>1, <2>2
<1> QED BY <1>3, <1>4, <1>5 DEF Moved

LEMMA HandlerMoves ==
  ASSUME TypedStack, Depth > 1, Top.at \in HandlerLabels, NEW ret \in Statuses,
         NEW reply \in Replies, reply # "success" \/ DispatcherEnds,
         NEW t,
         t = [i \in 1..Depth - 1 |->
                IF i = Depth - 1 THEN [stack[i] EXCEPT !.ret = ret]
                ELSE IF i = Top.up THEN [stack[i] EXCEPT !.reply = reply]
                ELSE stack[i]]
  PROVE  Moved(t)
<1>1. Depth \in Nat
  BY DEF TypedStack
<1>3. Rest(t) /\ Len(t) = Depth - 1
  BY HandlerDone
<1>4. Depth - 1 # Depth + 1
  BY <1>1
<1>5. ASSUME NEW i \in 1..Depth - 1
      PROVE  Hears(t, i)
  <2>1. stack[i] \in Frames
    BY <1>1 DEF TypedStack
  <2>2. CASE i = Depth - 1
    <3>1. t[i] = [stack[i] EXCEPT !.ret = ret]
      BY <2>2
    <3>2. t[i].reply = stack[i].reply
      BY <2>1, <3>1 DEF Frames
    <3> QED BY <1>3, <2>2, <3>2 DEF Hears
  <2>3. CASE i # Depth - 1 /\ i = Top.up
    <3>1. t[i] = [stack[i] EXCEPT !.reply = reply]
      BY <2>3
    <3>2. t[i].reply = reply /\ t[i].ret = stack[i].ret
      BY <2>1, <3>1 DEF Frames
    <3> QED BY <1>3, <2>3, <3>2 DEF Hears
  <2>4. CASE i # Depth - 1 /\ i # Top.up
    <3>1. t[i] = stack[i]
      BY <2>4
    <3> QED BY <3>1, HearsNothing
  <2> QED BY <2>2, <2>3, <2>4
<1> QED BY <1>3, <1>4, <1>5 DEF Moved

\* What a step takes from the invariant.
Known == IInv /\ stack' \in Seq(Frames)

LEMMA KnownFacts ==
  ASSUME Known
  PROVE  /\ TypedStack /\ stack # <<>> /\ Top \in Frames /\ Shape(Top) /\ stack' \in Seq(Frames)
         /\ Top.at # "dxe" => Depth > 1
         /\ Depth > 1 => Caller \in Frames
BY ControlFacts DEF Known, IInv

LEMMA BecomeSo ==
  ASSUME Known, NEW f, Become(f), f.type = Top.type, f.up = Top.up, f.who = Top.who,
         f.reply \in {Top.reply, "clear"}, f.at = Top.at \/ <<Top.at, f.at>> \in Turns,
         f.at # "managing", Top.at # "managing", Top.at = "again" => f.reply = "clear"
  PROVE  Moved(stack')
<1>1. Turned(Top, f)
  BY DEF Turned
<1> QED BY <1>1, KnownFacts, BecomeMoves DEF Become

LEMMA CallSo ==
  ASSUME Known, NEW f, NEW c, Call(f, c), f.type = Top.type, f.up = Top.up, f.who = Top.who,
         f.reply = Top.reply, f.at = Top.at \/ <<Top.at, f.at>> \in Turns,
         f.at # "managing" \/ (f.ret = Top.ret /\ f.at = Top.at), c.reply = "clear",
         c.at \in {"communicate", "entry", "manage", "start", "notify"},
         c.at = "communicate" => Top.at \in {"dxe", "calls", "notify"},
         c.at = "manage" => Top.at \in {"communicate", "entry", "sync"},
         c.at = "start" => Top.at = "drain",
         c.at = "notify" => /\ Top.at \in {"dxe"} \cup Requests
                            /\ c.type \in {"lock", "boot"} => CpuIo \in ready,
         f.at # "astray" \/ Top.at # "managing", Top.at # "again" \/ f.at = Top.at
  PROVE  Moved(stack')
<1>1. Turned(Top, f)
  BY DEF Turned
<1>2. Pushed(Top, f, c)
  BY DEF Pushed, HandlerLabels
<1> QED BY <1>1, <1>2, KnownFacts, CallMoves DEF Call, Called

LEMMA ReturnSo ==
  ASSUME Known, Top.at # "dxe", NEW f, Return(f),
         \/ f = Caller
         \/ /\ Top.at \in Walks \cup {"started"}
            /\ \E r \in Statuses : f = [Caller EXCEPT !.ret = r]
         \/ Top.at = "answered" /\ f = [Caller EXCEPT !.reply = Top.reply]
  PROVE  Moved(stack')
<1>1. TypedStack /\ Depth > 1 /\ Caller \in Frames /\ Top \in Frames
  BY KnownFacts
<1>2. f \in Frames /\ Same(f, Caller)
  BY <1>1 DEF Frames, Same
<1>3. f.reply = Caller.reply \/ (Top.at = "answered" /\ f.reply = Top.reply)
  BY <1>1 DEF Frames
<1>4. f.ret = Caller.ret \/ Top.at \in Walks \cup {"started"}
  BY <1>1 DEF Frames
<1> QED BY <1>1, <1>2, <1>3, <1>4, ReturnMoves DEF Return

LEMMA FrameSo ==
  ASSUME NEW at, NEW type, NEW c, c = Frame(at, type)
  PROVE  c.at = at /\ c.reply = "clear"
BY DEF Frame

LEMMA PutBufferMoves ==
  ASSUME Known, PutBuffer
  PROVE  Moved(stack')
<1>1. Top \in Frames /\ Top.at = "communicate"
  BY KnownFacts DEF PutBuffer, At
<1>2. PICK f : f = [Top EXCEPT !.at = "size"]
  OBVIOUS
<1>3. Become(f)
  BY <1>2 DEF PutBuffer
<1>4. /\ f.type = Top.type /\ f.up = Top.up /\ f.who = Top.who
      /\ f.reply = Top.reply /\ f.at = "size"
  BY <1>1, <1>2 DEF Frames
<1>5. <<"communicate", "size">> \in Turns
  BY DEF Turns
<1> QED BY <1>1, <1>3, <1>4, <1>5, BecomeSo

LEMMA PutSizeMoves ==
  ASSUME Known, PutSize
  PROVE  Moved(stack')
<1>1. Top \in Frames /\ Top.at = "size"
  BY KnownFacts DEF PutSize, At
<1>2. PICK f : f = [Top EXCEPT !.at = "trigger"]
  OBVIOUS
<1>3. Become(f)
  BY <1>2 DEF PutSize
<1>4. /\ f.type = Top.type /\ f.up = Top.up /\ f.who = Top.who
      /\ f.reply = Top.reply /\ f.at = "trigger"
  BY <1>1, <1>2 DEF Frames
<1>5. <<"size", "trigger">> \in Turns
  BY DEF Turns
<1> QED BY <1>1, <1>3, <1>4, <1>5, BecomeSo

LEMMA SentMoves ==
  ASSUME Known, Sent
  PROVE  Moved(stack')
<1>1. Top \in Frames /\ Top.at = "sent"
  BY KnownFacts DEF Sent, At
<1>2. PICK f : f = [Top EXCEPT !.at = "answered", !.ret = status]
  OBVIOUS
<1>3. Become(f)
  BY <1>2 DEF Sent
<1>4. /\ f.type = Top.type /\ f.up = Top.up /\ f.who = Top.who
      /\ f.reply = Top.reply /\ f.at = "answered"
  BY <1>1, <1>2 DEF Frames
<1>5. <<"sent", "answered">> \in Turns
  BY DEF Turns
<1> QED BY <1>1, <1>3, <1>4, <1>5, BecomeSo

LEMMA RefuseMoves ==
  ASSUME Known, Refuse
  PROVE  Moved(stack')
<1>1. Top \in Frames /\ Top.at = "communicate"
  BY KnownFacts DEF Refuse, At
<1>2. PICK f : f = [Top EXCEPT !.at = "answered", !.ret = "invalid"]
  OBVIOUS
<1>3. Become(f)
  BY <1>2 DEF Refuse
<1>4. /\ f.type = Top.type /\ f.up = Top.up /\ f.who = Top.who
      /\ f.reply = Top.reply /\ f.at = "answered"
  BY <1>1, <1>2 DEF Frames
<1>5. <<"communicate", "answered">> \in Turns
  BY DEF Turns
<1> QED BY <1>1, <1>3, <1>4, <1>5, BecomeSo

LEMMA DirectEndsMoves ==
  ASSUME Known, DirectEnds
  PROVE  Moved(stack')
<1>1. Top \in Frames /\ Top.at = "direct"
  BY KnownFacts DEF DirectEnds, At
<1>2. PICK f : f = [Top EXCEPT !.at = "answered", !.flag = FALSE,
                        !.ret = IF @ = "success" THEN "success" ELSE "notfound"]
  OBVIOUS
<1>3. Become(f)
  BY <1>2 DEF DirectEnds
<1>4. /\ f.type = Top.type /\ f.up = Top.up /\ f.who = Top.who
      /\ f.reply = Top.reply /\ f.at = "answered"
  BY <1>1, <1>2 DEF Frames
<1>5. <<"direct", "answered">> \in Turns
  BY DEF Turns
<1> QED BY <1>1, <1>3, <1>4, <1>5, BecomeSo

LEMMA TriggerMoves ==
  ASSUME Known, Trigger
  PROVE  Moved(stack')
<1>1. Top \in Frames /\ Top.at = "trigger"
  BY KnownFacts DEF Trigger, At
<1>2. PICK f : f = [Top EXCEPT !.at = "sent"]
  OBVIOUS
<1>3. PICK c : c = Frame("entry", NoType)
  OBVIOUS
<1>4. Call(f, c)
  BY <1>2, <1>3 DEF Trigger
<1>5. /\ f.type = Top.type /\ f.up = Top.up /\ f.who = Top.who
      /\ f.reply = Top.reply /\ f.at = "sent"
  BY <1>1, <1>2 DEF Frames
<1>6. c.reply = "clear" /\ c.at = "entry"
  BY <1>3, FrameSo DEF Frame, Communicate, Manage
<1>7. <<"trigger", "sent">> \in Turns
  BY DEF Turns
<1> QED BY <1>1, <1>4, <1>5, <1>6, <1>7, CallSo

LEMMA DirectMoves ==
  ASSUME Known, Direct
  PROVE  Moved(stack')
<1>1. Top \in Frames /\ Top.at = "communicate"
  BY KnownFacts DEF Direct, At
<1>2. PICK f : f = [Top EXCEPT !.at = "direct", !.flag = inSmm, !.n = @ + 1]
  OBVIOUS
<1>3. PICK c : c = [Frame("manage", Top.type) EXCEPT !.up = Depth]
  OBVIOUS
<1>4. Call(f, c)
  BY <1>2, <1>3 DEF Direct
<1>5. /\ f.type = Top.type /\ f.up = Top.up /\ f.who = Top.who
      /\ f.reply = Top.reply /\ f.at = "direct"
  BY <1>1, <1>2 DEF Frames
<1>6. c.reply = "clear" /\ c.at = "manage"
  BY <1>3, FrameSo DEF Frame, Communicate, Manage
<1>7. <<"communicate", "direct">> \in Turns
  BY DEF Turns
<1> QED BY <1>1, <1>4, <1>5, <1>6, <1>7, CallSo

LEMMA SyncEndsMoves ==
  ASSUME Known, SyncEnds
  PROVE  Moved(stack')
<1>1. Top \in Frames /\ Top.at = "sync"
  BY KnownFacts DEF SyncEnds, At
<1>2. PICK f : f = [Top EXCEPT !.at = "root"]
  OBVIOUS
<1>3. PICK c : c = Manage("root")
  OBVIOUS
<1>4. Call(f, c)
  BY <1>2, <1>3 DEF SyncEnds
<1>5. /\ f.type = Top.type /\ f.up = Top.up /\ f.who = Top.who
      /\ f.reply = Top.reply /\ f.at = "root"
  BY <1>1, <1>2 DEF Frames
<1>6. c.reply = "clear" /\ c.at = "manage"
  BY <1>3, FrameSo DEF Frame, Communicate, Manage
<1>7. <<"sync", "root">> \in Turns
  BY DEF Turns
<1> QED BY <1>1, <1>4, <1>5, <1>6, <1>7, CallSo

LEMMA EntryAloneMoves ==
  ASSUME Known, EntryAlone
  PROVE  Moved(stack')
<1>1. Top \in Frames /\ Top.at = "entry"
  BY KnownFacts DEF EntryAlone, At
<1>2. PICK f : f = [Top EXCEPT !.at = "root", !.flag = legacy]
  OBVIOUS
<1>3. PICK c : c = Manage("root")
  OBVIOUS
<1>4. Call(f, c)
  BY <1>2, <1>3 DEF EntryAlone
<1>5. /\ f.type = Top.type /\ f.up = Top.up /\ f.who = Top.who
      /\ f.reply = Top.reply /\ f.at = "root"
  BY <1>1, <1>2 DEF Frames
<1>6. c.reply = "clear" /\ c.at = "manage"
  BY <1>3, FrameSo DEF Frame, Communicate, Manage
<1>7. <<"entry", "root">> \in Turns
  BY DEF Turns
<1> QED BY <1>1, <1>4, <1>5, <1>6, <1>7, CallSo

LEMMA StartCallsMoves ==
  ASSUME Known, StartCalls
  PROVE  Moved(stack')
<1>1. Top \in Frames /\ Top.at = "calls"
  BY KnownFacts DEF StartCalls, At
<1>2. PICK f : f = [Top EXCEPT !.at = "started"]
  OBVIOUS
<1>3. PICK c : c = Communicate(Calls[Top.who])
  OBVIOUS
<1>4. Call(f, c)
  BY <1>2, <1>3 DEF StartCalls
<1>5. /\ f.type = Top.type /\ f.up = Top.up /\ f.who = Top.who
      /\ f.reply = Top.reply /\ f.at = "started"
  BY <1>1, <1>2 DEF Frames
<1>6. c.reply = "clear" /\ c.at = "communicate"
  BY <1>3, FrameSo DEF Frame, Communicate, Manage
<1>7. <<"calls", "started">> \in Turns
  BY DEF Turns
<1> QED BY <1>1, <1>4, <1>5, <1>6, <1>7, CallSo

LEMMA AnsweredMoves ==
  ASSUME Known, Answered
  PROVE  Moved(stack')
<1>1. Top.at = "answered"
  BY DEF Answered, At
<1>2. PICK f : f = [Caller EXCEPT !.reply = Top.reply]
  OBVIOUS
<1>3. Return(f)
  BY <1>2 DEF Answered
<1> QED BY <1>1, <1>2, <1>3, ReturnSo

LEMMA EntryEndsMoves ==
  ASSUME Known, EntryEnds
  PROVE  Moved(stack')
<1>1. Top.at = "root"
  BY DEF EntryEnds, At
<1>2. PICK f : f = Caller
  OBVIOUS
<1>3. Return(f)
  BY <1>2 DEF EntryEnds
<1> QED BY <1>1, <1>2, <1>3, ReturnSo

LEMMA NotifyEndsMoves ==
  ASSUME Known, NotifyEnds
  PROVE  Moved(stack')
<1>1. Top.at = "notified"
  BY DEF NotifyEnds, At
<1>2. PICK f : f = Caller
  OBVIOUS
<1>3. Return(f)
  BY <1>2 DEF NotifyEnds
<1> QED BY <1>1, <1>2, <1>3, ReturnSo

LEMMA StartEndsMoves ==
  ASSUME Known, StartEnds
  PROVE  Moved(stack')
<1>1. Top.at = "started"
  BY DEF StartEnds, At
<1>2. PICK r \in Statuses : r = IF entry /\ ~Top.flag THEN "entered" ELSE "none"
  BY DEF Statuses
<1>3. Return([Caller EXCEPT !.ret = r])
  BY <1>2 DEF StartEnds
<1> QED BY <1>1, <1>3, ReturnSo

LEMMA EntryConveysMoves ==
  ASSUME Known, Pending(stack, buffer, size), EntryConveys
  PROVE  Moved(stack')
<1>1. /\ TypedStack /\ stack # <<>> /\ Top \in Frames /\ stack' \in Seq(Frames)
      /\ Top.at = "entry"
  BY KnownFacts DEF EntryConveys, At
<1>2. buffer \in 1..Depth /\ stack[buffer].at \in Requests
  BY DEF EntryConveys, Pending
<1>3. PICK c : c = Conveying(stack[buffer].type, buffer)
  OBVIOUS
<1>4. PICK t : t = stack' /\ t = Synced(buffer, c)
  BY <1>3 DEF EntryConveys, Synced, Conveying
<1>5. PICK f : f = Labelled(Top, "sync")
  OBVIOUS
<1>6. Shape(stack[buffer]) /\ stack[buffer].type \in CoreTypes \cup UserTypes
  BY <1>2 DEF Known, IInv, Control, Controlled, Structure, Chain, Shape, Posting
<1>7. stack[buffer].type \in Types \cup Events \cup {NoType} /\ buffer \in Nat
  BY <1>2, <1>6 DEF Types, Events
<1>8. c \in Frames /\ c.at = "manage" /\ c.reply = "clear"
  <2>1. PICK m : m = Frame("manage", stack[buffer].type)
    OBVIOUS
  <2>2. m \in Frames /\ m.at = "manage" /\ m.reply = "clear"
    BY <1>7, <2>1, FrameIs DEF Labels
  <2>3. c = [m EXCEPT !.up = buffer]
    BY <1>3, <2>1 DEF Conveying, Manage
  <2> QED BY <1>7, <2>2, <2>3 DEF Frames
<1>9. /\ Rest(t) /\ Len(t) = Depth + 1 /\ t[Depth] = f /\ t[Depth + 1] = c
      /\ t[buffer] = Bumped(stack[buffer])
      /\ \A i \in 1..Depth - 1 : i # buffer => t[i] = stack[i]
  <2>1. PICK b \in 1..Depth : b = buffer
    BY <1>2
  <2>2. stack[b].at \in Requests /\ t = Synced(b, c)
    BY <1>2, <1>4, <2>1
  <2>3. /\ Rest(t) /\ Len(t) = Depth + 1 /\ t[Depth] = f /\ t[Depth + 1] = c
        /\ t[b] = Bumped(stack[b])
        /\ \A i \in 1..Depth - 1 : i # b => t[i] = stack[i]
    BY <1>1, <1>5, <1>8, <2>2, Syncing
  <2> QED BY <2>1, <2>3
<1>10. Turned(Top, f)
  <2>1. /\ f.type = Top.type /\ f.up = Top.up /\ f.who = Top.who
        /\ f.reply = Top.reply /\ f.at = "sync"
    BY <1>1, <1>5 DEF Labelled, Frames
  <2>2. <<"entry", "sync">> \in Turns
    BY DEF Turns
  <2> QED BY <1>1, <2>1, <2>2 DEF Turned
<1>11. Pushed(Top, f, c)
  BY <1>1, <1>8 DEF Pushed, HandlerLabels
<1>12. \A i \in 1..Depth - 1 : Hears(t, i)
  <2>1. stack[buffer] \in Frames
    BY <1>1, <1>2 DEF TypedStack
  <2>2. t[buffer].ret = stack[buffer].ret /\ t[buffer].reply = stack[buffer].reply
    BY <1>9, <2>1 DEF Bumped, Frames
  <2>3. Hears(t, buffer)
    BY <2>2 DEF Hears
  <2> QED BY <1>9, <2>3, HearsNothing
<1>13. Depth \in Nat
  BY <1>1 DEF TypedStack
<1>14. Len(t) # Depth - 1 /\ Len(t) \in {Depth - 1, Depth, Depth + 1}
  BY <1>9, <1>13, OneApart
<1>15. Moved(t)
  BY <1>9, <1>10, <1>11, <1>12, <1>14 DEF Moved
<1> QED BY <1>4, <1>15

LEMMA WalkMoves ==
  ASSUME CoreAssumption, Known, Top.at \in Walks, NEW h \in Keepers(Top.type), NEW f,
         f.at = "managing", f.type = Top.type, f.up = Top.up, f.who = h,
         f.reply = Top.reply, f.ret = Top.ret, Top.at \in {"manage", "managing"},
         h \in ToSet(handlers[Top.type]), Top.type = "root" \/ Top.ret # "success",
         Call(f, HandlerFrame(h, Top.up))
  PROVE  Moved(stack')
<1>1. Top \in Frames /\ Shape(Top)
  BY KnownFacts
<1>2. PICK type \in Types, up \in Nat : type = Top.type /\ up = Top.up
  BY <1>1 DEF Shape, Frames
<1>3. PICK c : c = HandlerFrame(h, up)
  OBVIOUS
<1>4. /\ c.who = h
      /\ IF type \in CoreTypes THEN c.at = CoreHandlers[type]
         ELSE c.at = "handler" /\ h \in Drivers
  <2>1. Drivers \cap CoreTypes = {} /\ h \in Keepers(type)
    BY <1>2 DEF CoreAssumption
  <2> QED BY <1>3, <2>1, HandlerIs
<1>5. c.at \in {"handler", "find", "lock", "legacy", "enddxe"}
  BY <1>4 DEF CoreHandlers, CoreTypes
<1>6. c.reply = "clear"
  BY <1>3 DEF HandlerFrame, Frame
<1>7. Turned(Top, f)
  <2>1. <<"manage", "managing">> \in Turns
    BY DEF Turns
  <2> QED BY <2>1 DEF Turned
<1>8. Pushed(Top, f, c)
  BY <1>4, <1>5, <1>6 DEF Pushed, HandlerLabels
<1>9. stack' = Called(f, c)
  BY <1>2, <1>3 DEF Call, Called
<1> QED BY <1>7, <1>8, <1>9, KnownFacts, CallMoves

LEMMA ManageBeginsMoves ==
  ASSUME CoreAssumption, Known, ManageBegins
  PROVE  Moved(stack')
<1>1. Top \in Frames /\ Shape(Top) /\ Top.at = "manage" /\ Top.at \in Walks
  BY KnownFacts DEF ManageBegins, At, Walks
<1>2. CASE handlers[Top.type] = <<>>
  <2>1. Return([Caller EXCEPT !.ret = "notfound"]) /\ "notfound" \in Statuses
    BY <1>2 DEF ManageBegins, Statuses
  <2> QED BY <1>1, <2>1, ReturnSo
<1>3. CASE handlers[Top.type] # <<>>
  <2>1. PICK h : h = Head(handlers[Top.type])
    OBVIOUS
  <2>2. handlers[Top.type] \in Seq(Keepers(Top.type))
    BY <1>1 DEF Shape, Known, IInv, DataOK
  <2>3. h \in Keepers(Top.type)
    BY <1>3, <2>1, <2>2, HeadTailProperties
  <2>4. PICK f : f = [Top EXCEPT !.at = "managing", !.who = h]
    OBVIOUS
  <2>5. /\ f.at = "managing" /\ f.type = Top.type /\ f.up = Top.up /\ f.who = h
        /\ f.reply = Top.reply /\ f.ret = Top.ret
    BY <1>1, <2>4 DEF Frames
  <2>6. Call(f, HandlerFrame(h, Top.up))
    BY <1>3, <2>1, <2>4 DEF ManageBegins
  <2>7. h \in ToSet(handlers[Top.type])
    BY <1>3, <2>1, <2>2 DEF ToSet
  <2>8. Top.ret = "none"
    BY <1>1, TopFated DEF Known, IInv, Fated, Alone, Top
  <2> QED BY <1>1, <2>3, <2>5, <2>6, <2>7, <2>8, WalkMoves
<1> QED BY <1>2, <1>3

LEMMA ManagedMoves ==
  ASSUME CoreAssumption, Known, Managed
  PROVE  Moved(stack')
<1>1. Top \in Frames /\ Shape(Top) /\ Top.at = "managing" /\ Top.at \in Walks
  BY KnownFacts DEF Managed, At, Walks
<1>2. PICK g : g = (Top.flag \/ Top.ret \in {"success", "quiesced"})
  OBVIOUS
<1>3. Top.type \in Types /\ handlers[Top.type] \in Seq(Keepers(Top.type)) /\ DataOK
  BY <1>1 DEF Shape, Known, IInv, DataOK
<1>4. CASE \E r \in Statuses : Return([Caller EXCEPT !.ret = r])
  BY <1>1, <1>4, ReturnSo
<1>5. CASE ~Stops /\ ~Registered(Top.who, Top.type)
  <2>1. PICK f : f = [Top EXCEPT !.at = "astray"]
    OBVIOUS
  <2>2. /\ f.at = "astray" /\ f.type = Top.type /\ f.up = Top.up /\ f.who = Top.who
        /\ f.reply = Top.reply
    BY <1>1, <2>1 DEF Frames
  <2>3. <<"managing", "astray">> \in Turns
    BY DEF Turns
  <2>4. ~Stands(Top, handlers)
    BY <1>1, <1>5 DEF Stands, Stops, Registered, ToSet
  <2>5. Turned(Top, f)
    BY <1>1, <2>2, <2>3, <2>4 DEF Turned
  <2>6. stack' = [stack EXCEPT ![Depth] = f]
    BY <1>5, <2>1 DEF Managed, Become
  <2> QED BY <2>5, <2>6, KnownFacts, BecomeMoves
<1>6. CASE /\ ~Stops /\ Registered(Top.who, Top.type)
           /\ Position(Top.who, Top.type) # Len(handlers[Top.type])
  <2>1. PICK h : h = handlers[Top.type][Position(Top.who, Top.type) + 1]
    OBVIOUS
  <2>2. h \in Keepers(Top.type)
    BY <1>3, <1>6, <2>1, NextHandler
  <2>3. PICK f : f = [Top EXCEPT !.who = h, !.flag = g]
    OBVIOUS
  <2>4. /\ f.at = "managing" /\ f.type = Top.type /\ f.up = Top.up /\ f.who = h
        /\ f.reply = Top.reply /\ f.ret = Top.ret
    BY <1>1, <2>3 DEF Frames
  <2>5. Call(f, HandlerFrame(h, Top.up))
    BY <1>2, <1>6, <2>1, <2>3 DEF Managed
  <2>6. h \in ToSet(handlers[Top.type])
    <3>1. Position(Top.who, Top.type) \in DOMAIN handlers[Top.type]
      BY <1>6 DEF Position, Registered
    <3>2. Position(Top.who, Top.type) + 1 \in DOMAIN handlers[Top.type]
      BY <1>3, <1>6, <3>1
    <3> QED BY <2>1, <3>2 DEF ToSet
  <2>7. Top.type = "root" \/ Top.ret # "success"
    BY <1>6 DEF Stops
  <2> QED BY <1>1, <2>2, <2>4, <2>5, <2>6, <2>7, WalkMoves
<1>7. CASE /\ ~Stops /\ Registered(Top.who, Top.type)
           /\ Position(Top.who, Top.type) = Len(handlers[Top.type])
  <2>1. PICK r \in Statuses : r = IF g THEN "success" ELSE Top.ret
    BY <1>1 DEF Frames, Statuses
  <2>2. Return([Caller EXCEPT !.ret = r])
    BY <1>2, <1>7, <2>1 DEF Managed
  <2> QED BY <1>4, <2>2
<1>8. CASE Stops
  <2>1. Return([Caller EXCEPT !.ret = Top.ret]) /\ Top.ret \in Statuses
    BY <1>1, <1>8 DEF Managed, Frames
  <2> QED BY <1>4, <2>1
<1> QED BY <1>5, <1>6, <1>7, <1>8

\* The handlers.
LEMMA HandlerSo ==
  ASSUME Known, Top.at \in HandlerLabels, NEW ret \in Statuses, NEW reply \in Replies,
         reply # "success" \/ DispatcherEnds, HandlerReturns(ret, reply)
  PROVE  Moved(stack')
<1>1. TypedStack /\ Depth > 1
  BY KnownFacts DEF HandlerLabels
<1> QED BY <1>1, HandlerMoves DEF HandlerReturns

LEMMA HandlersMove ==
  ASSUME Known, \/ DriverHandler \/ ReadyToLockHandler \/ LegacyBootHandler \/ EndOfDxeHandler
                \/ DispatcherEnds \/ DispatcherRestarts
  PROVE  Moved(stack')
<1>1. {"success", "pending", "quiesced", "source_pending", "notfound"} \subseteq Statuses
      /\ {"handled", "success", "restart"} \subseteq Replies
  BY DEF Statuses, Replies
<1>2. CASE DriverHandler
  <2>1. PICK ret \in {"success", "pending", "quiesced", "source_pending"} :
          HandlerReturns(ret, "handled")
    BY <1>2 DEF DriverHandler
  <2>2. Top.at \in HandlerLabels
    BY <1>2 DEF DriverHandler, At, HandlerLabels
  <2> QED BY <1>1, <2>1, <2>2, HandlerSo
<1>3. CASE ReadyToLockHandler
  <2>1. PICK ret \in {"success", "notfound"} : HandlerReturns(ret, "handled")
    BY <1>3 DEF ReadyToLockHandler
  <2>2. Top.at \in HandlerLabels
    BY <1>3 DEF ReadyToLockHandler, At, HandlerLabels
  <2> QED BY <1>1, <2>1, <2>2, HandlerSo
<1>4. CASE LegacyBootHandler \/ EndOfDxeHandler
  <2>1. HandlerReturns("success", "handled") /\ Top.at \in HandlerLabels
    BY <1>4 DEF LegacyBootHandler, EndOfDxeHandler, At, HandlerLabels
  <2> QED BY <1>1, <2>1, HandlerSo
<1>5. CASE DispatcherEnds
  <2>1. HandlerReturns("success", "success") /\ Top.at \in HandlerLabels
    BY <1>5 DEF DispatcherEnds, At, HandlerLabels
  <2> QED BY <1>1, <1>5, <2>1, HandlerSo
<1>6. CASE DispatcherRestarts
  <2>1. HandlerReturns("success", "restart") /\ Top.at \in HandlerLabels
    BY <1>6 DEF DispatcherRestarts, At, HandlerLabels
  <2> QED BY <1>1, <2>1, HandlerSo
<1> QED BY <1>2, <1>3, <1>4, <1>5, <1>6

LEMMA FindVolumeMoves ==
  ASSUME Known, FindVolume
  PROVE  Moved(stack')
<1>1. Top \in Frames /\ Top.at = "find"
  BY KnownFacts DEF FindVolume, At
<1>2. PICK m : Become([Top EXCEPT !.n = m])
  BY <1>1 DEF FindVolume
<1>3. PICK f : f = [Top EXCEPT !.n = m]
  OBVIOUS
<1>4. /\ f.type = Top.type /\ f.up = Top.up /\ f.who = Top.who
      /\ f.reply = Top.reply /\ f.at = Top.at
  BY <1>1, <1>3 DEF Frames
<1> QED BY <1>1, <1>2, <1>3, <1>4, BecomeSo

LEMMA DispatcherBeginsMoves ==
  ASSUME Known, DispatcherBegins
  PROVE  Moved(stack')
<1>1. Top \in Frames /\ Top.at = "find" /\ Top.at \in HandlerLabels
  BY KnownFacts DEF DispatcherBegins, At, HandlerLabels
<1>2. CASE Become([Top EXCEPT !.at = "drain"])
  <2>1. PICK f : f = [Top EXCEPT !.at = "drain"]
    OBVIOUS
  <2>2. /\ f.type = Top.type /\ f.up = Top.up /\ f.who = Top.who
        /\ f.reply = Top.reply /\ f.at = "drain"
    BY <1>1, <2>1 DEF Frames
  <2>3. <<"find", "drain">> \in Turns
    BY DEF Turns
  <2> QED BY <1>1, <1>2, <2>1, <2>2, <2>3, BecomeSo
<1>3. CASE HandlerReturns("success", "error")
  <2>1. "success" \in Statuses /\ "error" \in Replies
    BY DEF Statuses, Replies
  <2> QED BY <1>1, <1>3, <2>1, HandlerSo
<1> QED BY <1>2, <1>3 DEF DispatcherBegins

LEMMA DrainMoves ==
  ASSUME Known, Drain
  PROVE  Moved(stack') \/ stack' = stack
<1>1. SUFFICES ASSUME stack' # stack
               PROVE  Moved(stack')
  OBVIOUS
<1>2. PICK d : Call(Top, [Frame("start", NoType) EXCEPT !.who = d, !.flag = entry])
  BY <1>1 DEF Drain
<1>3. PICK c : c = [Frame("start", NoType) EXCEPT !.who = d, !.flag = entry]
  OBVIOUS
<1>4. c.at = "start" /\ c.reply = "clear"
  BY <1>3 DEF Frame
<1>5. Top.at = "drain"
  BY DEF Drain, At
<1> QED BY <1>2, <1>3, <1>4, <1>5, CallSo

LEMMA StartDriverMoves ==
  ASSUME Known, StartDriver
  PROVE  Moved(stack')
<1>1. Top \in Frames /\ Top.at = "start"
  BY KnownFacts DEF StartDriver, At
<1>2. PICK l \in {"started", "calls"} : Become([Top EXCEPT !.at = l])
  BY DEF StartDriver
<1>3. PICK f : f = [Top EXCEPT !.at = l]
  OBVIOUS
<1>4. /\ f.type = Top.type /\ f.up = Top.up /\ f.who = Top.who
      /\ f.reply = Top.reply /\ f.at = l
  BY <1>1, <1>3 DEF Frames
<1>5. <<"start", "started">> \in Turns /\ <<"start", "calls">> \in Turns
  BY DEF Turns
<1> QED BY <1>1, <1>2, <1>3, <1>4, <1>5, BecomeSo

LEMMA NotifyMoves ==
  ASSUME Known, NotifyPosts \/ NotifyLocks \/ DispatchAgain
  PROVE  Moved(stack')
<1>1. Top \in Frames
  BY KnownFacts
<1>2. /\ <<"notify", "again">> \in Turns /\ <<"notify", "notified">> \in Turns
      /\ <<"again", "notify">> \in Turns
  BY DEF Turns
<1>3. ASSUME NEW l \in {"again", "notified"}, NEW type, Top.at = "notify",
             Call([Top EXCEPT !.at = l], Communicate(type))
      PROVE  Moved(stack')
  <2>1. PICK f : f = [Top EXCEPT !.at = l]
    OBVIOUS
  <2>2. /\ f.type = Top.type /\ f.up = Top.up /\ f.who = Top.who
        /\ f.reply = Top.reply /\ f.at = l
    BY <1>1, <2>1 DEF Frames
  <2>3. PICK c : c = Communicate(type)
    OBVIOUS
  <2>4. c.at = "communicate" /\ c.reply = "clear"
    BY <2>3, FrameSo DEF Communicate
  <2> QED BY <1>2, <1>3, <2>1, <2>2, <2>3, <2>4, CallSo
<1>4. CASE NotifyPosts
  <2>1. PICK l \in {"again", "notified"} :
          Call([Top EXCEPT !.at = l], Communicate(Top.type))
    BY <1>4 DEF NotifyPosts
  <2>2. Top.at = "notify"
    BY <1>4 DEF NotifyPosts, At
  <2> QED BY <1>3, <2>1, <2>2
<1>5. CASE NotifyLocks
  <2>1. Top.at = "notify"
    BY <1>5 DEF NotifyLocks, At
  <2>2. Return(Caller) \/ Call([Top EXCEPT !.at = "notified"], Communicate("lock"))
    BY <1>5 DEF NotifyLocks
  <2> QED BY <1>3, <2>1, <2>2, ReturnSo
<1>6. CASE DispatchAgain
  <2>1. Top.at = "again"
    BY <1>6 DEF DispatchAgain, At
  <2>2. CASE Return(Caller)
    BY <2>1, <2>2, ReturnSo
  <2>3. CASE Become([Top EXCEPT !.at = "notify", !.reply = "clear"])
    <3>1. PICK f : f = [Top EXCEPT !.at = "notify", !.reply = "clear"]
      OBVIOUS
    <3>2. /\ f.type = Top.type /\ f.up = Top.up /\ f.who = Top.who
          /\ f.reply = "clear" /\ f.at = "notify"
      BY <1>1, <3>1 DEF Frames
    <3> QED BY <1>2, <2>1, <2>3, <3>1, <3>2, BecomeSo
  <2> QED BY <1>6, <2>2, <2>3 DEF DispatchAgain
<1> QED BY <1>4, <1>5, <1>6

\* What comes from outside.
LEMMA OutsideMoves ==
  ASSUME Known, \/ \E type \in UserTypes : CallCommunicate(type)
                \/ \E event \in Events : Signal(event)
                \/ Smi
  PROVE  Moved(stack')
<1>1. Top \in Frames
  BY KnownFacts
<1>2. ASSUME NEW type \in UserTypes, CallCommunicate(type)
      PROVE  Moved(stack')
  <2>1. Top.at = "dxe" /\ Call(Top, Communicate(type))
    BY <1>2 DEF CallCommunicate, Dxe, At
  <2>2. PICK c : c = Communicate(type)
    OBVIOUS
  <2>3. c.at = "communicate" /\ c.reply = "clear"
    BY <2>2, FrameSo DEF Communicate
  <2> QED BY <2>1, <2>2, <2>3, CallSo
<1>3. CASE Smi
  <2>1. PICK c : c = Frame("entry", NoType)
    OBVIOUS
  <2>2. c.at = "entry" /\ c.reply = "clear" /\ Call(Top, c)
    BY <1>3, <2>1, FrameSo DEF Smi
  <2> QED BY <2>2, CallSo
<1>4. ASSUME NEW event \in Events, Signal(event)
      PROVE  Moved(stack')
  <2>1. PICK c : c = Frame("notify", event)
    OBVIOUS
  <2>2. c.at = "notify" /\ c.reply = "clear" /\ c.type = event
    BY <2>1, FrameSo DEF Frame
  <2>3. c.type \in {"lock", "boot"} => CpuIo \in ready
    BY <1>4, <2>2 DEF Signal
  <2>4. CASE Top.at = "dxe" /\ Call(Top, c)
    BY <2>2, <2>3, <2>4, CallSo
  <2>5. CASE Top.at \in Requests /\ Call([Top EXCEPT !.flag = TRUE], c)
    <3>1. PICK f : f = [Top EXCEPT !.flag = TRUE]
      OBVIOUS
    <3>2. /\ f.type = Top.type /\ f.up = Top.up /\ f.who = Top.who
          /\ f.reply = Top.reply /\ f.at = Top.at
      BY <1>1, <3>1 DEF Frames
    <3>3. Top.at # "managing" /\ Top.at # "again"
      BY <2>5 DEF Requests
    <3> QED BY <2>2, <2>3, <2>5, <3>1, <3>2, <3>3, CallSo
  <2> QED BY <1>4, <2>1, <2>4, <2>5 DEF Signal, Dxe, At, Requests
<1> QED BY <1>2, <1>3, <1>4

LEMMA Moves ==
  ASSUME CoreAssumption, IInv, IInv', Next
  PROVE  Moved(stack') \/ stack' = stack
<1>1. Known /\ Pending(stack, buffer, size)
  BY DEF IInv, TypedStack, Known, Requested, Asked
<1>2. CASE PutBuffer \/ PutSize \/ Sent \/ Refuse \/ DirectEnds
  BY <1>1, <1>2, PutBufferMoves, PutSizeMoves, SentMoves, RefuseMoves, DirectEndsMoves
<1>3. CASE Trigger \/ Direct \/ SyncEnds \/ EntryAlone \/ StartCalls
  BY <1>1, <1>3, TriggerMoves, DirectMoves, SyncEndsMoves, EntryAloneMoves, StartCallsMoves
<1>4. CASE Answered \/ EntryEnds \/ NotifyEnds \/ StartEnds \/ EntryConveys
  BY <1>1, <1>4, AnsweredMoves, EntryEndsMoves, NotifyEndsMoves, StartEndsMoves,
     EntryConveysMoves
<1>5. CASE ManageBegins \/ Managed
  BY <1>1, <1>5, ManageBeginsMoves, ManagedMoves
<1>6. CASE \/ DriverHandler \/ ReadyToLockHandler \/ LegacyBootHandler \/ EndOfDxeHandler
           \/ DispatcherEnds \/ DispatcherRestarts
  BY <1>1, <1>6, HandlersMove
<1>7. CASE FindVolume \/ DispatcherBegins \/ Drain \/ StartDriver
  BY <1>1, <1>7, FindVolumeMoves, DispatcherBeginsMoves, DrainMoves, StartDriverMoves
<1>8. CASE NotifyPosts \/ NotifyLocks \/ DispatchAgain
  BY <1>1, <1>8, NotifyMoves
<1>9. CASE Search \/ \E v \in Volumes : AddVolume(v)
  BY <1>9 DEF Search, AddVolume
<1>10. CASE \/ \E type \in UserTypes : CallCommunicate(type)
            \/ \E event \in Events : Signal(event)
            \/ Smi
  BY <1>1, <1>10, OutsideMoves
<1> QED BY <1>2, <1>3, <1>4, <1>5, <1>6, <1>7, <1>8, <1>9, <1>10 DEF Next, Core

-----------------------------------------------------------------------------
(* The walks. *)

\* What a step leads to, as far as the invariant tells.
Follows(t, b) ==
  /\ Moved(t) /\ Chain(t) /\ Nested(t) /\ Interrupted(t) /\ Conveyed(t, b)

LEMMA FollowFacts ==
  ASSUME TypedStack, Control, NEW t, NEW b, Follows(t, b)
  PROVE  /\ Depth \in Nat \ {0} /\ t \in Seq(Frames) /\ Len(t) \in Nat
         /\ Len(t) \in {Depth - 1, Depth, Depth + 1}
         /\ \A i \in 1..Depth : stack[i] \in Frames
         /\ \A i \in 1..Depth - 1 : i \in 1..Depth /\ i \in 1..Len(t) /\ i < Depth
                                    /\ Same(t[i], stack[i])
         /\ \A i \in 1..Len(t) : t[i] \in Frames /\
              (i \in 1..Depth - 1 \/ (i = Depth /\ Len(t) >= Depth)
               \/ (i = Depth + 1 /\ Len(t) = Depth + 1))
         /\ Depth \in 1..Depth
<1>1. Depth \in Nat \ {0}
  BY ControlFacts
<1>2. t \in Seq(Frames) /\ Len(t) \in {Depth - 1, Depth, Depth + 1}
      /\ \A i \in 1..Depth - 1 : Same(t[i], stack[i])
  BY DEF Follows, Moved, Rest
<1>3. Len(t) \in Nat /\ \A i \in 1..Len(t) : t[i] \in Frames
  BY <1>2
<1>4. \A i \in 1..Depth : stack[i] \in Frames
  BY <1>1 DEF TypedStack
<1> QED BY <1>1, <1>2, <1>3, <1>4

\* While a request is stored and no SMI has come for it, no walk stands above it.
LEMMA NothingStored ==
  ASSUME TypedStack, Control, Pending(stack, buffer, size), Unhurried(stack),
         buffer # 0, ~Syncs(stack)
  PROVE  \A j \in buffer + 1..Depth : stack[j].at \notin Walks
<1>1. PICK b : b = buffer
  OBVIOUS
<1>2. /\ b \in 1..Depth /\ stack[b].at \in Requests
      /\ \A j \in 1..Depth : stack[j].at # "root" /\ stack[j].at # "sync"
  BY <1>1 DEF Pending, Syncs
<1>3. Depth \in Nat /\ Chain(stack) /\ Interrupted(stack)
  BY ControlFacts DEF Structure
<1>4. \A i \in 1..Depth - 1 : Fits(stack[i], stack[i + 1])
  BY <1>3 DEF Chain
<1>5. stack[1].at = "dxe"
  BY <1>3 DEF Chain
<1> DEFINE S == {n \in Nat : \A j \in b + 1..b + n : j \in 1..Depth => stack[j].at \notin Walks}
<1>6. 0 \in S
  BY <1>2
<1>7. ASSUME NEW n \in S
      PROVE  n + 1 \in S
  <2>1. SUFFICES ASSUME NEW k, k = b + (n + 1), k \in 1..Depth, stack[k].at \in Walks
                 PROVE  FALSE
    <3>1. b \in Nat /\ n \in Nat
      BY <1>2
    <3>2. \A j \in b + 1..b + (n + 1) : j \in b + 1..b + n \/ j = b + (n + 1)
      BY <3>1
    <3> QED BY <3>1, <3>2
  <2>2. b \in Nat /\ n \in Nat /\ b # 0
    BY <1>2
  <2>3. \A j \in b + 1..k - 1 : stack[j].at \notin Walks
    <3>1. \A j \in b + 1..k - 1 : j \in b + 1..b + n /\ j \in 1..Depth
      BY <1>3, <2>1, <2>2
    <3> QED BY <3>1
  <2>4. \A j \in b..k - 1 : j \in 1..Depth - 1 /\ j \in 1..Depth /\ j + 1 \in 1..Depth
                            /\ (j # b => j \in b + 1..k - 1 /\ j - 1 \in b..k - 1 /\ j # 1
                                         /\ (j - 1) + 1 = j)
    BY <1>2, <1>3, <2>1, <2>2
  <2>5. k - 1 \in b..k - 1 /\ (k - 1) + 1 = k
    BY <1>3, <2>1, <2>2
  <2>6. stack[k - 1].at = "direct"
    <3>1. Fits(stack[k - 1], stack[k])
      BY <1>4, <2>4, <2>5
    <3>2. stack[k - 1].at \notin {"root", "sync"}
      BY <1>2, <2>4, <2>5
    <3> QED BY <2>1, <3>1, <3>2 DEF Fits
  <2>7. k - 1 # b /\ (k - 1) - 1 \in b..k - 1
    <3>1. k - 1 # b
      BY <1>2, <2>6 DEF Requests
    <3> QED BY <3>1, <2>4, <2>5
  <2>8. PICK m : m = (k - 1) - 1
    OBVIOUS
  <2>9. stack[m].at \in {"started", "again", "notified"} /\ m # b
    <3>1. Fits(stack[m], stack[k - 1])
      BY <1>4, <2>4, <2>5, <2>7, <2>8
    <3>2. stack[m].at \in {"dxe", "started", "again", "notified"}
      BY <2>6, <3>1 DEF Fits, Posting
    <3>3. m # b
      BY <1>2, <3>2 DEF Requests
    <3>4. Fits(stack[m - 1], stack[m])
      BY <1>4, <2>4, <2>7, <2>8, <3>3
    <3>5. stack[m].at # "dxe"
      BY <3>4 DEF Fits
    <3> QED BY <3>2, <3>3, <3>5
  <2>10. m - 1 \in b..k - 1 /\ Fits(stack[m - 1], stack[m]) /\ m - 1 \in 1..Depth
    BY <1>4, <2>4, <2>7, <2>8, <2>9
  <2>11. CASE stack[m].at = "started"
    <3>1. stack[m - 1].at = "drain"
      BY <2>10, <2>11 DEF Fits, Starting
    <3>2. m - 1 # b
      BY <1>2, <3>1 DEF Requests
    <3>3. (m - 1) - 1 \in b..k - 1 /\ Fits(stack[(m - 1) - 1], stack[m - 1])
      BY <1>4, <2>4, <2>10, <3>2
    <3>4. stack[(m - 1) - 1].at = "managing"
      BY <3>1, <3>3 DEF Fits, HandlerLabels
    <3>5. (m - 1) - 1 # b
      BY <1>2, <3>4 DEF Requests
    <3>6. (m - 1) - 1 \in b + 1..k - 1
      BY <2>4, <3>3, <3>5
    <3> QED BY <2>3, <3>4, <3>6 DEF Walks
  <2>12. CASE stack[m].at \in {"again", "notified"}
    <3>1. stack[m - 1].at = "dxe" \/ (stack[m - 1].at \in Requests /\ stack[m - 1].flag)
      BY <2>10, <2>12 DEF Fits, Notifying
    <3>2. stack[m - 1].at # "dxe"
      <4>1. CASE m - 1 = b
        BY <1>2, <4>1 DEF Requests
      <4>2. CASE m - 1 # b
        <5>1. Fits(stack[(m - 1) - 1], stack[m - 1])
          BY <1>4, <2>4, <2>10, <4>2
        <5> QED BY <5>1 DEF Fits
      <4> QED BY <4>1, <4>2
    <3>3. m - 1 = 2
      BY <1>3, <2>10, <3>1, <3>2 DEF Interrupted
    <3>4. m = 3 /\ k - 1 = 4 /\ 2 = m - 1 /\ Depth >= 4
      BY <1>3, <2>1, <2>2, <2>8, <3>3
    <3>5. stack[4].at = "direct" /\ stack[3].at \in Notifying /\ stack[2].at \in Requests
      BY <2>6, <2>12, <3>1, <3>2, <3>4 DEF Notifying
    <3> QED BY <3>4, <3>5 DEF Unhurried
  <2> QED BY <2>9, <2>11, <2>12
<1>8. S = Nat
  <2>1. S \in SUBSET Nat
    OBVIOUS
  <2> HIDE DEF S
  <2> QED BY <1>6, <1>7, <2>1, SetInduction
<1>9. Depth \in S
  BY <1>3, <1>8
<1>10. \A j \in b + 1..Depth : j \in b + 1..b + Depth /\ j \in 1..Depth
  BY <1>2, <1>3
<1> QED BY <1>1, <1>9, <1>10

\* An SMI that conveys the request comes only upon the dispatcher's own walks.
LEMMA EntryFree ==
  ASSUME TypedStack, Control, Pending(stack, buffer, size), Unhurried(stack), Layered(stack),
         buffer # 0, ~Syncs(stack), NEW i \in 1..Depth, stack[i].at \in Walks
  PROVE  i < buffer /\ stack[i].type = "dispatch" /\ stack[buffer].type \in UserTypes \cup {"root"}
<1>1. PICK b : b = buffer
  OBVIOUS
<1>2. b \in 1..Depth /\ stack[b].at \in Requests /\ Depth \in Nat
  BY <1>1, ControlFacts DEF Pending
<1>3. \A j \in b + 1..Depth : stack[j].at \notin Walks
  BY <1>1, NothingStored
<1>4. i # b
  BY <1>2 DEF Requests, Walks
<1>5. i < b
  BY <1>2, <1>3, <1>4
<1>6. Strata(stack[i], stack[b])
  BY <1>2, <1>5 DEF Layered
<1>7. stack[b].at \notin {"handler", "entry", "root"} /\ stack[b].at \notin Walks
      /\ \A y \in CoreTypes : stack[b].at # CoreHandlers[y]
  BY <1>2 DEF Requests, Walks, CoreTypes, CoreHandlers
<1>8. stack[b].at \in Posting
  BY <1>2 DEF Posting
<1> QED BY <1>1, <1>5, <1>6, <1>7, <1>8 DEF Strata

\* Frames that turn stay with their kind.
LEMMA TurnedKind ==
  ASSUME NEW f, NEW g, Turned(f, g)
  PROVE  /\ g.at \in Posting => f.at \in Posting
         /\ g.at \in Walks => f.at \in Walks
         /\ g.at \in Notifying => f.at \in Notifying
         /\ g.at \in HandlerLabels => f.at \in HandlerLabels
         /\ \A l \in {"handler", "lock", "legacy", "enddxe", "dxe", "entry", "communicate"} :
              g.at = l => f.at = l
         /\ g.at = "root" => f.at \in Entries
         /\ g.at = "sync" => f.at \in {"entry", "sync"}
<1>1. g.at = f.at \/ <<f.at, g.at>> \in Turns
  BY DEF Turned
<1>2. CASE g.at = f.at
  BY <1>2 DEF Entries
<1>3. CASE <<f.at, g.at>> \in Turns
  BY <1>3 DEF Turns, Posting, Requests, Walks, Notifying, HandlerLabels, Entries
<1> QED BY <1>1, <1>2, <1>3

\* What is on a walk stays on it as it turns, but for an SMI that conveys a request.
LEMMA StrataTurned ==
  ASSUME NEW f, NEW g, NEW h, Strata(f, g), Turned(g, h),
         g.at = "entry" /\ h.at = "sync" => f.type = "dispatch"
  PROVE  Strata(f, h)
<1>1. h.type = g.type /\ (h.at = g.at \/ <<g.at, h.at>> \in Turns)
  BY DEF Turned
<1>2. CASE h.at = g.at
  BY <1>1, <1>2 DEF Strata
<1>3. CASE <<g.at, h.at>> \in Turns
  <2>1. CASE f.type = "dispatch"
    <3>1. /\ h.at \in Posting => g.at \in Posting
          /\ h.at \in Walks => g.at \in Walks
          /\ h.at \in Notifying => g.at \in Notifying
      BY TurnedKind
    <3>2. h.at \notin {"lock", "legacy", "enddxe", "dxe"}
      BY <1>3 DEF Turns
    <3> QED BY <1>1, <2>1, <3>1, <3>2 DEF Strata
  <2>2. CASE f.type # "dispatch"
    <3>1. \/ g.at \in {"handler", "entry", "root"}
          \/ g.at \in Walks /\ g.type = "root"
          \/ f.type \in CoreTypes /\ g.at = CoreHandlers[f.type]
      BY <2>2 DEF Strata
    <3>2. f.type \in CoreTypes => CoreHandlers[f.type] \in {"lock", "legacy", "enddxe"}
      BY <2>2 DEF CoreTypes, CoreHandlers
    <3>3. g.at \in {"entry"} \cup Walks
      BY <1>3, <3>1, <3>2 DEF Turns, Walks
    <3>4. CASE g.at = "entry"
      <4>1. h.at = "root"
        BY <1>3, <2>2, <3>4 DEF Turns
      <4> QED BY <2>2, <4>1 DEF Strata
    <3>5. CASE g.at \in Walks
      <4>1. h.at \in Walks
        BY <1>3, <3>5 DEF Turns, Walks
      <4>2. g.type = "root"
        BY <3>1, <3>2, <3>5 DEF Walks
      <4> QED BY <1>1, <2>2, <4>1, <4>2 DEF Strata
    <3> QED BY <3>3, <3>4, <3>5
  <2> QED BY <2>1, <2>2
<1> QED BY <1>1, <1>2, <1>3

\* What is put upon a frame that is on a walk.
LEMMA StrataPushed ==
  ASSUME UserTypes \cap (CoreTypes \cup {"root"}) = {},
         NEW f, NEW g, NEW h, NEW c, Strata(f, g), Turned(g, h), Pushed(g, h, c), Fits(h, c),
         c.at # "notify",
         h.at = "sync" /\ c.at \in Walks =>
           f.type = "dispatch" /\ c.type \in UserTypes \cup {"root"}
  PROVE  Strata(f, c)
<1>1. c.at \in {"communicate", "entry", "manage", "start", "handler", "lock", "legacy",
                "enddxe", "find"}
  BY DEF Pushed
<1>2. h.type = g.type
  BY DEF Turned
<1>3. CASE c.at = "entry"
  BY <1>3 DEF Strata, Notifying, Walks, Posting, Requests
<1>4. CASE c.at = "communicate"
  <2>1. g.at \in {"dxe", "calls", "notify"}
    BY <1>4 DEF Pushed
  <2>2. f.type = "dispatch" /\ g.at = "calls"
    BY <2>1 DEF Strata, Notifying, Walks, CoreTypes, CoreHandlers
  <2>3. h.at \in {"calls", "started"}
    BY <2>2 DEF Turned, Turns
  <2>4. c.type \in UserTypes
    BY <1>4, <2>3 DEF Fits, Posting
  <2> QED BY <1>4, <2>2, <2>4 DEF Strata, Notifying
<1>5. CASE c.at = "manage"
  <2>1. c.at \in Walks /\ c.at \notin Notifying \cup {"lock", "legacy", "enddxe", "dxe"}
    BY <1>5 DEF Walks, Notifying
  <2>2. \/ h.at = "direct" /\ c.type = h.type
        \/ h.at = "sync"
        \/ h.at = "root" /\ c.type = "root"
    BY <2>1 DEF Fits
  <2>3. g.at \in {"communicate", "entry", "sync"}
    BY <1>5 DEF Pushed
  <2>4. CASE h.at = "direct"
    <3>1. g.at = "communicate"
      BY <2>3, <2>4 DEF Turned, Turns
    <3>2. f.type = "dispatch" /\ g.type \in UserTypes \cup {"root"}
      BY <3>1 DEF Strata, Walks, CoreTypes, CoreHandlers, Posting
    <3> QED BY <1>2, <2>1, <2>2, <2>4, <3>2 DEF Strata
  <2>5. CASE h.at = "sync"
    BY <2>1, <2>5 DEF Strata
  <2>6. CASE h.at = "root"
    <3>1. c.type = "root"
      BY <2>2, <2>6
    <3> QED BY <2>1, <3>1 DEF Strata
  <2> QED BY <2>2, <2>4, <2>5, <2>6
<1>6. CASE c.at = "start"
  <2>1. g.at = "drain"
    BY <1>6 DEF Pushed
  <2>2. f.type = "dispatch"
    BY <2>1 DEF Strata, Walks, CoreTypes, CoreHandlers
  <2> QED BY <1>6, <2>2 DEF Strata, Notifying, Walks, Posting, Requests
<1>7. CASE c.at \in HandlerLabels
  <2>1. h.at = "managing" /\ (h.type \notin CoreTypes => c.at = "handler")
    BY <1>7 DEF Fits
  <2>2. g.at \in Walks
    BY <2>1, TurnedKind DEF Walks
  <2>3. g.type \in UserTypes \cup {"root"}
    BY <2>2 DEF Strata, Walks, CoreTypes, CoreHandlers
  <2>4. c.at = "handler"
    BY <1>2, <2>1, <2>3 DEF CoreTypes
  <2> QED BY <2>4 DEF Strata, Notifying, Walks, Posting, Requests
<1> QED BY <1>1, <1>3, <1>4, <1>5, <1>6, <1>7 DEF HandlerLabels

LEMMA StrataSame ==
  ASSUME NEW f, NEW g, NEW h, NEW k, Same(f, g), Same(h, k), Strata(g, k)
  PROVE  Strata(f, h)
BY DEF Same, Strata

\* An SMI that goes on to convey a request does so for the one that is stored.
Conveys(t, b) ==
  Len(t) >= Depth /\ t[Depth].at = "sync" =>
    Top.at = "entry" /\ b = buffer /\ buffer # 0 /\ ~Syncs(stack)

LEMMA PlaceBelow ==
  \A n \in Nat \ {0} : \A m : n # 1 /\ m = n + 1 => n - 1 \in 1..m - 1 /\ (n - 1) + 1 = n
OBVIOUS

LEMMA Lengths ==
  \A n \in Nat \ {0}, m \in Nat : m \in {n - 1, n, n + 1} /\ m >= 4 => n \in {3, 4} \/ n >= 5
OBVIOUS

\* A notification comes in upon DXE code or a message of DXE code.
LEMMA NotifiedLow ==
  ASSUME TypedStack, Control, NEW t, NEW b, Follows(t, b), Len(t) = Depth + 1,
         t[Depth + 1].at = "notify"
  PROVE  \A i \in 1..Depth - 1 : stack[i].at = "dxe"
<1>1. Depth \in Nat \ {0} /\ Len(t) \in Nat /\ Depth \in 1..Len(t) - 1 /\ Depth \in 1..Len(t)
  BY FollowFacts
<1>2. Fits(t[Depth], t[Depth + 1])
  BY <1>1 DEF Follows, Chain
<1>3. t[Depth].at = "dxe" \/ (t[Depth].at \in Requests /\ t[Depth].flag)
  BY <1>2 DEF Fits, Notifying
<1>4. CASE t[Depth].at = "dxe"
  <2>1. Depth = 1
    <3>1. SUFFICES ASSUME Depth # 1 PROVE FALSE
      OBVIOUS
    <3>2. Depth - 1 \in 1..Len(t) - 1 /\ (Depth - 1) + 1 = Depth
      BY ONLY <1>1, <3>1, Len(t) = Depth + 1, PlaceBelow
    <3>3. Fits(t[Depth - 1], t[Depth])
      BY <3>2 DEF Follows, Chain
    <3> QED BY <1>4, <3>3 DEF Fits
  <2> QED BY <2>1
<1>5. CASE t[Depth].at \in Requests /\ t[Depth].flag
  <2>1. Depth = 2
    BY <1>1, <1>5 DEF Follows, Interrupted
  <2>2. stack[1].at = "dxe"
    BY ControlFacts DEF Chain
  <2>3. \A i \in 1..Depth - 1 : i = 1
    BY <2>1
  <2> QED BY <2>2, <2>3
<1> QED BY <1>3, <1>4, <1>5

LEMMA LayeredKept ==
  ASSUME UserTypes \cap (CoreTypes \cup {"root"}) = {},
         TypedStack, Control, Pending(stack, buffer, size), Unhurried(stack), Layered(stack),
         NEW t, NEW b, Follows(t, b), Conveys(t, b)
  PROVE  Layered(t)
<1> SUFFICES ASSUME NEW i \in 1..Len(t), NEW j \in 1..Len(t), i < j, t[i].at \in Walks
             PROVE  Strata(t[i], t[j])
  BY DEF Layered
<1>1. /\ Depth \in Nat \ {0} /\ Depth \in 1..Depth
      /\ \A k \in 1..Depth - 1 : k \in 1..Depth /\ k < Depth /\ Same(t[k], stack[k])
      /\ j \in 1..Depth - 1 \/ (j = Depth /\ Len(t) >= Depth) \/ (j = Depth + 1 /\ Len(t) = Depth + 1)
  BY FollowFacts
<1>2. /\ Len(t) # Depth - 1 => Turned(Top, t[Depth])
      /\ Len(t) = Depth + 1 => Pushed(Top, t[Depth], t[Depth + 1])
      /\ \A k \in 1..Len(t) - 1 : Fits(t[k], t[k + 1])
  BY DEF Follows, Moved, Chain
<1>3. \A k, m \in 1..Depth : k < m /\ stack[k].at \in Walks => Strata(stack[k], stack[m])
  BY DEF Layered
<1>4. i \in 1..Depth - 1 => stack[i].at \in Walks /\ i \in 1..Depth /\ Same(t[i], stack[i])
  BY <1>1 DEF Same
<1>5. i \in 1..Depth - 1 /\ Len(t) >= Depth /\ t[Depth].at = "sync" =>
        Top.at = "entry" /\ b = buffer /\ stack[i].type = "dispatch"
        /\ stack[buffer].type \in UserTypes \cup {"root"}
  <2>1. SUFFICES ASSUME i \in 1..Depth - 1, Len(t) >= Depth, t[Depth].at = "sync"
                 PROVE  Top.at = "entry" /\ b = buffer /\ stack[i].type = "dispatch"
                        /\ stack[buffer].type \in UserTypes \cup {"root"}
    OBVIOUS
  <2>2. Top.at = "entry" /\ b = buffer /\ buffer # 0 /\ ~Syncs(stack)
    BY <2>1 DEF Conveys
  <2> QED BY <1>4, <2>1, <2>2, EntryFree
<1>6. CASE j \in 1..Depth - 1
  <2>1. i \in 1..Depth - 1
    BY <1>1, <1>6
  <2>2. Strata(stack[i], stack[j])
    BY <1>1, <1>3, <1>4, <1>6, <2>1
  <2> QED BY <1>1, <1>6, <2>1, <2>2, StrataSame
<1>7. CASE j = Depth /\ Len(t) >= Depth
  <2>1. i \in 1..Depth - 1
    BY <1>1, <1>7
  <2>2. Strata(stack[i], Top)
    BY <1>1, <1>3, <1>4, <2>1 DEF Top
  <2>3. Turned(Top, t[Depth])
    <3>1. Len(t) # Depth - 1
      BY <1>1, <1>7
    <3> QED BY <1>2, <3>1
  <2>4. Strata(stack[i], t[Depth])
    BY <1>5, <1>7, <2>1, <2>2, <2>3, StrataTurned
  <2> QED BY <1>1, <1>7, <2>1, <2>4, SameItself, StrataSame
<1>8. CASE j = Depth + 1 /\ Len(t) = Depth + 1
  <2>1. /\ Turned(Top, t[Depth]) /\ Pushed(Top, t[Depth], t[Depth + 1])
        /\ Fits(t[Depth], t[Depth + 1]) /\ Len(t) >= Depth
    <3>1. Len(t) # Depth - 1 /\ Len(t) >= Depth /\ Depth \in 1..Len(t) - 1
      BY <1>1, <1>8
    <3> QED BY <1>2, <1>8, <3>1
  <2>2. CASE i = Depth
    <3>1. Top.at \in Walks
      BY <2>1, <2>2, TurnedKind
    <3>2. t[j].at \in HandlerLabels \cup {"entry"}
      <4>1. t[j].at \notin {"communicate", "manage", "start", "notify"}
        BY <1>8, <2>1, <3>1 DEF Pushed, Walks, Requests
      <4> QED BY <1>8, <2>1, <4>1 DEF Pushed, HandlerLabels
    <3>3. CASE t[j].at = "entry"
      BY <3>3 DEF Strata, Notifying, Walks, Posting, Requests
    <3>4. CASE t[j].at \in HandlerLabels
      <4>1. IF t[j].at = "handler" THEN t[i].type \notin CoreTypes
            ELSE /\ t[i].type \in CoreTypes
                 /\ t[j].at = CoreHandlers[t[i].type] \/ (t[j].at = "drain" /\ t[i].type = "dispatch")
        BY <1>8, <2>1, <2>2, <3>4 DEF Fits
      <4>2. CASE t[j].at = "handler"
        BY <4>2 DEF Strata, Notifying, Walks, Posting, Requests
      <4>3. CASE t[j].at # "handler" /\ t[i].type # "dispatch"
        BY <4>1, <4>3 DEF Strata
      <4>4. CASE t[j].at # "handler" /\ t[i].type = "dispatch"
        <5>1. t[j].at \in {"find", "drain"}
          BY <4>1, <4>4 DEF CoreHandlers
        <5> QED BY <4>4, <5>1 DEF Strata, Notifying, Walks, Posting, Requests
      <4> QED BY <4>2, <4>3, <4>4
    <3> QED BY <3>2, <3>3, <3>4
  <2>3. CASE i # Depth
    <3>1. i \in 1..Depth - 1
      BY <1>1, <1>8, <2>3
    <3>2. Strata(stack[i], Top)
      BY <1>1, <1>3, <1>4, <3>1 DEF Top
    <3>3. t[Depth + 1].at # "notify"
      BY <1>4, <1>8, <3>1, NotifiedLow DEF Walks
    <3>4. t[Depth].at = "sync" /\ t[Depth + 1].at \in Walks =>
            stack[i].type = "dispatch" /\ t[Depth + 1].type \in UserTypes \cup {"root"}
      <4>1. SUFFICES ASSUME t[Depth].at = "sync", t[Depth + 1].at \in Walks
                     PROVE  stack[i].type = "dispatch" /\ t[Depth + 1].type \in UserTypes \cup {"root"}
        OBVIOUS
      <4>2. b = buffer /\ stack[i].type = "dispatch" /\ stack[buffer].type \in UserTypes \cup {"root"}
        BY <1>5, <2>1, <3>1, <4>1
      <4>3. b \in 1..Depth /\ t[b].at \in Requests /\ t[Depth + 1].type = t[b].type
        <5>1. Depth \in 1..Len(t) - 1
          BY <1>1, <1>8
        <5> QED BY <4>1, <5>1 DEF Follows, Conveyed
      <4>4. b \in 1..Depth - 1
        <5>1. b # Depth
          BY <4>1, <4>3 DEF Requests
        <5> QED BY <1>1, <4>3, <5>1
      <4> QED BY <1>1, <4>2, <4>3, <4>4 DEF Same
    <3>5. Strata(stack[i], t[Depth + 1])
      BY <2>1, <3>2, <3>3, <3>4, StrataPushed
    <3> QED BY <1>1, <1>8, <3>1, <3>5, SameItself, StrataSame
  <2> QED BY <2>2, <2>3
<1> QED BY <1>1, <1>6, <1>7, <1>8

\* What a handler or a driver that is on the stack is on.
Grows(h) == \A y \in Types : ToSet(handlers[y]) \subseteq ToSet(h[y])

LEMMA RunningOn ==
  ASSUME NEW h, Grows(h), NEW f, NEW g, Shape(f), Fits(f, g), Running(f, g, handlers),
         NEW k, NEW m, Same(k, f), Same(m, g)
  PROVE  Running(k, m, h)
<1>1. SUFFICES ASSUME m.at \in HandlerLabels
               PROVE  k.who \in ToSet(h[k.type]) /\ (m.at = "handler" => m.who = k.who)
  BY DEF Running
<1>2. g.at \in HandlerLabels /\ k.who = f.who /\ m.who = g.who /\ k.type = f.type /\ m.at = g.at
  BY <1>1 DEF Same
<1>3. f.at \in Walks
  BY <1>2 DEF Fits, Walks
<1>4. f.type \in Types
  BY <1>3 DEF Shape
<1> QED BY <1>2, <1>4 DEF Running, Grows

\* A walk below the top is told something only by the handler it stands on.
LEMMA WalkHears ==
  ASSUME TypedStack, Control, NEW t, NEW b, Follows(t, b), NEW i \in 1..Depth - 1,
         stack[i].at = "managing", t[i].ret # stack[i].ret
  PROVE  /\ i = Depth - 1 /\ Len(t) = Depth - 1 /\ Top.at \in HandlerLabels
         /\ Depth > 1
<1>1. Depth \in Nat \ {0}
  BY FollowFacts
<1>2. Hears(t, i)
  BY DEF Follows, Moved
<1>3. i = Depth - 1 /\ Len(t) = Depth - 1 /\ Top.at \in HandlerLabels \cup Walks \cup {"started"}
  BY <1>2 DEF Hears
<1>4. Depth > 1 /\ Caller = stack[i]
  BY <1>1, <1>3 DEF Caller
<1>5. Fits(stack[i], Top)
  BY <1>4, ControlFacts
<1>6. Top.at \notin Walks \cup {"started"}
  BY <1>5 DEF Fits, Walks, Starting
<1> QED BY <1>3, <1>4, <1>6

LEMMA StandingGrows ==
  ASSUME TypedStack, Control, Standing(stack, handlers), NEW h, Grows(h),
         NEW t, NEW b, Follows(t, b)
  PROVE  Standing(t, h)
<1>1. /\ Depth \in Nat \ {0} /\ Depth \in 1..Depth /\ Len(t) \in Nat
      /\ \A k \in 1..Depth - 1 : k \in 1..Depth /\ k < Depth /\ Same(t[k], stack[k])
      /\ \A i \in 1..Len(t) : (i \in 1..Depth - 1 \/ (i = Depth /\ Len(t) >= Depth)
                               \/ (i = Depth + 1 /\ Len(t) = Depth + 1))
  BY FollowFacts
<1>2. /\ Len(t) # Depth - 1 => Turned(Top, t[Depth])
      /\ Len(t) = Depth + 1 => Pushed(Top, t[Depth], t[Depth + 1])
      /\ \A k \in 1..Len(t) - 1 : Fits(t[k], t[k + 1])
      /\ \A k \in 1..Len(t) : Shape(t[k])
  BY DEF Follows, Moved, Chain
<1>3. /\ \A i \in 1..Depth : Stands(stack[i], handlers)
      /\ \A i \in 1..Depth - 1 : Running(stack[i], stack[i + 1], handlers)
  BY DEF Standing
<1>4. /\ \A k \in 1..Depth : Shape(stack[k])
      /\ \A k \in 1..Depth - 1 : Fits(stack[k], stack[k + 1])
  BY ControlFacts DEF Chain
<1>5. ASSUME NEW i \in 1..Len(t)
      PROVE  Stands(t[i], h)
  <2>1. CASE i \in 1..Depth - 1
    <3>1. Same(t[i], stack[i]) /\ Stands(stack[i], handlers) /\ Shape(stack[i])
      BY <1>1, <1>3, <1>4, <2>1
    <3>2. t[i].at # "astray"
      BY <3>1 DEF Same, Stands
    <3>3. CASE t[i].at = "managing"
      <4>1. stack[i].at = "managing" /\ stack[i].type \in Types /\ t[i].type = stack[i].type
            /\ t[i].who = stack[i].who
        BY <3>1, <3>3 DEF Same, Shape, Walks
      <4>2. CASE t[i].ret = stack[i].ret
        BY <3>1, <3>2, <4>1, <4>2 DEF Stands, Grows
      <4>3. CASE t[i].ret # stack[i].ret
        <5>1. i = Depth - 1 /\ Top.at \in HandlerLabels
          BY <2>1, <4>1, <4>3, WalkHears
        <5>2. i + 1 = Depth /\ stack[i + 1] = Top
          BY <1>1, <5>1 DEF Top
        <5>3. Running(stack[i], Top, handlers)
          BY <1>3, <2>1, <5>2
        <5>4. stack[i].who \in ToSet(handlers[stack[i].type])
          BY <5>1, <5>3 DEF Running
        <5> QED BY <3>2, <4>1, <5>4 DEF Stands, Grows
      <4> QED BY <4>2, <4>3
    <3> QED BY <3>2, <3>3 DEF Stands
  <2>2. CASE i = Depth /\ Len(t) >= Depth
    <3>1. Turned(Top, t[i]) /\ Stands(Top, handlers) /\ Shape(t[i])
      <4>1. Len(t) # Depth - 1
        BY <1>1, <2>2
      <4> QED BY <1>1, <1>2, <1>3, <2>2, <4>1 DEF Top
    <3>2. t[i].at # "astray"
      <4>1. SUFFICES ASSUME t[i].at = "astray" PROVE FALSE
        OBVIOUS
      <4>2. Top.at = "astray" \/ Top.at = "managing"
        BY <3>1, <4>1 DEF Turned, Turns
      <4> QED BY <3>1, <4>1, <4>2 DEF Turned, Stands
    <3>3. CASE t[i].at = "managing"
      <4>1. t[i].type \in Types
        BY <3>1, <3>3 DEF Shape, Walks
      <4>2. /\ t[i].ret = Top.ret /\ t[i].type = Top.type
            /\ (Top.at = "managing" /\ t[i].who = Top.who) \/ t[i].who \in ToSet(handlers[t[i].type])
        BY <3>1, <3>3 DEF Turned
      <4> QED BY <3>1, <3>2, <4>1, <4>2 DEF Stands, Grows
    <3> QED BY <3>2, <3>3 DEF Stands
  <2>3. CASE i = Depth + 1 /\ Len(t) = Depth + 1
    <3>1. t[i].at \notin {"astray", "managing"}
      BY <1>2, <2>3 DEF Pushed
    <3> QED BY <3>1 DEF Stands
  <2> QED BY <1>1, <2>1, <2>2, <2>3
<1>6. ASSUME NEW i \in 1..Len(t) - 1
      PROVE  Running(t[i], t[i + 1], h)
  <2>1. i + 1 \in 1..Len(t) /\ i \in Nat
    BY <1>1
  <2>2. CASE i + 1 \in 1..Depth - 1
    <3>1. i \in 1..Depth - 1
      BY <1>1, <2>2
    <3> QED BY <1>1, <1>3, <1>4, <2>2, <3>1, RunningOn
  <2>3. CASE i + 1 = Depth /\ Len(t) >= Depth
    <3>1. i \in 1..Depth - 1 /\ i = Depth - 1
      BY <1>1, <2>1, <2>3
    <3>2. SUFFICES ASSUME t[i + 1].at \in HandlerLabels
                   PROVE  t[i].who \in ToSet(h[t[i].type]) /\ (t[i + 1].at = "handler" => t[i + 1].who = t[i].who)
      BY DEF Running
    <3>3. Turned(Top, t[i + 1]) /\ Len(t) # Depth - 1
      <4>1. Len(t) # Depth - 1
        BY <1>1, <2>3
      <4> QED BY <1>2, <2>3, <4>1
    <3>4. Top.at \in HandlerLabels /\ (t[i + 1].at = "handler" => Top.at = "handler")
      BY <3>2, <3>3, TurnedKind
    <3>5. t[i + 1].who = Top.who
      BY <3>3, <3>4 DEF Turned, HandlerLabels
    <3>6. Running(stack[i], Top, handlers) /\ Fits(stack[i], Top) /\ Shape(stack[i])
      BY <1>1, <1>3, <1>4, <2>3, <3>1 DEF Top
    <3>7. Running(t[i], Top, h)
      BY <1>1, <3>1, <3>6, SameItself, RunningOn
    <3> QED BY <3>4, <3>5, <3>7 DEF Running
  <2>4. CASE i + 1 = Depth + 1 /\ Len(t) = Depth + 1
    <3>1. i = Depth /\ i \in 1..Len(t)
      BY <1>1, <2>4
    <3>2. Pushed(Top, t[i], t[i + 1]) /\ Fits(t[i], t[i + 1]) /\ Shape(t[i])
      BY <1>2, <2>4, <3>1
    <3>3. SUFFICES ASSUME t[i + 1].at \in HandlerLabels
                   PROVE  t[i].who \in ToSet(h[t[i].type]) /\ (t[i + 1].at = "handler" => t[i + 1].who = t[i].who)
      BY DEF Running
    <3>4. t[i].type \in Types
      BY <3>2, <3>3 DEF Fits, Shape, Walks
    <3> QED BY <3>2, <3>3, <3>4 DEF Pushed, Grows
  <2> QED BY <1>1, <2>1, <2>2, <2>3, <2>4
<1> QED BY <1>5, <1>6 DEF Standing

\* A handler leaves the list: no walk but the one that it ends is on it.
LEMMA StandingCut ==
  ASSUME TypedStack, Control, Standing(stack, handlers), NEW t, NEW b, Follows(t, b),
         Len(t) = Depth - 1, Depth > 1, t[Depth - 1].ret = "success", Caller.type # "root",
         Top.at \in HandlerLabels, NEW h,
         \A i \in 1..Depth - 2 : stack[i].at = "managing" =>
           h[stack[i].type] = handlers[stack[i].type]
  PROVE  Standing(t, h)
<1>1. /\ Depth \in Nat \ {0} /\ Depth \in 1..Depth /\ Len(t) \in Nat
      /\ \A k \in 1..Depth - 1 : k \in 1..Depth /\ k < Depth /\ Same(t[k], stack[k])
  BY FollowFacts
<1>2. /\ \A i \in 1..Depth : Stands(stack[i], handlers)
      /\ \A i \in 1..Depth - 1 : Running(stack[i], stack[i + 1], handlers)
  BY DEF Standing
<1>3. \A k \in 1..Depth - 1 : Fits(stack[k], stack[k + 1])
  BY ControlFacts DEF Chain
<1>4. ASSUME NEW i \in 1..Depth - 1
      PROVE  Stands(t[i], h)
  <2>1. Same(t[i], stack[i]) /\ Stands(stack[i], handlers)
    BY <1>1, <1>2
  <2>2. t[i].at # "astray"
    BY <2>1 DEF Same, Stands
  <2>3. CASE i = Depth - 1
    <3>1. t[i].type # "root" /\ t[i].ret = "success"
      BY <2>1, <2>3 DEF Same, Caller
    <3> QED BY <2>2, <3>1 DEF Stands
  <2>4. CASE i # Depth - 1 /\ t[i].at = "managing"
    <3>1. i \in 1..Depth - 2
      BY <1>1, <2>4
    <3>2. stack[i].at = "managing" /\ t[i].type = stack[i].type /\ t[i].who = stack[i].who
      BY <2>1, <2>4 DEF Same
    <3>3. t[i].ret = stack[i].ret
      BY <2>4, <3>2, WalkHears
    <3> QED BY <2>1, <2>2, <3>1, <3>2, <3>3 DEF Stands
  <2> QED BY <2>2, <2>3, <2>4 DEF Stands
<1>5. ASSUME NEW i \in 1..Depth - 2
      PROVE  Running(t[i], t[i + 1], h)
  <2>1. i \in 1..Depth - 1 /\ i + 1 \in 1..Depth - 1
    BY <1>1
  <2>2. Same(t[i], stack[i]) /\ Same(t[i + 1], stack[i + 1]) /\ Fits(stack[i], stack[i + 1])
        /\ Running(stack[i], stack[i + 1], handlers)
    BY <1>1, <1>2, <1>3, <2>1
  <2>3. SUFFICES ASSUME t[i + 1].at \in HandlerLabels
                 PROVE  t[i].who \in ToSet(h[t[i].type]) /\ (t[i + 1].at = "handler" => t[i + 1].who = t[i].who)
    BY DEF Running
  <2>4. stack[i + 1].at \in HandlerLabels /\ stack[i].at = "managing"
        /\ t[i].who = stack[i].who /\ t[i].type = stack[i].type
        /\ t[i + 1].who = stack[i + 1].who /\ t[i + 1].at = stack[i + 1].at
    BY <2>2, <2>3 DEF Same, Fits
  <2> QED BY <2>2, <2>4 DEF Running
<1>6. Len(t) - 1 = Depth - 2
  BY <1>1
<1> QED BY <1>4, <1>5, <1>6 DEF Standing

\* The frame that locks SMRAM, or is asked to.
LEMMA LockableKept ==
  ASSUME "lock" \notin UserTypes, TypedStack, Control, Lockable(stack, ready),
         NEW r, ready \subseteq r, NEW t, NEW b, Follows(t, b)
  PROVE  Lockable(t, r)
<1> SUFFICES ASSUME NEW i \in 1..Len(t), Locking(t[i])
             PROVE  CpuIo \in r
  BY DEF Lockable
<1>1. /\ Depth \in Nat \ {0} /\ Depth \in 1..Depth /\ Len(t) \in Nat
      /\ \A k \in 1..Depth - 1 : k \in 1..Depth /\ k < Depth /\ Same(t[k], stack[k])
      /\ \A k \in 1..Len(t) : (k \in 1..Depth - 1 \/ (k = Depth /\ Len(t) >= Depth)
                               \/ (k = Depth + 1 /\ Len(t) = Depth + 1))
  BY FollowFacts
<1>2. \A k \in 1..Depth : Locking(stack[k]) => CpuIo \in ready
  BY DEF Lockable
<1>3. ASSUME NEW k \in 1..Len(t), k \in 1..Depth, Locking(t[k])
      PROVE  CpuIo \in ready
  <2>1. CASE k \in 1..Depth - 1
    <3>1. Locking(stack[k])
      BY <1>1, <1>3, <2>1 DEF Same, Locking
    <3> QED BY <1>2, <1>3, <3>1
  <2>2. CASE k = Depth /\ Len(t) >= Depth
    <3>1. Turned(Top, t[k])
      <4>1. Len(t) # Depth - 1
        BY <1>1, <2>2
      <4> QED BY <2>2, <4>1 DEF Follows, Moved
    <3>2. t[k].type = Top.type
      BY <3>1 DEF Turned
    <3>3. Locking(Top)
      BY <1>3, <3>1, <3>2, TurnedKind DEF Locking
    <3> QED BY <1>1, <1>2, <3>3 DEF Top
  <2>3. ~(k = Depth + 1)
    BY <1>1, <1>3
  <2> QED BY <1>1, <2>1, <2>2, <2>3
<1>4. CASE i \in 1..Depth
  BY <1>3, <1>4
<1>5. CASE i = Depth + 1 /\ Len(t) = Depth + 1
  <2>1. Depth \in 1..Len(t) - 1 /\ Depth \in 1..Len(t)
    BY <1>1, <1>5
  <2>2. Fits(t[Depth], t[i]) /\ Pushed(Top, t[Depth], t[i])
    BY <1>5, <2>1 DEF Follows, Moved, Chain
  <2>3. t[i].at \in {"communicate", "manage", "notify"}
    BY <2>2 DEF Locking, Pushed, Posting, Requests, Walks, Notifying
  <2>4. CASE t[i].at = "communicate"
    <3>1. t[i].type = "lock"
      BY <2>4 DEF Locking, Notifying
    <3>2. \/ t[Depth].at \in {"dxe", "started"} /\ t[i].type \in UserTypes
          \/ /\ t[Depth].at \in {"again", "notified"}
             /\ t[i].type = IF t[Depth].type = "boot" THEN "lock" ELSE t[Depth].type
      BY <2>2, <2>4 DEF Fits, Posting
    <3>3. Locking(t[Depth])
      BY <3>1, <3>2 DEF Locking, Notifying
    <3> QED BY <1>1, <1>3, <2>1, <3>3
  <2>5. CASE t[i].at = "manage"
    <3>1. t[i].type = "lock" /\ t[i].at \in Walks
      BY <2>5 DEF Locking, Notifying, Walks
    <3>2. \/ t[Depth].at = "direct" /\ t[i].type = t[Depth].type
          \/ t[Depth].at = "sync"
      BY <2>2, <3>1 DEF Fits
    <3>3. CASE t[Depth].at = "direct" /\ t[i].type = t[Depth].type
      <4>1. Locking(t[Depth])
        BY <3>1, <3>3 DEF Locking, Posting
      <4> QED BY <1>1, <1>3, <2>1, <4>1
    <3>4. CASE t[Depth].at = "sync"
      <4>1. b \in 1..Depth /\ t[b].at \in Requests /\ t[i].type = t[b].type
        BY <1>5, <2>1, <3>1, <3>4 DEF Follows, Conveyed
      <4>2. Locking(t[b]) /\ b \in 1..Len(t)
        BY <1>1, <1>5, <3>1, <4>1 DEF Locking, Posting
      <4> QED BY <1>3, <4>1, <4>2
    <3> QED BY <3>2, <3>3, <3>4
  <2>6. CASE t[i].at = "notify"
    BY <2>2, <2>6 DEF Pushed, Locking, Posting, Requests, Walks
  <2> QED BY <2>3, <2>4, <2>5, <2>6
<1> QED BY <1>1, <1>4, <1>5

\* A notification that has come in the middle of a Communicate does not call SmiManage.
LEMMA UnhurriedKept ==
  ASSUME TypedStack, Control, Unhurried(stack), NEW t, NEW b, Follows(t, b),
         Len(t) >= Depth /\ t[Depth].at = "direct" => Top.at = "direct" \/ inSmm \/ ~entry
  PROVE  Unhurried(t)
<1> SUFFICES ASSUME Len(t) >= 4, t[2].at \in Requests, t[3].at \in Notifying, t[4].at = "direct"
             PROVE  FALSE
  BY DEF Unhurried
<1>1. /\ Depth \in Nat \ {0} /\ Depth \in 1..Depth /\ Len(t) \in Nat
      /\ Len(t) \in {Depth - 1, Depth, Depth + 1}
      /\ \A k \in 1..Depth - 1 : k \in 1..Depth /\ k < Depth /\ Same(t[k], stack[k])
  BY FollowFacts
<1>2. Depth \in {3, 4} \/ Depth >= 5
  BY ONLY <1>1, Len(t) >= 4, Lengths
<1>3. CASE Depth >= 5
  <2>1. 2 \in 1..Depth - 1 /\ 3 \in 1..Depth - 1 /\ 4 \in 1..Depth - 1 /\ Depth >= 4
    BY <1>1, <1>3
  <2> QED BY <1>1, <2>1 DEF Unhurried, Same
<1>4. CASE Depth = 4
  <2>1. /\ 1 \in 1..Depth - 1 /\ 2 \in 1..Depth - 1 /\ 3 \in 1..Depth - 1 /\ Depth >= 4 /\ Len(t) # Depth - 1
        /\ \A i \in 1..Depth : i \in {1, 2, 3, 4}
    BY <1>1, <1>4
  <2>2. Same(t[2], stack[2]) /\ Same(t[3], stack[3])
    BY <1>1, <2>1
  <2>3. stack[2].at \in Requests /\ stack[3].at \in Notifying /\ stack[1].at = "dxe"
    BY <2>2, ControlFacts DEF Same, Chain
  <2>4. stack[4] = Top /\ Turned(Top, t[4])
    BY <1>4, <2>1 DEF Follows, Moved, Top
  <2>5. Top.at # "direct"
    BY <2>1, <2>3, <2>4 DEF Unhurried
  <2>6. Top.at = "communicate"
    BY <2>4, <2>5 DEF Turned, Turns
  <2>7. Structure(stack, entry) /\ InSmmIs(stack, inSmm)
    BY DEF Control, Controlled
  <2>8. entry
    BY <1>4, <2>3, <2>7 DEF Structure, NoSmis
  <2>9. inSmm
    BY <1>1, <1>4, <2>1, <2>5, <2>8
  <2>10. PICK i \in 1..Depth : Served(stack[i]) \/ stack[i].at = "direct"
    BY <2>7, <2>9 DEF InSmmIs
  <2>11. i \in {1, 2, 3, 4}
    BY <2>1
  <2> QED BY <2>3, <2>4, <2>6, <2>10, <2>11 DEF Served, Requests, Notifying
<1>5. CASE Depth = 3
  <2>1. Len(t) = Depth + 1 /\ Depth + 1 = 4
    BY <1>1, <1>5
  <2>2. Pushed(Top, t[Depth], t[4])
    BY <2>1 DEF Follows, Moved
  <2> QED BY <2>2 DEF Pushed
<1> QED BY <1>2, <1>3, <1>4, <1>5

\* What a step does beside.
LeavesLists ==
  UNCHANGED <<ready, discovered, dependent, initialized, unread, scheduled, running>>
Effected ==
  /\ handlers' = handlers \/ DriverHandler \/ ReadyToLockHandler \/ StartDriver
  /\ ready' = ready \/ ReadyToLockHandler \/ EndOfDxeHandler \/ StartDriver
  /\ \/ buffer' = buffer
     \/ Top.at = "communicate" /\ buffer' = Depth
     \/ Top.at = "sync" /\ buffer' = 0
  /\ Top.at = "sync" => SyncEnds \/ Smi
  /\ Top.at = "entry" => EntryConveys \/ EntryAlone \/ Smi
  /\ Top.at = "communicate" => PutBuffer \/ Refuse \/ Direct \/ Smi
  /\ Top.at \in {"find", "drain", "start", "lock", "enddxe"} \/ LeavesLists

Leaves ==
  handlers' = handlers /\ ready' = ready /\ buffer' = buffer
Elsewhere == Top.at \notin {"sync", "entry", "communicate"}

LEMMA Effects ==
  ASSUME Next
  PROVE  Effected
<1> USE DEF private, window, lists, world, bounds, LeavesLists
<1>1. CASE PutSize
  <2>1. Leaves /\ Elsewhere /\ LeavesLists
    BY <1>1 DEF PutSize, At, Leaves, Elsewhere
  <2> QED BY <2>1 DEF Effected, Leaves, Elsewhere
<1>2. CASE Trigger
  <2>1. Leaves /\ Elsewhere /\ LeavesLists
    BY <1>2 DEF Trigger, At, Leaves, Elsewhere
  <2> QED BY <2>1 DEF Effected, Leaves, Elsewhere
<1>3. CASE Sent
  <2>1. Leaves /\ Elsewhere /\ LeavesLists
    BY <1>3 DEF Sent, At, Leaves, Elsewhere
  <2> QED BY <2>1 DEF Effected, Leaves, Elsewhere
<1>4. CASE DirectEnds
  <2>1. Leaves /\ Elsewhere /\ LeavesLists
    BY <1>4 DEF DirectEnds, At, Leaves, Elsewhere
  <2> QED BY <2>1 DEF Effected, Leaves, Elsewhere
<1>5. CASE Answered
  <2>1. Leaves /\ Elsewhere /\ LeavesLists
    BY <1>5 DEF Answered, At, Leaves, Elsewhere
  <2> QED BY <2>1 DEF Effected, Leaves, Elsewhere
<1>6. CASE EntryEnds
  <2>1. Leaves /\ Elsewhere /\ LeavesLists
    BY <1>6 DEF EntryEnds, At, Leaves, Elsewhere
  <2> QED BY <2>1 DEF Effected, Leaves, Elsewhere
<1>7. CASE ManageBegins
  <2>1. Leaves /\ Elsewhere /\ LeavesLists
    BY <1>7 DEF ManageBegins, At, Leaves, Elsewhere
  <2> QED BY <2>1 DEF Effected, Leaves, Elsewhere
<1>8. CASE Managed
  <2>1. Leaves /\ Elsewhere /\ LeavesLists
    BY <1>8 DEF Managed, At, Leaves, Elsewhere
  <2> QED BY <2>1 DEF Effected, Leaves, Elsewhere
<1>9. CASE LegacyBootHandler
  <2>1. Leaves /\ Elsewhere /\ LeavesLists
    BY <1>9 DEF LegacyBootHandler, At, Leaves, Elsewhere
  <2> QED BY <2>1 DEF Effected, Leaves, Elsewhere
<1>10. CASE StartCalls
  <2>1. Leaves /\ Elsewhere /\ LeavesLists
    BY <1>10 DEF StartCalls, At, Leaves, Elsewhere
  <2> QED BY <2>1 DEF Effected, Leaves, Elsewhere
<1>11. CASE StartEnds
  <2>1. Leaves /\ Elsewhere /\ LeavesLists
    BY <1>11 DEF StartEnds, At, Leaves, Elsewhere
  <2> QED BY <2>1 DEF Effected, Leaves, Elsewhere
<1>12. CASE NotifyPosts
  <2>1. Leaves /\ Elsewhere /\ LeavesLists
    BY <1>12 DEF NotifyPosts, At, Leaves, Elsewhere
  <2> QED BY <2>1 DEF Effected, Leaves, Elsewhere
<1>13. CASE DispatchAgain
  <2>1. Leaves /\ Elsewhere /\ LeavesLists
    BY <1>13 DEF DispatchAgain, At, Leaves, Elsewhere
  <2> QED BY <2>1 DEF Effected, Leaves, Elsewhere
<1>14. CASE NotifyLocks
  <2>1. Leaves /\ Elsewhere /\ LeavesLists
    BY <1>14 DEF NotifyLocks, At, Leaves, Elsewhere
  <2> QED BY <2>1 DEF Effected, Leaves, Elsewhere
<1>15. CASE NotifyEnds
  <2>1. Leaves /\ Elsewhere /\ LeavesLists
    BY <1>15 DEF NotifyEnds, At, Leaves, Elsewhere
  <2> QED BY <2>1 DEF Effected, Leaves, Elsewhere
<1>16. CASE FindVolume
  <2>1. Leaves /\ Elsewhere /\ Top.at \in {"find", "drain"}
    BY <1>16 DEF FindVolume, At, Leaves, Elsewhere
  <2> QED BY <2>1 DEF Effected, Leaves, Elsewhere
<1>17. CASE DispatcherBegins
  <2>1. Leaves /\ Elsewhere /\ Top.at \in {"find", "drain"}
    BY <1>17 DEF DispatcherBegins, At, Leaves, Elsewhere
  <2> QED BY <2>1 DEF Effected, Leaves, Elsewhere
<1>18. CASE Drain
  <2>1. Leaves /\ Elsewhere /\ Top.at \in {"find", "drain"}
    BY <1>18 DEF Drain, At, Leaves, Elsewhere
  <2> QED BY <2>1 DEF Effected, Leaves, Elsewhere
<1>19. CASE Search
  <2>1. Leaves /\ Elsewhere /\ Top.at \in {"find", "drain"}
    BY <1>19 DEF Search, At, Leaves, Elsewhere
  <2> QED BY <2>1 DEF Effected, Leaves, Elsewhere
<1>20. CASE DispatcherEnds
  <2>1. Leaves /\ Elsewhere /\ Top.at \in {"find", "drain"}
    BY <1>20 DEF DispatcherEnds, At, Leaves, Elsewhere
  <2> QED BY <2>1 DEF Effected, Leaves, Elsewhere
<1>21. CASE DispatcherRestarts
  <2>1. Leaves /\ Elsewhere /\ Top.at \in {"find", "drain"}
    BY <1>21 DEF DispatcherRestarts, At, Leaves, Elsewhere
  <2> QED BY <2>1 DEF Effected, Leaves, Elsewhere
<1>22. CASE PutBuffer
  <2>1. Top.at = "communicate" /\ handlers' = handlers /\ ready' = ready /\ buffer' = Depth /\ LeavesLists
    BY <1>22 DEF PutBuffer, At, Leaves
  <2> QED BY <1>22, <2>1 DEF Effected, Leaves
<1>23. CASE Refuse
  <2>1. Top.at = "communicate" /\ Leaves /\ LeavesLists
    BY <1>23 DEF Refuse, At, Leaves
  <2> QED BY <1>23, <2>1 DEF Effected, Leaves
<1>24. CASE Direct
  <2>1. Top.at = "communicate" /\ Leaves /\ LeavesLists
    BY <1>24 DEF Direct, At, Leaves
  <2> QED BY <1>24, <2>1 DEF Effected, Leaves
<1>25. CASE EntryConveys
  <2>1. Top.at = "entry" /\ Leaves /\ LeavesLists
    BY <1>25 DEF EntryConveys, At, Leaves
  <2> QED BY <1>25, <2>1 DEF Effected, Leaves
<1>26. CASE EntryAlone
  <2>1. Top.at = "entry" /\ Leaves /\ LeavesLists
    BY <1>26 DEF EntryAlone, At, Leaves
  <2> QED BY <1>26, <2>1 DEF Effected, Leaves
<1>27. CASE SyncEnds
  <2>1. Top.at = "sync" /\ handlers' = handlers /\ ready' = ready /\ buffer' = 0 /\ LeavesLists
    BY <1>27 DEF SyncEnds, At, Leaves
  <2> QED BY <1>27, <2>1 DEF Effected, Leaves
<1>28. CASE Smi
  <2>1. Leaves /\ LeavesLists
    BY <1>28 DEF Smi, At, Leaves
  <2> QED BY <1>28, <2>1 DEF Effected, Leaves
<1>29. CASE DriverHandler
  <2>1. Top.at = "handler" /\ ready' = ready /\ buffer' = buffer /\ LeavesLists
    BY <1>29 DEF DriverHandler, At, Leaves
  <2> QED BY <1>29, <2>1 DEF Effected, Leaves
<1>30. CASE ReadyToLockHandler
  <2>1. Top.at = "lock" /\ buffer' = buffer
    BY <1>30 DEF ReadyToLockHandler, At, Leaves
  <2> QED BY <1>30, <2>1 DEF Effected, Leaves
<1>31. CASE EndOfDxeHandler
  <2>1. Top.at = "enddxe" /\ buffer' = buffer /\ handlers' = handlers
    BY <1>31 DEF EndOfDxeHandler, At, Leaves
  <2> QED BY <1>31, <2>1 DEF Effected, Leaves
<1>32. CASE StartDriver
  <2>1. Top.at = "start" /\ buffer' = buffer
    BY <1>32 DEF StartDriver, At, Leaves
  <2> QED BY <1>32, <2>1 DEF Effected, Leaves
<1>33. CASE \E v \in Volumes : AddVolume(v)
  <2>1. Leaves /\ Elsewhere /\ LeavesLists
    BY <1>33 DEF AddVolume, Dxe, At, Leaves, Elsewhere
  <2> QED BY <2>1 DEF Effected, Leaves, Elsewhere
<1>34. CASE \E type \in UserTypes : CallCommunicate(type)
  <2>1. Leaves /\ Elsewhere /\ LeavesLists
    BY <1>34 DEF CallCommunicate, Dxe, At, Leaves, Elsewhere
  <2> QED BY <2>1 DEF Effected, Leaves, Elsewhere
<1>35. CASE \E event \in Events : Signal(event)
  <2>1. Leaves /\ Elsewhere /\ LeavesLists
    BY <1>35 DEF Signal, Dxe, At, Leaves, Elsewhere
  <2> QED BY <2>1 DEF Effected, Leaves, Elsewhere
<1> QED BY <1>1, <1>2, <1>3, <1>4, <1>5, <1>6, <1>7, <1>8, <1>9, <1>10, <1>11, <1>12,
  <1>13, <1>14, <1>15, <1>16, <1>17, <1>18, <1>19, <1>20, <1>21, <1>22, <1>23, <1>24,
  <1>25, <1>26, <1>27, <1>28, <1>29, <1>30, <1>31, <1>32, <1>33, <1>34, <1>35 DEF Next,
  Core

\* What the handlers and the drivers do to the lists of handlers.
LEMMA WithoutLess ==
  ASSUME NEW S, NEW s \in Seq(S), NEW T
  PROVE  ToSet(Only(s, T)) \subseteq ToSet(s)
<1>1. s \in Seq(ToSet(s))
  <2>1. DOMAIN s = 1..Len(s) /\ Len(s) \in Nat
    OBVIOUS
  <2>2. \A i \in 1..Len(s) : s[i] \in ToSet(s)
    BY <2>1 DEF ToSet
  <2> HIDE DEF ToSet
  <2>3. s = [i \in 1..Len(s) |-> s[i]]
    BY <2>1
  <2> QED BY <2>1, <2>2, <2>3, IsASeq
<1>2. Only(s, T) \in Seq(ToSet(s) \cap T)
  BY <1>1, OnlyIn
<1> QED BY <1>2 DEF ToSet

LEMMA AppendSet ==
  ASSUME NEW S, NEW s \in Seq(S), NEW e \in S
  PROVE  ToSet(Append(s, e)) = ToSet(s) \cup {e}
<1>1. /\ Append(s, e) \in Seq(S) /\ Len(Append(s, e)) = Len(s) + 1
      /\ Append(s, e)[Len(s) + 1] = e /\ \A i \in 1..Len(s) : Append(s, e)[i] = s[i]
  BY Appended
<1>2. DOMAIN s = 1..Len(s) /\ Len(s) \in Nat /\ DOMAIN Append(s, e) = 1..Len(s) + 1
  BY <1>1
<1>3. \A i \in 1..Len(s) + 1 : i \in 1..Len(s) \/ i = Len(s) + 1
  BY <1>2
<1>4. \A i \in 1..Len(s) : i \in 1..Len(s) + 1
  BY <1>2
<1>5. Len(s) + 1 \in 1..Len(s) + 1
  BY <1>2
<1> QED BY <1>1, <1>2, <1>3, <1>4, <1>5 DEF ToSet

\* The handler on top runs for the walk below it.
LEMMA HandlerOn ==
  ASSUME DataOK, TypedStack, Control, Standing(stack, handlers), Top.at \in HandlerLabels
  PROVE  /\ Depth > 1 /\ Caller.at = "managing" /\ Caller.type \in Types
         /\ Caller.who \in ToSet(handlers[Caller.type])
         /\ Top.at = "handler" => Top.who = Caller.who /\ Caller.type \notin CoreTypes
         /\ Top.at = "lock" => Caller.type = "lock"
         /\ handlers[Caller.type] \in Seq(Keepers(Caller.type))
<1>1. Depth \in Nat \ {0} /\ Depth > 1
  BY ControlFacts DEF HandlerLabels
<1>2. Fits(Caller, Top) /\ Shape(Caller)
  BY <1>1, ControlFacts
<1>3. Caller.at = "managing"
  BY <1>2 DEF Fits
<1>4. Caller.type \in Types
  BY <1>2, <1>3 DEF Shape, Walks
<1>5. Running(Caller, Top, handlers)
  <2>1. Depth - 1 \in 1..Depth - 1 /\ (Depth - 1) + 1 = Depth
    BY <1>1
  <2>2. Running(stack[Depth - 1], stack[(Depth - 1) + 1], handlers)
    BY <2>1 DEF Standing
  <2> QED BY <2>1, <2>2 DEF Caller, Top
<1>6. Top.at = "lock" => Caller.type = "lock"
  BY <1>2 DEF Fits, HandlerLabels, CoreTypes, CoreHandlers
<1>7. Top.at = "handler" => Caller.type \notin CoreTypes
  BY <1>2 DEF Fits, HandlerLabels
<1> QED BY <1>1, <1>3, <1>4, <1>5, <1>6, <1>7 DEF Running, DataOK

LEMMA StartedList ==
  ASSUME CoreAssumption, DataOK, TypedStack, Control, Listed(handlers), StartDriver
  PROVE  Listed(handlers') /\ Grows(handlers') /\ ready \subseteq ready'
<1>1. Top.at = "start" /\ Shape(Top)
  BY ControlFacts DEF StartDriver, At
<1>2. PICK d : d = Top.who
  OBVIOUS
<1>3. d \in Drivers
  BY <1>1, <1>2 DEF Shape, Starting
<1>4. ready \subseteq ready'
  BY DEF StartDriver
<1>5. CASE Registers[d] = NoType
  <2>1. handlers' = handlers
    BY <1>2, <1>5 DEF StartDriver
  <2> QED BY <1>4, <2>1 DEF Grows
<1>6. CASE Registers[d] # NoType
  <2>1. PICK r : r = Registers[d]
    OBVIOUS
  <2>2. r \in UserTypes \cup {"root"} /\ r \in Types /\ r \notin CoreTypes
    <3>1. Registers[d] \in UserTypes \cup {"root", NoType}
          /\ UserTypes \cap (CoreTypes \cup {"root"}) = {}
      BY <1>3 DEF CoreAssumption
    <3> QED BY <1>6, <2>1, <3>1 DEF Types, CoreTypes
  <2>3. handlers' = [handlers EXCEPT ![r] = Append(handlers[r], d)]
    BY <1>2, <1>6, <2>1 DEF StartDriver
  <2>4. DOMAIN handlers = Types /\ handlers[r] \in Seq(Drivers)
    BY <2>2 DEF DataOK, Keepers
  <2>5. ToSet(Append(handlers[r], d)) = ToSet(handlers[r]) \cup {d}
    BY <1>3, <2>4, AppendSet
  <2>6. /\ handlers'[r] = Append(handlers[r], d)
        /\ \A y \in Types : y # r => handlers'[y] = handlers[y]
    BY <2>2, <2>3, <2>4
  <2>7. ASSUME NEW y \in Types
        PROVE  ToSet(handlers[y]) \subseteq ToSet(handlers'[y])
               /\ (y \notin CoreTypes => \A e \in ToSet(handlers'[y]) : Registers[e] = y)
    <3>1. y \notin CoreTypes => \A e \in ToSet(handlers[y]) : Registers[e] = y
      BY DEF Listed
    <3>2. CASE y = r
      BY <2>1, <2>5, <2>6, <3>1, <3>2
    <3>3. CASE y # r
      BY <2>6, <3>1, <3>3
    <3> QED BY <3>2, <3>3
  <2> QED BY <1>4, <2>7 DEF Listed, Grows
<1> QED BY <1>5, <1>6

LEMMA HandledList ==
  ASSUME DataOK, TypedStack, Control, Listed(handlers), Standing(stack, handlers), DriverHandler
  PROVE  /\ Listed(handlers')
         /\ \/ handlers' = handlers
            \/ /\ Top.who \in OneShot
               /\ handlers' = [handlers EXCEPT ![Caller.type] = Without(Caller.type, Top.who)]
<1>1. Top.at = "handler" /\ Top.at \in HandlerLabels
  BY DEF DriverHandler, At, HandlerLabels
<1>2. CASE Top.who \notin OneShot
  <2>1. handlers' = handlers
    BY <1>2 DEF DriverHandler
  <2> QED BY <2>1
<1>3. CASE Top.who \in OneShot
  <2>1. PICK r : r = Caller.type
    OBVIOUS
  <2>2. r \in Types /\ handlers[r] \in Seq(Keepers(r))
    BY <1>1, <2>1, HandlerOn
  <2>3. PICK w : w = Without(r, Top.who)
    OBVIOUS
  <2>4. handlers' = [handlers EXCEPT ![r] = w]
    BY <1>3, <2>1, <2>3 DEF DriverHandler
  <2>5. ToSet(w) \subseteq ToSet(handlers[r])
    BY <2>2, <2>3, WithoutLess DEF Without
  <2>6. DOMAIN handlers = Types
    BY DEF DataOK
  <2>7. Listed(handlers')
    BY <2>2, <2>4, <2>5, <2>6 DEF Listed
  <2> QED BY <1>3, <2>1, <2>3, <2>4, <2>7
<1> QED BY <1>2, <1>3

LEMMA LockedList ==
  ASSUME DataOK, Listed(handlers), ReadyToLockHandler
  PROVE  /\ Listed(handlers')
         /\ \A y \in Types : y \notin {"dispatch", "lock"} => handlers'[y] = handlers[y]
<1>1. PICK v, w : handlers' = [handlers EXCEPT !["dispatch"] = v, !["lock"] = w]
  BY DEF ReadyToLockHandler
<1>2. DOMAIN handlers = Types
  BY DEF DataOK
<1>3. \A y \in Types : y \notin {"dispatch", "lock"} => handlers'[y] = handlers[y]
  BY <1>1, <1>2
<1>4. \A y \in Types \ CoreTypes : y \notin {"dispatch", "lock"}
  BY DEF CoreTypes
<1> QED BY <1>3, <1>4 DEF Listed

\* Two walks of a message are one above the other only when SMRAM is not yet locked.
LEMMA OtherWalks ==
  ASSUME TypedStack, Control, Layered(stack), Depth > 1, Caller.at = "managing",
         Caller.type # "root", Caller.type # "dispatch",
         Caller.type \in CoreTypes => Top.at = "lock",
         NEW i \in 1..Depth - 2, stack[i].at = "managing"
  PROVE  /\ stack[i].type # Caller.type
         /\ Top.at = "lock" => stack[i].type # "dispatch"
<1>1. Depth \in Nat /\ i \in 1..Depth /\ Depth - 1 \in 1..Depth /\ Depth \in 1..Depth
      /\ i < Depth - 1 /\ i < Depth
  BY ControlFacts
<1>2. stack[i].at \in Walks
  BY DEF Walks
<1>3. Strata(stack[i], Caller) /\ Strata(stack[i], Top)
  BY <1>1, <1>2 DEF Layered, Caller, Top
<1>4. stack[i].type # Caller.type
  BY <1>3 DEF Strata, Walks, CoreTypes, CoreHandlers
<1>5. Top.at = "lock" => stack[i].type # "dispatch"
  BY <1>3 DEF Strata
<1> QED BY <1>4, <1>5

LEMMA StandingSame ==
  ASSUME TypedStack, Control, Standing(stack, handlers), NEW h, Grows(h)
  PROVE  Standing(stack, h)
<1>1. /\ \A k \in 1..Depth : Shape(stack[k])
      /\ \A k \in 1..Depth - 1 : Fits(stack[k], stack[k + 1])
      /\ Depth \in Nat
  BY ControlFacts DEF Chain
<1>2. ASSUME NEW i \in 1..Depth
      PROVE  Stands(stack[i], h)
  <2>1. Stands(stack[i], handlers) /\ Shape(stack[i])
    BY <1>1 DEF Standing
  <2>2. stack[i].at = "managing" => stack[i].type \in Types
    BY <2>1 DEF Shape, Walks
  <2> QED BY <2>1, <2>2 DEF Stands, Grows
<1>3. ASSUME NEW i \in 1..Depth - 1
      PROVE  Running(stack[i], stack[i + 1], h)
  <2>1. Running(stack[i], stack[i + 1], handlers)
    BY DEF Standing
  <2>2. i \in 1..Depth
    BY <1>1
  <2> QED BY <1>1, <2>1, <2>2, SameItself, RunningOn
<1> QED BY <1>2, <1>3 DEF Standing

\* What a handler that returns tells its walk.
LEMMA HandlerTells ==
  ASSUME TypedStack, Depth > 1, NEW ret \in Statuses, NEW reply \in Replies,
         HandlerReturns(ret, reply)
  PROVE  Len(stack') = Depth - 1 /\ stack'[Depth - 1].ret = ret
<1>1. Depth \in Nat /\ Depth - 1 \in 1..Depth - 1 /\ stack[Depth - 1] \in Frames
  <2>1. Depth \in Nat
    BY DEF TypedStack
  <2>2. Depth - 1 \in 1..Depth
    BY <2>1
  <2> QED BY <2>1, <2>2 DEF TypedStack
<1>2. PICK t : t = stack'
  OBVIOUS
<1>3. t = [i \in 1..Depth - 1 |->
             IF i = Depth - 1 THEN [stack[i] EXCEPT !.ret = ret]
             ELSE IF i = Top.up THEN [stack[i] EXCEPT !.reply = reply]
             ELSE stack[i]]
  BY <1>2 DEF HandlerReturns
<1>4. t[Depth - 1] = [stack[Depth - 1] EXCEPT !.ret = ret]
  BY <1>1, <1>3
<1>5. t[Depth - 1].ret = ret
  BY <1>1, <1>4 DEF Frames
<1>6. Len(t) = Depth - 1
  BY <1>3, HandlerDone
<1> QED BY <1>2, <1>5, <1>6

\* The frame that calls another one is there below it.
LEMMA CalledTop ==
  ASSUME TypedStack, stack # <<>>, NEW f, NEW c, NEW t, t = Append([stack EXCEPT ![Depth] = f], c)
  PROVE  t[Depth] = f
<1>2. PICK u : u = [stack EXCEPT ![Depth] = f] /\ t = Append(u, c)
  OBVIOUS
<1>1. Depth \in Nat \ {0} /\ u \in Seq(Frames \cup {f}) /\ Len(u) = Depth /\ u[Depth] = f
  BY <1>2, LastReplaced DEF TypedStack
<1>3. PICK S : S = Frames \cup {f, c}
  OBVIOUS
<1>4. u \in Seq(S) /\ c \in S
  <2>1. Frames \cup {f} \subseteq S /\ c \in S
    BY <1>3
  <2> QED BY <1>1, <2>1, SeqMonotonic
<1>5. \A i \in 1..Len(u) : Append(u, c)[i] = u[i]
  BY ONLY <1>4, Appended
<1> QED BY <1>1, <1>2, <1>5

LEMMA StandingStep ==
  ASSUME CoreAssumption, IInv, WalksHold, Effected, NEW b, Follows(stack', b),
         \/ DriverHandler \/ ReadyToLockHandler \/ Grows(handlers')
  PROVE  Standing(stack', handlers')
<1>1. DataOK /\ TypedStack /\ Control /\ Layered(stack) /\ Standing(stack, handlers)
      /\ Listed(handlers) /\ Lockable(stack, ready)
  BY DEF IInv, WalksHold, Walked
<1>2. PICK t, h : t = stack' /\ h = handlers'
  OBVIOUS
<1>3. Follows(t, b)
  BY <1>2
<1>4. CASE Grows(handlers')
  BY <1>1, <1>2, <1>3, <1>4, StandingGrows
<1>5. CASE DriverHandler
  <2>1. Top.at = "handler" /\ Top.at \in HandlerLabels
    BY <1>5 DEF DriverHandler, At, HandlerLabels
  <2>2. /\ Depth > 1 /\ Caller.at = "managing" /\ Caller.type \in Types
        /\ Caller.who \in ToSet(handlers[Caller.type])
        /\ Top.who = Caller.who /\ Caller.type \notin CoreTypes
    BY <1>1, <2>1, HandlerOn
  <2>3. CASE handlers' = handlers
    <3>1. Grows(handlers')
      BY <2>3 DEF Grows
    <3> QED BY <1>4, <3>1
  <2>4. CASE handlers' # handlers
    <3>1. Top.who \in OneShot
          /\ handlers' = [handlers EXCEPT ![Caller.type] = Without(Caller.type, Top.who)]
      BY <1>1, <1>5, <2>4, HandledList
    <3>2. Caller.type # "root"
      <4>1. Registers[Caller.who] = Caller.type
        BY <1>1, <2>2 DEF Listed
      <4> QED BY <2>2, <3>1, <4>1 DEF CoreAssumption
    <3>3. HandlerReturns("success", "handled")
      BY <1>5, <3>1 DEF DriverHandler
    <3>4. "success" \in Statuses /\ "handled" \in Replies
      BY DEF Statuses, Replies
    <3>5. Len(t) = Depth - 1 /\ t[Depth - 1].ret = "success"
      BY <1>1, <1>2, <2>2, <3>3, <3>4, HandlerTells
    <3>6. Caller.type # "dispatch"
      BY <2>2 DEF CoreTypes
    <3>7. ASSUME NEW i \in 1..Depth - 2, stack[i].at = "managing"
          PROVE  h[stack[i].type] = handlers[stack[i].type]
      <4>1. stack[i].type # Caller.type
        BY <1>1, <2>2, <3>2, <3>6, <3>7, OtherWalks
      <4>2. stack[i].type \in Types
        <5>1. i \in 1..Depth
          BY <1>1, ControlFacts
        <5> QED BY <1>1, <3>7, <5>1, ControlFacts DEF Chain, Shape, Walks
      <4> QED BY <1>1, <1>2, <3>1, <4>1, <4>2 DEF DataOK
    <3> QED BY <1>1, <1>2, <1>3, <2>1, <2>2, <3>2, <3>5, <3>7, StandingCut
  <2> QED BY <2>3, <2>4
<1>6. CASE ReadyToLockHandler
  <2>1. Top.at = "lock" /\ Top.at \in HandlerLabels
    BY <1>6 DEF ReadyToLockHandler, At, HandlerLabels
  <2>2. Depth > 1 /\ Caller.at = "managing" /\ Caller.type = "lock"
    BY <1>1, <2>1, HandlerOn
  <2>3. CpuIo \in ready
    <3>1. Depth - 1 \in 1..Depth
      BY <1>1, <2>2, ControlFacts
    <3>2. Locking(stack[Depth - 1])
      BY <2>2 DEF Locking, Walks, Caller
    <3> QED BY <1>1, <3>1, <3>2 DEF Lockable
  <2>4. HandlerReturns("success", "handled")
    BY <1>6, <2>3 DEF ReadyToLockHandler
  <2>5. "success" \in Statuses /\ "handled" \in Replies
    BY DEF Statuses, Replies
  <2>6. Len(t) = Depth - 1 /\ t[Depth - 1].ret = "success"
    BY <1>1, <1>2, <2>2, <2>4, <2>5, HandlerTells
  <2>7. ASSUME NEW i \in 1..Depth - 2, stack[i].at = "managing"
        PROVE  h[stack[i].type] = handlers[stack[i].type]
    <3>1. stack[i].type # "lock" /\ stack[i].type # "dispatch"
      BY <1>1, <2>1, <2>2, <2>7, OtherWalks
    <3>2. stack[i].type \in Types
      <4>1. i \in 1..Depth
        BY <1>1, ControlFacts
      <4> QED BY <1>1, <2>7, <4>1, ControlFacts DEF Chain, Shape, Walks
    <3> QED BY <1>1, <1>2, <1>6, <3>1, <3>2, LockedList
  <2> QED BY <1>1, <1>2, <1>3, <2>1, <2>2, <2>6, <2>7, StandingCut
<1> QED BY <1>4, <1>5, <1>6

\* Frames below the top stay with their kind.
LEMMA NoSyncBelow ==
  ASSUME TypedStack, Control, Top.at \in Entries
  PROVE  \A i \in 1..Depth : stack[i].at = "sync" => i = Depth
<1> SUFFICES ASSUME NEW i \in 1..Depth, stack[i].at = "sync", i # Depth
             PROVE  FALSE
  OBVIOUS
<1>1. i < Depth /\ Depth \in 1..Depth
  BY ControlFacts
<1>2. Above(stack[i], stack[Depth])
  BY <1>1 DEF Control, Controlled, Structure, Nested
<1> QED BY <1>2 DEF Above, Entries, Top

LEMMA SmiOutside ==
  ASSUME TypedStack, Control, Smi
  PROVE  Top.at \notin Entries
<1>1. Depth \in DOMAIN stack
  BY ControlFacts DEF TypedStack
<1> QED BY <1>1 DEF Smi, InSmi, Entries, Top

LEMMA ConveysStep ==
  ASSUME IInv, Effected, stack' \in Seq(Frames), NEW b, Follows(stack', b), b = buffer'
  PROVE  Conveys(stack', b)
<1>1. TypedStack /\ Control
  BY DEF IInv
<1>2. SUFFICES ASSUME Len(stack') >= Depth, stack'[Depth].at = "sync"
               PROVE  Top.at = "entry" /\ b = buffer /\ buffer # 0 /\ ~Syncs(stack)
  BY DEF Conveys
<1>3. Depth \in Nat \ {0} /\ stack # <<>>
  BY <1>1, ControlFacts
<1>4. Turned(Top, stack'[Depth])
  <2>1. Len(stack') # Depth - 1
    BY <1>2, <1>3
  <2> QED BY <2>1 DEF Follows, Moved
<1>5. Top.at \in {"entry", "sync"}
  BY <1>2, <1>4, TurnedKind
<1>6. ~Smi
  BY <1>1, <1>5, SmiOutside DEF Entries
<1>7. Top.at # "sync"
  <2>1. SUFFICES ASSUME Top.at = "sync" PROVE FALSE
    OBVIOUS
  <2>2. SyncEnds
    BY <1>6, <2>1 DEF Effected
  <2>3. PICK f : f = [Top EXCEPT !.at = "root"]
    OBVIOUS
  <2>4. f.at = "root"
    BY <1>1, <2>3, ControlFacts DEF Frames
  <2>5. stack' = Append([stack EXCEPT ![Depth] = f], Manage("root"))
    BY <2>2, <2>3 DEF SyncEnds, Call
  <2>6. stack'[Depth] = f
    BY <1>1, <1>3, <2>5, CalledTop
  <2> QED BY <1>2, <2>4, <2>6
<1>8. Top.at = "entry"
  BY <1>5, <1>7
<1>9. ~EntryAlone
  <2>1. SUFFICES ASSUME EntryAlone PROVE FALSE
    OBVIOUS
  <2>2. PICK f : f = [Top EXCEPT !.at = "root", !.flag = legacy]
    OBVIOUS
  <2>3. f.at = "root"
    BY <1>1, <2>2, ControlFacts DEF Frames
  <2>4. stack' = Append([stack EXCEPT ![Depth] = f], Manage("root"))
    BY <2>1, <2>2 DEF EntryAlone, Call
  <2>5. stack'[Depth] = f
    BY <1>1, <1>3, <2>4, CalledTop
  <2> QED BY <1>2, <2>3, <2>5
<1>10. EntryConveys
  BY <1>6, <1>8, <1>9 DEF Effected
<1>11. buffer # 0 /\ buffer' = buffer
  BY <1>10 DEF EntryConveys
<1>12. ~Syncs(stack)
  BY <1>1, <1>8, NoSyncBelow DEF Syncs, Entries, Top
<1> QED BY <1>8, <1>11, <1>12

LEMMA DirectStep ==
  ASSUME IInv, Effected, NEW b, Follows(stack', b),
         Len(stack') >= Depth, stack'[Depth].at = "direct"
  PROVE  Top.at = "direct" \/ inSmm \/ ~entry
<1>1. TypedStack /\ Control
  BY DEF IInv
<1>2. Depth \in Nat \ {0} /\ stack # <<>> /\ Top \in Frames
  BY <1>1, ControlFacts
<1>3. Turned(Top, stack'[Depth])
  <2>1. Len(stack') # Depth - 1
    BY <1>2
  <2> QED BY <2>1 DEF Follows, Moved
<1>4. Top.at \in {"direct", "communicate"}
  BY <1>3 DEF Turned, Turns
<1>5. SUFFICES ASSUME Top.at = "communicate", ~inSmm, entry
               PROVE  FALSE
  BY <1>4
<1>6. PutBuffer \/ Smi
  BY <1>5 DEF Effected, Refuse, Direct
<1>7. CASE PutBuffer
  <2>1. PICK f : f = [Top EXCEPT !.at = "size"]
    OBVIOUS
  <2>2. f.at = "size"
    BY <1>2, <2>1 DEF Frames
  <2>3. PICK t : t = stack'
    OBVIOUS
  <2>4. t = [stack EXCEPT ![Depth] = f]
    BY <1>7, <2>1, <2>3 DEF PutBuffer, Become
  <2>5. t[Depth] = f
    BY <1>1, <1>2, <2>4, LastReplaced DEF TypedStack
  <2> QED BY <2>2, <2>3, <2>5
<1>8. CASE Smi
  <2>1. stack' = Append([stack EXCEPT ![Depth] = Top], Frame("entry", NoType))
    BY <1>8 DEF Smi, Call
  <2>2. stack'[Depth] = Top
    BY <1>1, <1>2, <2>1, CalledTop
  <2> QED BY <1>5, <2>2
<1> QED BY <1>6, <1>7, <1>8

LEMMA ListsStep ==
  ASSUME CoreAssumption, IInv, WalksHold, Effected
  PROVE  /\ Listed(handlers') /\ ready \subseteq ready'
         /\ DriverHandler \/ ReadyToLockHandler \/ Grows(handlers')
<1>1. DataOK /\ TypedStack /\ Control /\ Standing(stack, handlers) /\ Listed(handlers)
  BY DEF IInv, WalksHold, Walked
<1>2. ready \subseteq ready'
  <2>1. CASE StartDriver
    BY <1>1, <2>1, StartedList
  <2>2. CASE ReadyToLockHandler
    BY <2>2 DEF ReadyToLockHandler
  <2>3. CASE EndOfDxeHandler
    BY <2>3 DEF EndOfDxeHandler
  <2> QED BY <2>1, <2>2, <2>3 DEF Effected
<1>3. CASE handlers' = handlers
  BY <1>1, <1>2, <1>3 DEF Grows
<1>4. CASE DriverHandler
  BY <1>1, <1>2, <1>4, HandledList
<1>5. CASE ReadyToLockHandler
  BY <1>1, <1>2, <1>5, LockedList
<1>6. CASE StartDriver
  BY <1>1, <1>2, <1>6, StartedList
<1> QED BY <1>3, <1>4, <1>5, <1>6 DEF Effected

LEMMA TabledStep ==
  ASSUME DataOK, Tabled(handlers), Effected
  PROVE  Tabled(handlers')
<1>1. PICK f : f = handlers
  OBVIOUS
<1>2. DOMAIN f = Types /\ Tabled(f)
  BY <1>1 DEF DataOK
<1>3. \A y, e : Tabled([f EXCEPT ![y] = e])
  BY <1>2 DEF Tabled
<1>4. \A e, g : Tabled([f EXCEPT !["dispatch"] = e, !["lock"] = g])
  BY <1>2 DEF Tabled
<1>5. CASE handlers' = handlers
  BY <1>1, <1>2, <1>5
<1>6. CASE DriverHandler
  <2>1. handlers' = f \/ \E y, e : handlers' = [f EXCEPT ![y] = e]
    BY <1>1, <1>6 DEF DriverHandler
  <2> QED BY <1>2, <1>3, <2>1
<1>7. CASE ReadyToLockHandler
  <2>1. PICK e, g : handlers' = [f EXCEPT !["dispatch"] = e, !["lock"] = g]
    BY <1>1, <1>7 DEF ReadyToLockHandler
  <2> QED BY <1>4, <2>1
<1>8. CASE StartDriver
  <2>1. PICK y, e : handlers' = f \/ handlers' = [f EXCEPT ![y] = e]
    BY <1>1, <1>8 DEF StartDriver
  <2> QED BY <1>2, <1>3, <2>1
<1> QED BY <1>5, <1>6, <1>7, <1>8 DEF Effected

LEMMA WalksStep ==
  ASSUME CoreAssumption, IInv, WalksHold, IInv', Next
  PROVE  WalksHold'
<1>1. /\ DataOK /\ TypedStack /\ Control /\ Pending(stack, buffer, size)
      /\ Layered(stack) /\ Unhurried(stack) /\ Standing(stack, handlers)
      /\ Tabled(handlers) /\ Listed(handlers) /\ Lockable(stack, ready)
  BY DEF IInv, WalksHold, Walked, Requested, Asked
<1>2. Effected
  BY Effects
<1>3. /\ Tabled(handlers') /\ Listed(handlers') /\ ready \subseteq ready'
      /\ DriverHandler \/ ReadyToLockHandler \/ Grows(handlers')
  BY <1>1, <1>2, ListsStep, TabledStep
<1>4. UserTypes \cap (CoreTypes \cup {"root"}) = {} /\ "lock" \notin UserTypes
  BY DEF CoreAssumption, CoreTypes
<1>5. CASE Moved(stack')
  <2>1. PICK t, b : t = stack' /\ b = buffer'
    OBVIOUS
  <2>2. Follows(stack', b) /\ stack' \in Seq(Frames)
    BY <1>5, <2>1 DEF IInv, Control, Controlled, Structure, Follows, TypedStack
  <2>3. Follows(t, b)
    BY <2>1, <2>2
  <2>4. Conveys(t, b)
    BY <1>2, <2>1, <2>2, ConveysStep
  <2>5. Layered(t)
    BY <1>1, <1>4, <2>3, <2>4, LayeredKept
  <2>6. Unhurried(t)
    <3>1. Len(t) >= Depth /\ t[Depth].at = "direct" => Top.at = "direct" \/ inSmm \/ ~entry
      BY <1>2, <2>1, <2>2, DirectStep
    <3> QED BY <1>1, <2>3, <3>1, UnhurriedKept
  <2>7. Standing(stack', handlers')
    BY <1>2, <1>3, <2>2, StandingStep
  <2>8. Lockable(t, ready')
    BY <1>1, <1>3, <1>4, <2>3, LockableKept
  <2> QED BY <1>3, <2>1, <2>5, <2>6, <2>7, <2>8 DEF WalksHold, Walked
<1>6. CASE stack' = stack /\ ~Moved(stack')
  <2>1. Grows(handlers')
    <3>1. Known
      BY DEF IInv, Known, TypedStack
    <3>2. ~DriverHandler /\ ~ReadyToLockHandler
      BY <1>6, <3>1, HandlersMove
    <3> QED BY <1>3, <3>2
  <2>2. Standing(stack, handlers')
    BY <1>1, <2>1, StandingSame
  <2>3. Lockable(stack, ready')
    BY <1>1, <1>3 DEF Lockable
  <2> QED BY <1>1, <1>3, <1>6, <2>2, <2>3 DEF WalksHold, Walked
<1> QED BY <1>5, <1>6, Moves

LEMMA WalksInit ==
  ASSUME CoreAssumption, Init
  PROVE  WalksHold
<1>1. PICK c : c = Frame("dxe", NoType)
  OBVIOUS
<1>2. c.at = "dxe"
  BY <1>1 DEF Frame
<1>3. stack = <<c>>
  BY <1>1 DEF Init
<1>4. Len(stack) = 1 /\ stack[1] = c
  BY <1>3
<1>5. \A i \in 1..1 : i = 1
  OBVIOUS
<1>6. Layered(stack)
  BY <1>2, <1>4, <1>5 DEF Layered, Walks
<1>7. Unhurried(stack)
  BY <1>4 DEF Unhurried
<1>8. Standing(stack, handlers)
  <2>1. \A i \in 1..Len(stack) - 1 : FALSE
    BY <1>4
  <2> QED BY <1>2, <1>4, <1>5, <2>1 DEF Standing, Stands
<1>9. Listed(handlers)
  <2>1. ASSUME NEW y \in Types \ CoreTypes
        PROVE  ToSet(handlers[y]) = {}
    <3>1. handlers[y] = <<>>
      BY DEF Init
    <3> QED BY <3>1 DEF ToSet
  <2> QED BY <2>1 DEF Listed
<1>10. Lockable(stack, ready)
  BY <1>2, <1>4, <1>5 DEF Lockable, Locking, Posting, Requests, Walks, Notifying
<1>11. Tabled(handlers)
  BY DEF Init, Tabled
<1> QED BY <1>6, <1>7, <1>8, <1>9, <1>10, <1>11 DEF WalksHold, Walked

\* What stands on what and on which handler, over every step: no walk over the handlers
\* of a message is left on one that SmiHandlerUnRegister has taken off its list, since
\* nothing that runs in the middle of a walk ends one of the same list (SmiManage).
THEOREM WalksInvariance == Spec => []WalksHold
<1>1. Init => WalksHold
  BY CoreAssumption, WalksInit
<1>2. IInv /\ IInv' /\ WalksHold /\ [Next]_vars => WalksHold'
  <2> SUFFICES ASSUME IInv, IInv', WalksHold, [Next]_vars
               PROVE  WalksHold'
    OBVIOUS
  <2>1. CASE Next
    BY <2>1, CoreAssumption, WalksStep
  <2>2. CASE UNCHANGED vars
    BY <2>2 DEF vars, WalksHold
  <2> QED BY <2>1, <2>2
<1> QED BY <1>1, <1>2, Invariance, PTL DEF Spec

LEMMA TypesAre ==
  ASSUME IInv, WalksHold
  PROVE  TypeOK
<1> DEFINE F == [at : Labels, type : Types \cup Events \cup {NoType}, up : Nat,
                 who : CoreTypes \cup Drivers \cup {NoDriver}, n : Nat, flag : BOOLEAN,
                 reply : {"clear", "handled", "success", "restart", "error"}, ret : Statuses]
<1>1. DataOK /\ stack \in Seq(Frames) /\ Standing(stack, handlers) /\ Tabled(handlers)
  BY DEF IInv, TypedStack, WalksHold, Walked
<1>2. ASSUME NEW i \in 1..Len(stack)
      PROVE  stack[i] \in F
  <2>1. stack[i] \in Frames
    BY <1>1
  <2>2. stack[i].at # "astray"
    BY <1>1 DEF Standing, Stands
  <2> QED BY <2>1, <2>2 DEF Frames, Replies
<1>3. stack \in Seq(F)
  <2>1. Len(stack) \in Nat /\ stack = [i \in 1..Len(stack) |-> stack[i]]
    BY <1>1
  <2> HIDE DEF F
  <2> QED BY <1>2, <2>1, IsASeq
<1>4. handlers \in [Types -> Seq(CoreTypes \cup Drivers)]
  <2>1. DOMAIN handlers = Types /\ \A y \in Types : handlers[y] \in Seq(Keepers(y))
    BY <1>1 DEF DataOK
  <2>2. \A y \in Types : Keepers(y) \subseteq CoreTypes \cup Drivers
    BY DEF Keepers
  <2>3. \A y \in Types : handlers[y] \in Seq(CoreTypes \cup Drivers)
    BY <2>1, <2>2, SeqMonotonic
  <2>4. handlers = [y \in Types |-> handlers[y]]
    BY <1>1 DEF Tabled
  <2> QED BY <2>3, <2>4
<1> HIDE DEF F
<1>5. handlers \in [Types -> Seq(CoreTypes \cup Drivers)] /\ stack \in Seq(F)
  BY <1>3, <1>4
<1> USE DEF F
<1> QED BY <1>1, <1>5 DEF TypeOK, DataOK

\* The type of the state: in particular no walk over the handlers of a message stands
\* on one that is not on the list any more ("astray"), so that SmiManage never follows
\* the link of an entry that has been freed.
THEOREM TypeCorrect == Spec => []TypeOK
<1>1. IInv /\ WalksHold => TypeOK
  BY TypesAre
<1> QED BY <1>1, Invariance, WalksInvariance, PTL

-----------------------------------------------------------------------------
(* What a dispatcher that reports success has done. *)

LEMMA JoinedSet ==
  ASSUME NEW S, NEW s \in Seq(S), NEW u \in Seq(S)
  PROVE  ToSet(s \o u) = ToSet(s) \cup ToSet(u)
<1>1. s \o u \in Seq(S) /\ Len(s \o u) = Len(s) + Len(u) /\ Len(s) \in Nat /\ Len(u) \in Nat
  OBVIOUS
<1>2. \A i \in 1..Len(s) + Len(u) : (s \o u)[i] = IF i <= Len(s) THEN s[i] ELSE u[i - Len(s)]
  BY <1>1
<1>3. DOMAIN (s \o u) = 1..Len(s) + Len(u) /\ DOMAIN s = 1..Len(s) /\ DOMAIN u = 1..Len(u)
  BY <1>1
<1>4. ASSUME NEW x \in ToSet(s \o u)
      PROVE  x \in ToSet(s) \cup ToSet(u)
  <2>1. PICK i \in 1..Len(s) + Len(u) : x = (s \o u)[i]
    BY <1>3 DEF ToSet
  <2>2. CASE i <= Len(s)
    <3>1. i \in 1..Len(s) /\ x = s[i]
      BY <1>1, <1>2, <2>1, <2>2
    <3> QED BY <1>3, <3>1 DEF ToSet
  <2>3. CASE ~(i <= Len(s))
    <3>1. i - Len(s) \in 1..Len(u) /\ x = u[i - Len(s)]
      BY <1>1, <1>2, <2>1, <2>3
    <3> QED BY <1>3, <3>1 DEF ToSet
  <2> QED BY <2>2, <2>3
<1>5. ASSUME NEW x \in ToSet(s)
      PROVE  x \in ToSet(s \o u)
  <2>1. PICK i \in 1..Len(s) : x = s[i]
    BY <1>3 DEF ToSet
  <2>2. i \in 1..Len(s) + Len(u) /\ (s \o u)[i] = x
    BY <1>1, <1>2, <2>1
  <2> QED BY <1>3, <2>2 DEF ToSet
<1>6. ASSUME NEW x \in ToSet(u)
      PROVE  x \in ToSet(s \o u)
  <2>1. PICK i \in 1..Len(u) : x = u[i]
    BY <1>3 DEF ToSet
  <2>2. PICK k : k = Len(s) + i
    OBVIOUS
  <2>3. k \in 1..Len(s) + Len(u) /\ ~(k <= Len(s)) /\ k - Len(s) = i
    BY <1>1, <2>2
  <2>4. (s \o u)[k] = x
    BY <1>2, <2>1, <2>3
  <2> QED BY <1>3, <2>3, <2>4 DEF ToSet
<1> QED BY <1>4, <1>5, <1>6

LEMMA HeadSet ==
  ASSUME NEW S, NEW s \in Seq(S), s # <<>>
  PROVE  /\ Head(s) \in S /\ Tail(s) \in Seq(S)
         /\ ToSet(s) = {Head(s)} \cup ToSet(Tail(s))
<1>1. /\ Len(s) \in Nat \ {0} /\ Head(s) = s[1] /\ Tail(s) \in Seq(S)
      /\ Len(Tail(s)) = Len(s) - 1 /\ \A i \in 1..Len(s) - 1 : Tail(s)[i] = s[i + 1]
  BY HeadTailProperties
<1>2. DOMAIN s = 1..Len(s) /\ DOMAIN Tail(s) = 1..Len(s) - 1 /\ 1 \in 1..Len(s)
  BY <1>1
<1>3. ASSUME NEW x \in ToSet(s)
      PROVE  x = Head(s) \/ x \in ToSet(Tail(s))
  <2>1. PICK i \in 1..Len(s) : x = s[i]
    BY <1>2 DEF ToSet
  <2>2. CASE i # 1
    <3>1. PICK k : k = i - 1
      OBVIOUS
    <3>2. k \in 1..Len(s) - 1 /\ k + 1 = i
      BY <1>1, <2>2, <3>1
    <3>3. Tail(s)[k] = x
      BY <1>1, <2>1, <3>2
    <3> QED BY <1>2, <3>2, <3>3 DEF ToSet
  <2> QED BY <1>1, <2>1, <2>2
<1>4. ASSUME NEW x \in ToSet(Tail(s))
      PROVE  x \in ToSet(s)
  <2>1. PICK i \in 1..Len(s) - 1 : x = Tail(s)[i]
    BY <1>2 DEF ToSet
  <2>2. i + 1 \in 1..Len(s) /\ s[i + 1] = x
    BY <1>1, <2>1
  <2> QED BY <1>2, <2>2 DEF ToSet
<1>5. Head(s) \in ToSet(s) /\ Head(s) \in S
  BY <1>1, <1>2 DEF ToSet
<1> QED BY <1>1, <1>3, <1>4, <1>5

\* Only the dispatcher changes its lists.
LEMMA ListMoves ==
  ASSUME Next
  PROVE  \/ UNCHANGED <<known, discovered, dependent, initialized, unread, scheduled, started>>
         \/ FindVolume \/ Drain \/ Search \/ DispatcherEnds
<1> USE DEF lists
<1>1. CASE PutBuffer \/ PutSize \/ Trigger \/ Sent \/ Refuse
  BY <1>1 DEF PutBuffer, PutSize, Trigger, Sent, Refuse
<1>2. CASE Direct \/ DirectEnds \/ Answered \/ EntryConveys \/ SyncEnds
  BY <1>2 DEF Direct, DirectEnds, Answered, EntryConveys, SyncEnds
<1>3. CASE EntryAlone \/ EntryEnds \/ ManageBegins \/ Managed \/ DriverHandler
  BY <1>3 DEF EntryAlone, EntryEnds, ManageBegins, Managed, DriverHandler
<1>4. CASE ReadyToLockHandler \/ LegacyBootHandler \/ EndOfDxeHandler \/ DispatcherBegins
  BY <1>4 DEF ReadyToLockHandler, LegacyBootHandler, EndOfDxeHandler, DispatcherBegins
<1>5. CASE DispatcherRestarts \/ StartDriver \/ StartCalls \/ StartEnds \/ NotifyPosts
  BY <1>5 DEF DispatcherRestarts, StartDriver, StartCalls, StartEnds, NotifyPosts
<1>6. CASE DispatchAgain \/ NotifyLocks \/ NotifyEnds \/ Smi
  BY <1>6 DEF DispatchAgain, NotifyLocks, NotifyEnds, Smi
<1>7. CASE \E v \in Volumes : AddVolume(v)
  BY <1>7 DEF AddVolume
<1>8. CASE \E type \in UserTypes : CallCommunicate(type)
  BY <1>8 DEF CallCommunicate
<1>9. CASE \E event \in Events : Signal(event)
  BY <1>9 DEF Signal
<1> QED BY <1>1, <1>2, <1>3, <1>4, <1>5, <1>6, <1>7, <1>8, <1>9 DEF Next, Core

\* No driver is lost from the lists.
LEMMA AccountedStep ==
  ASSUME CoreAssumption, DataOK, DataOK', Accounted, Next
  PROVE  Accounted'
<1>1. CASE UNCHANGED <<discovered, dependent, initialized, unread, scheduled>>
  BY <1>1 DEF Accounted
<1>2. CASE FindVolume
  <2>1. PICK v : v = volumes[Top.n]
    OBVIOUS
  <2>2. CASE v \in known \cup NoPath
    BY <1>1, <1>2, <2>1, <2>2 DEF FindVolume
  <2>3. CASE v \notin known \cup NoPath
    <3>1. v \in Volumes
      <4>1. known' = known \cup {v}
        BY <1>2, <2>1, <2>3 DEF FindVolume
      <4> QED BY <4>1 DEF DataOK
    <3>2. /\ discovered' = discovered \o Files[v]
          /\ dependent' = dependent \cup {d \in ToSet(Files[v]) \ ToSet(Apriori[v]) : Readable(d)}
          /\ unread' = unread \cup {d \in ToSet(Files[v]) : ~Readable(d)}
          /\ scheduled' = scheduled \o Apriori[v] /\ initialized' = initialized
      BY <1>2, <2>1, <2>3 DEF FindVolume
    <3>3. Files[v] \in Seq(Drivers) /\ Apriori[v] \in Seq(Drivers)
          /\ discovered \in Seq(Drivers) /\ scheduled \in Seq(Drivers)
      BY <3>1 DEF CoreAssumption, DataOK
    <3>4. ToSet(discovered') = ToSet(discovered) \cup ToSet(Files[v])
          /\ ToSet(scheduled') = ToSet(scheduled) \cup ToSet(Apriori[v])
      BY <3>2, <3>3, JoinedSet
    <3> QED BY <3>2, <3>4 DEF Accounted
  <2> QED BY <2>2, <2>3
<1>3. CASE Drain
  <2>1. /\ scheduled' = Tail(scheduled) /\ initialized' = initialized \cup {Head(scheduled)}
        /\ discovered' = discovered /\ dependent' = dependent /\ unread' = unread
        /\ scheduled # <<>>
    BY <1>3 DEF Drain
  <2>2. scheduled \in Seq(Drivers)
    BY DEF DataOK
  <2>3. ToSet(scheduled) = {Head(scheduled)} \cup ToSet(Tail(scheduled))
    BY <2>1, <2>2, HeadSet
  <2> QED BY <2>1, <2>3 DEF Accounted
<1>4. CASE Search
  <2>1. /\ dependent' = (dependent \cup Reread) \ ToSet(scheduled') /\ scheduled = <<>>
        /\ unread' = unread \ Reread /\ discovered' = discovered /\ initialized' = initialized
    BY <1>4 DEF Search
  <2>2. ToSet(scheduled) = {}
    BY <2>1 DEF ToSet
  <2> QED BY <2>1, <2>2 DEF Accounted
<1>5. CASE DispatcherEnds
  <2>1. /\ dependent' = dependent \cup Reread /\ scheduled' = scheduled
        /\ unread' = unread \ Reread /\ discovered' = discovered /\ initialized' = initialized
    BY <1>5 DEF DispatcherEnds
  <2> QED BY <2>1 DEF Accounted
<1>6. CASE FindVolume \/ Drain \/ Search \/ DispatcherEnds
  BY <1>2, <1>3, <1>4, <1>5, <1>6
<1> QED BY <1>1, <1>6, ListMoves

\* The dispatcher is called directly only by the notification that comes first.
LEMMA DirectDispatch ==
  ASSUME TypedStack, Control, Unhurried(stack), NEW k \in 1..Depth, stack[k].at = "direct",
         stack[k].type \notin UserTypes
  PROVE  k = 3 /\ stack[1].at = "dxe" /\ stack[2].at \in Notifying
<1>1. Depth \in Nat \ {0} /\ Chain(stack) /\ Interrupted(stack)
  BY ControlFacts DEF Structure
<1>2. stack[1].at = "dxe" /\ \A i \in 1..Depth - 1 : Fits(stack[i], stack[i + 1])
  BY <1>1 DEF Chain
<1>3. \A n \in 1..Depth : n # 1 => n - 1 \in 1..Depth - 1 /\ (n - 1) + 1 = n /\ n - 1 \in 1..Depth
  BY <1>1
<1>4. k # 1
  BY <1>2
<1>5. PICK m : m = k - 1
  OBVIOUS
<1>6. m \in 1..Depth /\ m + 1 = k /\ Fits(stack[m], stack[k])
  BY <1>2, <1>3, <1>4, <1>5
<1>7. stack[m].at \in {"again", "notified"}
  BY <1>6 DEF Fits, Posting
<1>8. m # 1
  BY <1>2, <1>7
<1>9. PICK p : p = m - 1
  OBVIOUS
<1>10. p \in 1..Depth /\ p + 1 = m /\ Fits(stack[p], stack[m])
  BY <1>2, <1>3, <1>6, <1>8, <1>9
<1>11. stack[p].at = "dxe" \/ (stack[p].at \in Requests /\ stack[p].flag)
  BY <1>7, <1>10 DEF Fits, Notifying
<1>12. CASE stack[p].at = "dxe"
  <2>1. p = 1
    <3>1. SUFFICES ASSUME p # 1 PROVE FALSE
      OBVIOUS
    <3>2. Fits(stack[p - 1], stack[p])
      BY <1>2, <1>3, <1>10, <3>1
    <3> QED BY <1>12, <3>2 DEF Fits
  <2>2. m = 2 /\ k = 3
    BY <1>6, <1>10, <2>1
  <2> QED BY <1>2, <1>7, <2>2 DEF Notifying
<1>13. CASE stack[p].at \in Requests /\ stack[p].flag
  <2>1. p = 2
    BY <1>1, <1>10, <1>13 DEF Interrupted
  <2>2. m = 3 /\ k = 4 /\ Depth >= 4
    BY <1>1, <1>6, <1>10, <2>1
  <2> QED BY <1>7, <1>13, <2>1, <2>2 DEF Unhurried, Notifying
<1> QED BY <1>11, <1>12, <1>13

\* The SMI that conveys a notification's request stands right upon it.
LEMMA StoredDispatch ==
  ASSUME TypedStack, Control, NEW b \in 1..Depth, stack[b].at \in Requests,
         stack[b].type \notin UserTypes, NEW k \in 1..Depth, b < k, stack[k].at = "sync"
  PROVE  k = b + 1
<1>1. Depth \in Nat \ {0} /\ Chain(stack) /\ Interrupted(stack) /\ Nested(stack)
  BY ControlFacts DEF Structure
<1>2. stack[1].at = "dxe" /\ \A i \in 1..Depth - 1 : Fits(stack[i], stack[i + 1])
  BY <1>1 DEF Chain
<1>3. b \in 1..Depth - 1 /\ b + 1 \in 1..Depth /\ b + 1 <= k
  BY <1>1
<1>4. Fits(stack[b], stack[b + 1])
  BY <1>2, <1>3
<1>5. ~stack[b].flag
  <2>1. SUFFICES ASSUME stack[b].flag PROVE FALSE
    OBVIOUS
  <2>2. b = 2
    BY <1>1, <2>1 DEF Interrupted
  <2>3. 1 \in 1..Depth - 1 /\ 1 + 1 = b
    BY <1>1, <2>2
  <2>4. Fits(stack[1], stack[b])
    BY <1>2, <2>3
  <2> QED BY <1>2, <2>4 DEF Fits, Posting
<1>6. stack[b + 1].at \in Entries
  <2>1. stack[b + 1] \in Frames
    BY <1>3 DEF TypedStack
  <2>2. stack[b + 1].at \in Labels \cup {"astray"}
    BY <2>1 DEF Frames
  <2>3. stack[b + 1].at \notin Posting \cup Notifying \cup Walks \cup HandlerLabels \cup Starting
        /\ stack[b + 1].at # "dxe"
    BY <1>4, <1>5 DEF Fits, Requests
  <2> QED BY <2>2, <2>3 DEF Labels, Posting, Requests, Notifying, Walks, HandlerLabels,
                            Starting, Entries
<1>7. b + 1 = k
  <2>1. SUFFICES ASSUME b + 1 < k PROVE FALSE
    BY <1>1, <1>3
  <2>2. Above(stack[b + 1], stack[k])
    BY <1>1, <1>3, <2>1 DEF Nested
  <2> QED BY <1>6, <2>2 DEF Above, Entries
<1> QED BY <1>7

\* While the caller of a dispatcher that reported success is interrupted.
LEMMA SettledBelow ==
  ASSUME UserTypes \cap (CoreTypes \cup {"root"}) = {},
         TypedStack, Control, NEW t, NEW b, Follows(t, b), Conveys(t, b),
         \A j \in 1..Len(t) : t[j].at # "astray",
         b = buffer \/ Top.at = "communicate" \/ b = 0, Top.at = "sync" => b = 0,
         NEW i \in 1..Depth - 1, Settled(stack, buffer, i)
  PROVE  Settled(t, b, i)
<1>1. /\ Depth \in Nat \ {0} /\ Depth \in 1..Depth /\ Len(t) \in Nat
      /\ Len(t) \in {Depth - 1, Depth, Depth + 1}
      /\ \A k \in 1..Depth - 1 : k \in 1..Depth /\ k \in 1..Len(t) /\ k < Depth /\ Same(t[k], stack[k])
      /\ \A k \in 1..Len(t) : (k \in 1..Depth - 1 \/ (k = Depth /\ Len(t) >= Depth)
                               \/ (k = Depth + 1 /\ Len(t) = Depth + 1))
  BY FollowFacts
<1>2. /\ Len(t) # Depth - 1 => Turned(Top, t[Depth])
      /\ Len(t) = Depth + 1 => Pushed(Top, t[Depth], t[Depth + 1])
      /\ \A k \in 1..Len(t) - 1 : Fits(t[k], t[k + 1])
  BY DEF Follows, Moved, Chain
<1>3. /\ stack[i].at \in Requests \cup {"direct", "answered", "again", "notified"}
      /\ stack[i].type = "dispatch" /\ \A j \in i + 1..Depth : Resting(stack[j])
      /\ buffer # 0 => buffer = i /\ Syncs(stack)
  BY DEF Settled
<1>4. Resting(Top)
  <2>1. Depth \in i + 1..Depth
    BY <1>1
  <2> QED BY <1>3, <2>1 DEF Top
<1>5. Top.at \in Entries \cup {"handler"} \cup Walks
  BY <1>4 DEF Resting, Walks
<1>6. t[i].at = stack[i].at /\ t[i].type = stack[i].type
  BY <1>1 DEF Same
<1>7. ASSUME NEW j \in i + 1..Len(t)
      PROVE  Resting(t[j])
  <2>1. j \in 1..Len(t)
    BY <1>1
  <2>2. CASE j \in 1..Depth - 1
    <3>1. Resting(stack[j]) /\ Same(t[j], stack[j])
      <4>1. j \in i + 1..Depth
        BY <1>1, <2>2
      <4> QED BY <1>1, <1>3, <2>2, <4>1
    <3>2. CASE stack[j].at = "managing" /\ stack[j].type = "dispatch"
      <4>1. t[j].ret = stack[j].ret
        <5>1. SUFFICES ASSUME t[j].ret # stack[j].ret PROVE FALSE
          OBVIOUS
        <5>2. j = Depth - 1 /\ Top.at \in HandlerLabels /\ Depth > 1
          BY <2>2, <3>2, <5>1, WalkHears
        <5>3. Top.at = "handler"
          BY <1>5, <5>2 DEF Entries, Walks, HandlerLabels
        <5>4. Fits(stack[j], Top)
          BY <5>2, ControlFacts DEF Caller
        <5> QED BY <3>2, <5>3, <5>4 DEF Fits, HandlerLabels, CoreTypes
      <4> QED BY <3>1, <3>2, <4>1 DEF Resting, Same, Walks
    <3>3. CASE ~(stack[j].at = "managing" /\ stack[j].type = "dispatch")
      BY <3>1, <3>3 DEF Resting, Same
    <3> QED BY <3>2, <3>3
  <2>3. CASE j = Depth /\ Len(t) >= Depth
    <3>1. Turned(Top, t[j])
      <4>1. Len(t) # Depth - 1
        BY <1>1, <2>3
      <4> QED BY <1>2, <2>3, <4>1
    <3>2. t[j].at # "astray"
      BY <2>1
    <3>3. CASE Top.at \in Entries
      <4>1. t[j].at \in Entries
        BY <3>1, <3>3 DEF Turned, Turns, Entries
      <4> QED BY <4>1 DEF Resting
    <3>4. CASE Top.at = "handler"
      <4>1. t[j].at = "handler"
        BY <3>1, <3>4 DEF Turned, Turns
      <4> QED BY <4>1 DEF Resting
    <3>5. CASE Top.at \in Walks /\ Top.type = "root"
      <4>1. t[j].at \in Walks /\ t[j].type = "root"
        BY <3>1, <3>5 DEF Turned, Turns, Walks
      <4> QED BY <4>1 DEF Resting
    <3>6. CASE Top.at = "managing" /\ Top.type = "dispatch" /\ Top.ret = "success"
      <4>1. t[j].at = "managing"
        BY <3>1, <3>2, <3>6 DEF Turned, Turns
      <4>2. t[j].type = "dispatch" /\ t[j].ret = "success"
        BY <3>1, <3>6, <4>1 DEF Turned
      <4> QED BY <4>1, <4>2 DEF Resting
    <3> QED BY <1>4, <3>3, <3>4, <3>5, <3>6 DEF Resting
  <2>4. CASE j = Depth + 1 /\ Len(t) = Depth + 1
    <3>1. Turned(Top, t[Depth]) /\ Pushed(Top, t[Depth], t[j]) /\ Fits(t[Depth], t[j])
      <4>1. Len(t) # Depth - 1 /\ Depth \in 1..Len(t) - 1
        BY <1>1, <2>4
      <4> QED BY <1>2, <2>4, <4>1
    <3>2. t[j].at \in {"entry", "manage"} \cup HandlerLabels
      <4>1. t[j].at \notin {"communicate", "start", "notify"}
        BY <1>5, <3>1 DEF Pushed, Entries, Walks, Requests
      <4> QED BY <3>1, <4>1 DEF Pushed, HandlerLabels
    <3>3. CASE t[j].at = "entry"
      BY <3>3 DEF Resting, Entries
    <3>4. CASE t[j].at = "manage"
      <4>1. Top.at \in {"entry", "sync"}
        BY <1>5, <3>1, <3>4 DEF Pushed, Entries, Walks
      <4>2. t[Depth].at \in {"entry", "sync", "root"}
        BY <3>1, <4>1 DEF Turned, Turns
      <4>3. t[Depth].at # "sync"
        <5>1. Len(t) >= Depth
          BY <1>1, <2>4
        <5> QED BY <1>3, <5>1 DEF Conveys
      <4>4. t[j].type = "root"
        BY <3>1, <3>4, <4>2, <4>3 DEF Fits, Walks
      <4> QED BY <3>4, <4>4 DEF Resting, Walks
    <3>5. CASE t[j].at \in HandlerLabels
      <4>1. t[Depth].at = "managing" /\ (t[Depth].type \notin CoreTypes => t[j].at = "handler")
        BY <3>1, <3>5 DEF Fits
      <4>2. t[Depth].ret = Top.ret /\ t[Depth].type = Top.type /\ Top.at \in Walks
        BY <3>1, <4>1, TurnedKind DEF Turned, Walks
      <4>3. Top.type = "root"
        <5>1. Top.type = "root" \/ (Top.type = "dispatch" /\ Top.ret = "success")
          BY <1>4, <4>2 DEF Resting, Entries, Walks
        <5> QED BY <3>1, <3>5, <4>2, <5>1 DEF Pushed
      <4>4. t[j].at = "handler"
        BY <4>1, <4>2, <4>3 DEF CoreTypes
      <4> QED BY <4>4 DEF Resting
    <3> QED BY <3>2, <3>3, <3>4, <3>5
  <2> QED BY <1>1, <2>1, <2>2, <2>3, <2>4
<1>8. b # 0 => b = i /\ Syncs(t)
  <2>1. SUFFICES ASSUME b # 0 PROVE b = i /\ Syncs(t)
    OBVIOUS
  <2>2. Top.at # "communicate"
    BY <1>5 DEF Entries, Walks
  <2>3. b = buffer /\ b = i /\ Syncs(stack)
    BY <1>3, <2>1, <2>2
  <2>4. PICK k \in 1..Depth : stack[k].at = "sync"
    BY <2>3 DEF Syncs
  <2>5. k \in 1..Depth - 1
    <3>1. k # Depth
      BY <2>1, <2>4 DEF Top
    <3> QED BY <1>1, <3>1
  <2>6. t[k].at = "sync" /\ k \in 1..Len(t)
    BY <1>1, <2>4, <2>5 DEF Same
  <2> QED BY <2>3, <2>6 DEF Syncs
<1> QED BY <1>3, <1>6, <1>7, <1>8 DEF Settled

\* While the frame that knows of the success is on top.
LEMMA SettledTop ==
  ASSUME UserTypes \cap (CoreTypes \cup {"root"}) = {},
         TypedStack, Control, NEW t, NEW b, Follows(t, b),
         b = buffer \/ Top.at = "communicate" \/ b = 0,
         Settled(stack, buffer, Depth), Len(t) >= Depth, t[Depth].reply = "success"
  PROVE  Settled(t, b, Depth)
<1>1. /\ Depth \in Nat \ {0} /\ Depth \in 1..Depth /\ Len(t) \in Nat
      /\ Len(t) \in {Depth - 1, Depth, Depth + 1} /\ Depth \in 1..Len(t)
      /\ \A k \in 1..Depth - 1 : k \in 1..Depth /\ k \in 1..Len(t) /\ k < Depth /\ Same(t[k], stack[k])
  BY FollowFacts
<1>2. /\ Top.at \in Requests \cup {"direct", "answered", "again", "notified"}
      /\ Top.type = "dispatch" /\ (buffer # 0 => buffer = Depth /\ Syncs(stack))
  BY DEF Settled, Top
<1>3. Turned(Top, t[Depth])
  <2>1. Len(t) # Depth - 1
    BY <1>1
  <2> QED BY <2>1 DEF Follows, Moved
<1>4. t[Depth].type = "dispatch"
  BY <1>2, <1>3 DEF Turned
<1>5. t[Depth].at \in Requests \cup {"direct", "answered", "again", "notified"}
  <2>1. ~(Top.at = "again" /\ t[Depth].at = "notify")
    BY <1>3 DEF Turned
  <2> QED BY <1>2, <1>3, <2>1 DEF Turned, Turns, Requests
<1>6. ASSUME NEW j \in Depth + 1..Len(t)
      PROVE  Resting(t[j])
  <2>1. j = Depth + 1 /\ Len(t) = Depth + 1 /\ Depth \in 1..Len(t) - 1
    BY <1>1
  <2>2. Pushed(Top, t[Depth], t[j]) /\ Fits(t[Depth], t[j])
    BY <2>1 DEF Follows, Moved, Chain
  <2>3. t[j].at # "notify"
    <3>1. SUFFICES ASSUME t[j].at = "notify" PROVE FALSE
      OBVIOUS
    <3>2. Top.at \in Requests
      BY <1>2, <2>2, <3>1 DEF Pushed
    <3>3. Depth > 1 /\ Fits(Caller, Top)
      BY <3>2, ControlFacts DEF Requests
    <3>4. Caller.at = "dxe"
      <4>1. Depth - 1 \in 1..Depth - 1
        BY <1>1, <3>3
      <4> QED BY <2>1, <3>1, <4>1, NotifiedLow DEF Caller
    <3> QED BY <1>2, <3>2, <3>3, <3>4 DEF Fits, Posting, CoreTypes
  <2>4. t[j].at \notin HandlerLabels
    BY <1>5, <2>2 DEF Fits, Requests
  <2>5. t[j].at = "entry"
    BY <1>2, <2>2, <2>3, <2>4 DEF Pushed, HandlerLabels, Requests
  <2> QED BY <2>5 DEF Resting, Entries
<1>7. b # 0 => b = Depth /\ Syncs(t)
  <2>1. SUFFICES ASSUME b # 0 PROVE b = Depth /\ Syncs(t)
    OBVIOUS
  <2>2. b = buffer /\ b = Depth /\ Syncs(stack)
    BY <1>2, <2>1 DEF Requests
  <2>3. PICK k \in 1..Depth : stack[k].at = "sync"
    BY <2>2 DEF Syncs
  <2>4. k \in 1..Depth - 1
    <3>1. k # Depth
      BY <1>2, <2>3 DEF Top, Requests
    <3> QED BY <1>1, <3>1
  <2>5. t[k].at = "sync" /\ k \in 1..Len(t)
    BY <1>1, <2>3, <2>4 DEF Same
  <2> QED BY <2>2, <2>5 DEF Syncs
<1> QED BY <1>4, <1>5, <1>6, <1>7 DEF Settled

\* When Communicate passes it on to the notification.
LEMMA SettledPassed ==
  ASSUME UserTypes \cap (CoreTypes \cup {"root"}) = {},
         TypedStack, Control, Pending(stack, buffer, size), NEW t, NEW b, Follows(t, b),
         b = buffer \/ Top.at = "communicate" \/ b = 0,
         Settled(stack, buffer, Depth), Top.at = "answered", Len(t) = Depth - 1
  PROVE  Settled(t, b, Depth - 1)
<1>1. Depth \in Nat \ {0} /\ Depth > 1 /\ Fits(Caller, Top)
  BY ControlFacts
<1>2. Top.type = "dispatch" /\ (buffer # 0 => buffer = Depth)
  BY DEF Settled, Top
<1>3. buffer = 0
  BY <1>2 DEF Pending, Top, Requests
<1>4. b = 0
  BY <1>3
<1>5. Caller.at \in {"again", "notified"} /\ Caller.type = "dispatch"
  BY <1>1, <1>2 DEF Fits, Posting, CoreTypes
<1>6. Depth - 1 \in 1..Depth - 1
  BY <1>1
<1>7. Same(t[Depth - 1], Caller)
  BY <1>6, FollowFacts DEF Caller
<1>8. t[Depth - 1].at \in {"again", "notified"} /\ t[Depth - 1].type = "dispatch"
  BY <1>5, <1>7 DEF Same
<1>9. \A j \in (Depth - 1) + 1..Len(t) : FALSE
  BY <1>1
<1> QED BY <1>4, <1>8, <1>9 DEF Settled

\* When the dispatcher reports it.
LEMMA SettledEnds ==
  ASSUME DataOK, TypedStack, Control, Pending(stack, buffer, size), Requested, Unhurried(stack),
         Standing(stack, handlers), UserTypes \cap (CoreTypes \cup {"root"}) = {},
         Top.at = "drain", NEW t, Follows(t, buffer), Len(t) = Depth - 1,
         t[Depth - 1].ret = "success", NEW i \in 1..Depth - 1, i = Top.up, i # Depth - 1
  PROVE  Settled(t, buffer, i)
<1>1. /\ Depth \in Nat \ {0} /\ Depth \in 1..Depth
      /\ \A k \in 1..Depth - 1 : k \in 1..Depth /\ k \in 1..Len(t) /\ k < Depth /\ Same(t[k], stack[k])
  BY FollowFacts
<1>2. Depth > 1 /\ Caller.at = "managing" /\ Fits(Caller, Top)
  BY HandlerOn, ControlFacts DEF HandlerLabels
<1>3. Caller.type = "dispatch" /\ Caller.up = i
  <2>1. Top.at \in HandlerLabels /\ Top.at # "handler"
    BY DEF HandlerLabels
  <2>2. Caller.type \in CoreTypes
        /\ (Top.at = CoreHandlers[Caller.type] \/ Caller.type = "dispatch") /\ Top.up = Caller.up
    BY <1>2, <2>1 DEF Fits
  <2> QED BY <2>2 DEF CoreTypes, CoreHandlers
<1>4. PICK m : m = Depth - 1
  OBVIOUS
<1>5. m \in 1..Depth /\ m \in 1..Depth - 1 /\ stack[m] = Caller /\ m + 1 = Depth /\ m # 1
  <2>1. m \in 1..Depth /\ m \in 1..Depth - 1 /\ m + 1 = Depth /\ m # 1
    BY <1>1, <1>2, <1>4
  <2> QED BY <1>4, <2>1 DEF Caller
<1>6. PICK p : p = m - 1
  OBVIOUS
<1>7. p \in 1..Depth /\ p \in 1..Depth - 1 /\ p + 1 = m /\ Fits(stack[p], stack[m])
  <2>1. p \in 1..Depth /\ p \in 1..Depth - 1 /\ p + 1 = m
    BY <1>1, <1>5, <1>6
  <2> QED BY <2>1, ControlFacts DEF Chain
<1>8. stack[p].at \in {"direct", "sync"} /\ (stack[p].at = "direct" => stack[p].type = "dispatch")
  BY <1>2, <1>3, <1>5, <1>7 DEF Fits, Walks
<1>9. /\ stack[p].at = "direct" => i = p
      /\ stack[p].at = "sync" => /\ buffer \in 1..p /\ stack[buffer].at \in Requests
                                 /\ i = buffer /\ stack[buffer].type = "dispatch"
  <2>1. stack[p + 1].at \in Walks /\ stack[p + 1].up = i /\ stack[p + 1].type = "dispatch"
    BY <1>2, <1>3, <1>5, <1>7 DEF Walks
  <2> QED BY <1>7, <2>1 DEF Control, Controlled, Conveyed
<1>10. Resting(t[m])
  <2>1. t[m].at = "managing" /\ t[m].type = "dispatch" /\ t[m].ret = "success"
    BY <1>1, <1>2, <1>3, <1>4, <1>5 DEF Same
  <2> QED BY <2>1 DEF Resting
<1>11. "dispatch" \notin UserTypes
  BY DEF CoreTypes
<1>12. CASE stack[p].at = "direct"
  <2>1. p = 3 /\ stack[1].at = "dxe" /\ stack[2].at \in Notifying
    BY <1>7, <1>8, <1>11, <1>12, DirectDispatch
  <2>2. buffer = 0
    <3>1. SUFFICES ASSUME buffer # 0 PROVE FALSE
      OBVIOUS
    <3>2. buffer \in 1..Depth /\ stack[buffer].at \in Requests
      BY <3>1 DEF Pending
    <3>3. \A j \in 1..Depth : j \in {1, 2} \/ j = p \/ j = m \/ j = Depth
      BY <1>1, <1>5, <1>7, <2>1
    <3> QED BY <1>2, <1>5, <1>12, <2>1, <3>2, <3>3 DEF Requests, Notifying, Top
  <2>3. i = p /\ t[i].at = "direct" /\ t[i].type = "dispatch"
    BY <1>1, <1>7, <1>8, <1>9, <1>12 DEF Same
  <2>4. \A j \in i + 1..Len(t) : j = m
    BY <1>1, <1>5, <1>7, <2>3
  <2> QED BY <1>10, <2>2, <2>3, <2>4 DEF Settled
<1>13. CASE stack[p].at = "sync"
  <2>1. buffer \in 1..p /\ stack[buffer].at \in Requests /\ i = buffer /\ stack[buffer].type = "dispatch"
    BY <1>9, <1>13
  <2>2. buffer \in 1..Depth /\ buffer < p
    <3>1. buffer # p
      BY <1>13, <2>1 DEF Requests
    <3> QED BY <1>1, <1>7, <2>1, <3>1
  <2>3. p = buffer + 1
    BY <1>7, <1>11, <1>13, <2>1, <2>2, StoredDispatch
  <2>4. t[i].at \in Requests /\ t[i].type = "dispatch"
    BY <1>1, <2>1 DEF Same
  <2>5. t[p].at = "sync" /\ p \in 1..Len(t)
    BY <1>1, <1>7, <1>13 DEF Same
  <2>6. \A j \in i + 1..Len(t) : j = m \/ j = p
    BY <1>1, <1>5, <1>7, <2>1, <2>3
  <2>7. Resting(t[p])
    BY <2>5 DEF Resting, Entries
  <2> QED BY <1>10, <2>1, <2>4, <2>5, <2>6, <2>7 DEF Settled, Syncs
<1> QED BY <1>8, <1>12, <1>13

\* While a success is about, no step touches the dispatcher's lists.
LEMMA ReportingQuiet ==
  ASSUME TypedStack, Control, Reported(stack, buffer), Reports(stack), Effected
  PROVE  LeavesLists
<1>1. PICK i \in 1..Depth : stack[i].reply = "success"
  BY DEF Reports
<1>2. Settled(stack, buffer, i)
  BY <1>1 DEF Reported
<1>3. CASE i = Depth
  <2>1. Top.at \in Requests \cup {"direct", "answered", "again", "notified"}
    BY <1>2, <1>3 DEF Settled, Top
  <2> QED BY <2>1 DEF Effected, Requests
<1>4. CASE i # Depth
  <2>1. Depth \in i + 1..Depth
    BY <1>4, ControlFacts
  <2>2. Resting(Top)
    BY <1>2, <2>1 DEF Settled, Top
  <2> QED BY <2>2 DEF Effected, Resting, Entries, Walks
<1> QED BY <1>3, <1>4

LEMMA CompleteStays ==
  ASSUME Complete, LeavesLists
  PROVE  Complete'
BY DEF Complete, LeavesLists, Hopeless, SmmIsSchedulable, Readable

LEMMA EndsComplete ==
  ASSUME Accounted, DispatcherEnds
  PROVE  Complete'
<1>1. /\ scheduled = <<>> /\ scheduled' = scheduled /\ discovered' = discovered
      /\ dependent' = dependent \cup Reread /\ unread' = unread \ Reread
      /\ initialized' = initialized /\ ready' = ready /\ running' = FALSE
      /\ \A d \in dependent \cup Reread : d \in ToSet(discovered) => ~SmmIsSchedulable(d)
  BY DEF DispatcherEnds, world
<1>2. ToSet(scheduled) = {}
  BY <1>1 DEF ToSet
<1>3. /\ \A d : SmmIsSchedulable(d)' <=> SmmIsSchedulable(d)
      /\ \A d : Readable(d)' <=> Readable(d)
  BY <1>1 DEF SmmIsSchedulable, Readable
<1>4. ASSUME NEW d \in ToSet(discovered), d \notin initialized
      PROVE  Hopeless(d)'
  <2>1. d \in dependent \cup unread
    BY <1>2, <1>4 DEF Accounted
  <2>2. CASE d \in dependent \cup Reread
    BY <1>1, <1>3, <1>4, <2>2 DEF Hopeless
  <2>3. CASE d \notin dependent \cup Reread
    BY <1>1, <1>3, <2>1, <2>3 DEF Hopeless, Reread
  <2> QED BY <2>2, <2>3
<1>5. \A d \in ToSet(discovered)' : d \notin initialized' => Hopeless(d)'
  BY <1>1, <1>4
<1> QED BY <1>1, <1>5 DEF Complete

\* One frame that tells of a success.
LEMMA ReportedFrame ==
  ASSUME CoreAssumption, IInv, WalksHold, ReportsHold, Effected, NEW t, NEW b, t = stack',
         b = buffer', Follows(t, b), Conveys(t, b), \A j \in 1..Len(t) : t[j].at # "astray",
         b = buffer \/ Top.at = "communicate" \/ b = 0, Top.at = "sync" => b = 0,
         NEW i \in 1..Len(t), t[i].reply = "success"
  PROVE  Settled(t, b, i) /\ Complete'
<1>1. /\ DataOK /\ TypedStack /\ Control /\ Pending(stack, buffer, size) /\ Requested
      /\ Unhurried(stack) /\ Standing(stack, handlers)
      /\ UserTypes \cap (CoreTypes \cup {"root"}) = {}
  BY DEF IInv, WalksHold, Walked, Requested, Asked, CoreAssumption
<1>2. /\ Accounted /\ Reported(stack, buffer) /\ (Reports(stack) => Complete)
  BY DEF ReportsHold
<1>3. /\ Depth \in Nat \ {0} /\ Depth \in 1..Depth /\ Len(t) \in Nat
      /\ Len(t) \in {Depth - 1, Depth, Depth + 1}
      /\ \A k \in 1..Depth - 1 : k \in 1..Depth
      /\ \A k \in 1..Len(t) : (k \in 1..Depth - 1 \/ (k = Depth /\ Len(t) >= Depth)
                               \/ (k = Depth + 1 /\ Len(t) = Depth + 1))
  BY <1>1, FollowFacts
<1>4. Reports(stack) => Complete'
  BY <1>1, <1>2, ReportingQuiet, CompleteStays
<1>5. CASE i \in 1..Depth - 1
  <2>1. Hears(t, i)
    BY <1>5 DEF Follows, Moved
  <2>2. CASE t[i].reply = stack[i].reply
    <3>1. Settled(stack, buffer, i) /\ Reports(stack)
      BY <1>2, <1>3, <1>5, <2>2 DEF Reported, Reports
    <3> QED BY <1>1, <1>4, <1>5, <3>1, SettledBelow
  <2>3. CASE Top.at = "answered" /\ i = Depth - 1 /\ Len(t) = Depth - 1 /\ t[i].reply = Top.reply
    <3>1. Settled(stack, buffer, Depth) /\ Reports(stack)
      BY <1>2, <1>3, <2>3 DEF Reported, Reports, Top
    <3> QED BY <1>1, <1>4, <2>3, <3>1, SettledPassed
  <2>4. CASE Top.at \in HandlerLabels /\ i = Top.up /\ i # Depth - 1 /\ Len(t) = Depth - 1
             /\ DispatcherEnds
    <3>1. Top.at = "drain" /\ HandlerReturns("success", "success") /\ buffer' = buffer
      BY <2>4 DEF DispatcherEnds, At, private
    <3>2. "success" \in Statuses /\ "success" \in Replies /\ Depth > 1
      BY <1>1, <3>1, ControlFacts DEF Statuses, Replies
    <3>3. t[Depth - 1].ret = "success"
      BY <1>1, <3>1, <3>2, HandlerTells
    <3>4. b = buffer
      BY <3>1
    <3>5. Follows(t, buffer)
      BY <3>4
    <3>6. Settled(t, buffer, i)
      BY <1>1, <1>5, <2>4, <3>1, <3>3, <3>5, SettledEnds
    <3>7. Complete'
      BY <1>2, <2>4, EndsComplete
    <3> QED BY <3>4, <3>6, <3>7
  <2> QED BY <2>1, <2>2, <2>3, <2>4 DEF Hears
<1>6. CASE i = Depth /\ Len(t) >= Depth
  <2>1. Turned(Top, t[i])
    <3>1. Len(t) # Depth - 1
      BY <1>3, <1>6
    <3> QED BY <1>6, <3>1 DEF Follows, Moved
  <2>2. Top.reply = "success"
    BY <2>1 DEF Turned
  <2>3. Settled(stack, buffer, Depth) /\ Reports(stack)
    BY <1>2, <1>3, <2>2 DEF Reported, Reports, Top
  <2> QED BY <1>1, <1>4, <1>6, <2>3, SettledTop
<1>7. CASE i = Depth + 1 /\ Len(t) = Depth + 1
  BY <1>7 DEF Follows, Moved, Pushed
<1> QED BY <1>3, <1>5, <1>6, <1>7

LEMMA StoredAfter ==
  ASSUME Known, Effected
  PROVE  \/ buffer' = buffer
         \/ Moved(stack') /\ (Top.at = "communicate" \/ buffer' = 0)
<1>1. CASE Top.at = "communicate"
  BY <1>1, PutBufferMoves, RefuseMoves, DirectMoves, OutsideMoves DEF Effected
<1>2. CASE Top.at = "sync" /\ buffer' = 0
  BY <1>2, SyncEndsMoves, OutsideMoves DEF Effected
<1> QED BY <1>1, <1>2 DEF Effected

LEMMA ReportsStep ==
  ASSUME CoreAssumption, IInv, IInv', WalksHold, WalksHold', ReportsHold, Next
  PROVE  ReportsHold'
<1>1. /\ DataOK /\ DataOK' /\ TypedStack /\ Control /\ Known
      /\ Accounted /\ Reported(stack, buffer) /\ (Reports(stack) => Complete)
  BY DEF IInv, ReportsHold, TypedStack, Known
<1>2. Effected
  BY Effects
<1>3. Accounted'
  BY <1>1, AccountedStep
<1>4. CASE Moved(stack')
  <2>1. PICK t : t = stack'
    OBVIOUS
  <2>2. PICK b : b = buffer'
    OBVIOUS
  <2>3. Follows(stack', b) /\ stack' \in Seq(Frames)
    BY <1>4, <2>2 DEF IInv, Control, Controlled, Structure, Follows, TypedStack
  <2>4. Follows(t, b) /\ Conveys(t, b)
    BY <1>2, <2>1, <2>2, <2>3, ConveysStep
  <2>5. \A j \in 1..Len(t) : t[j].at # "astray"
    BY <2>1 DEF WalksHold, Walked, Standing, Stands
  <2>6. b = buffer \/ Top.at = "communicate" \/ b = 0
    BY <1>1, <1>2, <2>2, StoredAfter
  <2>7. Top.at = "sync" => b = 0
    <3>1. Top.at = "sync" => ~Smi
      BY <1>1, SmiOutside DEF Entries
    <3> QED BY <1>2, <2>2, <3>1 DEF Effected, SyncEnds
  <2>8. ASSUME NEW i \in 1..Len(t), t[i].reply = "success"
        PROVE  Settled(t, b, i) /\ Complete'
    BY <1>2, <2>1, <2>2, <2>4, <2>5, <2>6, <2>7, <2>8, ReportedFrame
  <2>9. Reported(t, b) /\ (Reports(t) => Complete')
    BY <2>8 DEF Reported, Reports
  <2> QED BY <1>3, <2>1, <2>2, <2>9 DEF ReportsHold
<1>5. CASE stack' = stack /\ ~Moved(stack')
  <2>1. buffer' = buffer
    BY <1>1, <1>2, <1>5, StoredAfter
  <2>2. Reports(stack) => Complete'
    BY <1>1, <1>2, ReportingQuiet, CompleteStays
  <2> QED BY <1>1, <1>3, <1>5, <2>1, <2>2 DEF ReportsHold
<1> QED BY <1>4, <1>5, Moves

LEMMA ReportsInit ==
  ASSUME Init
  PROVE  ReportsHold
<1>1. PICK c : c = Frame("dxe", NoType)
  OBVIOUS
<1>2. c.reply = "clear"
  BY <1>1 DEF Frame
<1>3. stack = <<c>>
  BY <1>1 DEF Init
<1>4. \A i \in 1..Len(stack) : stack[i].reply # "success"
  BY <1>2, <1>3
<1>5. Accounted
  <2>1. ToSet(discovered) = {}
    BY DEF Init, ToSet
  <2> QED BY <2>1 DEF Accounted
<1> QED BY <1>4, <1>5 DEF ReportsHold, Reported, Reports

\* From the time the dispatcher reports success until the notification function that
\* called it has looked at the answer, nobody adds a volume's drivers to its lists or
\* installs a protocol (SmmDispatcher, SmmIplDxeDispatchEventNotify).
THEOREM ReportsInvariance == Spec => []ReportsHold
<1>1. Init => ReportsHold
  BY ReportsInit
<1>2. IInv /\ IInv' /\ WalksHold /\ WalksHold' /\ ReportsHold /\ [Next]_vars => ReportsHold'
  <2> SUFFICES ASSUME IInv, IInv', WalksHold, WalksHold', ReportsHold, [Next]_vars
               PROVE  ReportsHold'
    OBVIOUS
  <2>1. CASE Next
    BY <2>1, CoreAssumption, ReportsStep
  <2>2. CASE UNCHANGED vars
    <3>1. UNCHANGED <<stack, buffer, discovered, dependent, initialized, unread, scheduled,
                      running, ready>>
      BY <2>2 DEF vars, private, world, lists
    <3>2. Complete => Complete'
      BY <3>1, CompleteStays DEF LeavesLists
    <3> QED BY <3>1, <3>2 DEF ReportsHold, Accounted
  <2> QED BY <2>1, <2>2
<1> QED BY <1>1, <1>2, Invariance, WalksInvariance, PTL DEF Spec

\* Of the drivers that have been discovered none is left that could be started, or whose
\* expression could be read, when SmmIplDxeDispatchEventNotify reads the answer "success":
\* what SmmDispatcher has found when it writes it is still true.  (Volumes that the loop
\* of SmmDriverDispatchHandler passes over are not discovered; DispatchedAllItCould, which
\* counts them too, does not hold.)
THEOREM SuccessMeansAllCorrect == Spec => []SuccessMeansAll
<1>1. IInv /\ ReportsHold => SuccessMeansAll
  <2> SUFFICES ASSUME IInv, ReportsHold, At("again"), Top.reply = "success"
               PROVE  SuccessMeansAll
    BY DEF SuccessMeansAll
  <2>1. Depth \in 1..Depth
    BY ControlFacts DEF IInv
  <2>2. Reports(stack)
    BY <2>1 DEF Reports, Top
  <2> QED BY <2>2 DEF ReportsHold, Complete, SuccessMeansAll
<1> QED BY <1>1, Invariance, ReportsInvariance, PTL

-----------------------------------------------------------------------------
(* The order of the drivers.  Sequences first: which elements they have, that *)
(* none is there twice and which of two comes first.                          *)

Precedes(s, x, y) == \E i, j \in 1..Len(s) : i < j /\ s[i] = x /\ s[j] = y

LEMMA Joined ==
  ASSUME NEW S, NEW s \in Seq(S), NEW u \in Seq(S)
  PROVE  /\ s \o u \in Seq(S) /\ ToSet(s \o u) = ToSet(s) \cup ToSet(u)
         /\ Len(s) \in Nat /\ Len(u) \in Nat /\ Len(s \o u) = Len(s) + Len(u)
         /\ DOMAIN (s \o u) = 1..Len(s \o u) /\ DOMAIN s = 1..Len(s) /\ DOMAIN u = 1..Len(u)
         /\ \A i \in 1..Len(s) : i \in 1..Len(s \o u) /\ (s \o u)[i] = s[i]
         /\ \A i \in 1..Len(u) : Len(s) + i \in 1..Len(s \o u) /\ (s \o u)[Len(s) + i] = u[i]
         /\ \A i \in 1..Len(s \o u) : i \in 1..Len(s) \/ \E k \in 1..Len(u) : i = Len(s) + k
<1>1. s \o u \in Seq(S) /\ Len(s \o u) = Len(s) + Len(u) /\ Len(s) \in Nat /\ Len(u) \in Nat
  OBVIOUS
<1>2. \A i \in 1..Len(s) + Len(u) : (s \o u)[i] = IF i <= Len(s) THEN s[i] ELSE u[i - Len(s)]
  BY <1>1
<1>3. \A i \in 1..Len(s) : i \in 1..Len(s) + Len(u) /\ (s \o u)[i] = s[i]
  BY <1>1, <1>2
<1>4. ASSUME NEW i \in 1..Len(u)
      PROVE  Len(s) + i \in 1..Len(s) + Len(u) /\ (s \o u)[Len(s) + i] = u[i]
  <2>1. PICK k : k = Len(s) + i
    OBVIOUS
  <2>2. k \in 1..Len(s) + Len(u) /\ ~(k <= Len(s)) /\ k - Len(s) = i
    BY <1>1, <2>1
  <2>3. (s \o u)[k] = u[i]
    BY <1>2, <2>2
  <2> QED BY <2>1, <2>2, <2>3
<1>5. ASSUME NEW i \in 1..Len(s) + Len(u), i \notin 1..Len(s)
      PROVE  \E k \in 1..Len(u) : i = Len(s) + k
  <2>1. i - Len(s) \in 1..Len(u) /\ i = Len(s) + (i - Len(s))
    BY <1>1, <1>5
  <2> QED BY <2>1
<1> QED BY <1>1, <1>3, <1>4, <1>5, JoinedSet

LEMMA JoinedOrder ==
  ASSUME NEW S, NEW s \in Seq(S), NEW u \in Seq(S)
  PROVE  /\ \A x, y : Precedes(s, x, y) \/ Precedes(u, x, y) => Precedes(s \o u, x, y)
         /\ \A x \in ToSet(s), y \in ToSet(u) : Precedes(s \o u, x, y)
<1>1. PICK t : t = s \o u
  OBVIOUS
<1>2. /\ Len(s) \in Nat /\ Len(u) \in Nat
      /\ DOMAIN s = 1..Len(s) /\ DOMAIN u = 1..Len(u)
      /\ \A i \in 1..Len(s) : i \in 1..Len(t) /\ t[i] = s[i]
      /\ \A i \in 1..Len(u) : Len(s) + i \in 1..Len(t) /\ t[Len(s) + i] = u[i]
  BY <1>1, Joined
<1>3. ASSUME NEW x, NEW y, Precedes(s, x, y)
      PROVE  Precedes(t, x, y)
  <2>1. PICK i, j \in 1..Len(s) : i < j /\ s[i] = x /\ s[j] = y
    BY <1>3 DEF Precedes
  <2> QED BY <1>2, <2>1 DEF Precedes
<1>4. ASSUME NEW x, NEW y, Precedes(u, x, y)
      PROVE  Precedes(t, x, y)
  <2>1. PICK i, j \in 1..Len(u) : i < j /\ u[i] = x /\ u[j] = y
    BY <1>4 DEF Precedes
  <2>2. Len(s) + i < Len(s) + j
    BY <1>2, <2>1
  <2>3. Len(s) + i \in 1..Len(t) /\ Len(s) + j \in 1..Len(t)
        /\ t[Len(s) + i] = x /\ t[Len(s) + j] = y
    BY <1>2, <2>1
  <2> QED BY <2>2, <2>3 DEF Precedes
<1>5. ASSUME NEW x \in ToSet(s), NEW y \in ToSet(u)
      PROVE  Precedes(t, x, y)
  <2>1. PICK i \in 1..Len(s) : s[i] = x
    BY <1>2 DEF ToSet
  <2>2. PICK j \in 1..Len(u) : u[j] = y
    BY <1>2 DEF ToSet
  <2>3. i < Len(s) + j
    BY <1>2
  <2>4. i \in 1..Len(t) /\ Len(s) + j \in 1..Len(t) /\ t[i] = x /\ t[Len(s) + j] = y
    BY <1>2, <2>1, <2>2
  <2> QED BY <2>3, <2>4 DEF Precedes
<1> QED BY <1>1, <1>3, <1>4, <1>5

LEMMA JoinedOnce ==
  ASSUME NEW S, NEW s \in Seq(S), NEW u \in Seq(S), IsInjective(s), IsInjective(u),
         ToSet(s) \cap ToSet(u) = {}
  PROVE  IsInjective(s \o u)
<1>1. PICK t : t = s \o u
  OBVIOUS
<1>2. /\ Len(s) \in Nat /\ Len(u) \in Nat /\ DOMAIN t = 1..Len(t)
      /\ DOMAIN s = 1..Len(s) /\ DOMAIN u = 1..Len(u)
      /\ \A i \in 1..Len(s) : i \in 1..Len(t) /\ t[i] = s[i]
      /\ \A i \in 1..Len(u) : Len(s) + i \in 1..Len(t) /\ t[Len(s) + i] = u[i]
      /\ \A i \in 1..Len(t) : i \in 1..Len(s) \/ \E k \in 1..Len(u) : i = Len(s) + k
  BY <1>1, Joined
<1>3. ASSUME NEW i \in 1..Len(s), NEW j \in 1..Len(t), t[i] = t[j]
      PROVE  i = j
  <2>1. CASE j \in 1..Len(s)
    BY <1>2, <1>3, <2>1 DEF IsInjective
  <2>2. CASE \E k \in 1..Len(u) : j = Len(s) + k
    <3>1. PICK k \in 1..Len(u) : j = Len(s) + k
      BY <2>2
    <3>2. s[i] = u[k]
      BY <1>2, <1>3, <3>1
    <3>3. s[i] \in ToSet(s) /\ u[k] \in ToSet(u)
      BY <1>2 DEF ToSet
    <3> QED BY <3>2, <3>3
  <2> QED BY <1>2, <2>1, <2>2
<1>4. ASSUME NEW i \in 1..Len(u), NEW j \in 1..Len(u), t[Len(s) + i] = t[Len(s) + j]
      PROVE  i = j
  <2>1. u[i] = u[j]
    BY <1>2, <1>4
  <2> QED BY <1>2, <2>1 DEF IsInjective
<1>5. ASSUME NEW i \in 1..Len(t), NEW j \in 1..Len(t), t[i] = t[j]
      PROVE  i = j
  <2>1. CASE i \in 1..Len(s)
    BY <1>3, <1>5, <2>1
  <2>2. CASE j \in 1..Len(s)
    <3>1. j = i
      BY <1>3, <1>5, <2>2
    <3> QED BY <3>1
  <2>3. CASE i \notin 1..Len(s) /\ j \notin 1..Len(s)
    <3>1. PICK k \in 1..Len(u) : i = Len(s) + k
      BY <1>2, <2>3
    <3>2. PICK l \in 1..Len(u) : j = Len(s) + l
      BY <1>2, <2>3
    <3>3. k = l
      BY <1>4, <1>5, <3>1, <3>2
    <3> QED BY <3>1, <3>2, <3>3
  <2> QED BY <2>1, <2>2, <2>3
<1> QED BY <1>1, <1>2, <1>5 DEF IsInjective

\* What FlattenSeq keeps of its parts, and in which order.
Apart(s) ==
  /\ \A i \in 1..Len(s) : IsInjective(s[i])
  /\ \A i, j \in 1..Len(s) : i # j => ToSet(s[i]) \cap ToSet(s[j]) = {}

LEMMA FlattenKeeps ==
  ASSUME NEW S, NEW s \in Seq(Seq(S))
  PROVE  /\ FlattenSeq(s) \in Seq(S)
         /\ ToSet(FlattenSeq(s)) = UNION {ToSet(s[i]) : i \in 1..Len(s)}
         /\ \A i \in 1..Len(s) : \A x, y :
              Precedes(s[i], x, y) => Precedes(FlattenSeq(s), x, y)
         /\ Apart(s) => IsInjective(FlattenSeq(s))
<1> DEFINE U(n) == UNION {ToSet(s[i]) : i \in 1..n}
           Kept(f, n) == /\ f \in Seq(S) /\ ToSet(f) = U(n)
                         /\ \A i \in 1..n : \A x, y : Precedes(s[i], x, y) => Precedes(f, x, y)
                         /\ Apart(s) => IsInjective(f)
<1>0. Len(s) \in Nat /\ \A i \in 1..Len(s) : s[i] \in Seq(S)
  OBVIOUS
<1>1. CASE Len(s) = 0
  <2>1. s = <<>> /\ FlattenSeq(s) = <<>>
    BY <1>1 DEF FlattenSeq
  <2>2. ToSet(<<>>) = {} /\ IsInjective(<<>>) /\ <<>> \in Seq(S)
    BY DEF ToSet, IsInjective
  <2>3. \A i \in 1..Len(s) : FALSE
    BY <1>1
  <2> QED BY <2>1, <2>2, <2>3
<1>2. CASE Len(s) # 0
  <2>1. PICK g : Flattens(g, s, Len(s)) /\ FlattenSeq(s) = g[Len(s)]
    BY <1>2, FlattenPlaces
  <2> DEFINE T == {k \in Nat : k + 1 =< Len(s) => Kept(g[k + 1], k + 1)}
  <2>2. 0 \in T
    <3>1. g[1] = s[1] /\ s[1] \in Seq(S) /\ 1 \in 1..Len(s)
      BY <1>0, <1>2, <2>1 DEF Flattens
    <3>2. 0 + 1 = 1 /\ \A i \in 1..1 : i = 1
      OBVIOUS
    <3>3. Kept(g[1], 1)
      BY <3>1, <3>2 DEF Apart
    <3> QED BY <3>2, <3>3
  <2>3. ASSUME NEW k \in T
        PROVE  k + 1 \in T
    <3>1. SUFFICES ASSUME k + 2 =< Len(s)
                   PROVE  Kept(g[k + 2], k + 2)
      OBVIOUS
    <3>2. k + 2 \in 2..Len(s) /\ (k + 2) - 1 = k + 1 /\ k + 1 =< Len(s) /\ k + 2 \in 1..Len(s)
      BY <1>0, <3>1
    <3>3. PICK f, p : f = g[k + 1] /\ p = s[k + 2]
      OBVIOUS
    <3>4. g[k + 2] = f \o p /\ p \in Seq(S)
      BY <1>0, <2>1, <3>2, <3>3 DEF Flattens
    <3>5. Kept(f, k + 1)
      BY <3>2, <3>3
    <3>6. \A i \in 1..k + 2 : i \in 1..k + 1 \/ i = k + 2
      BY <3>2
    <3>7. f \o p \in Seq(S) /\ ToSet(f \o p) = U(k + 2)
      <4>1. f \o p \in Seq(S) /\ ToSet(f \o p) = U(k + 1) \cup ToSet(s[k + 2])
        BY <3>3, <3>4, <3>5, Joined
      <4>2. U(k + 2) = U(k + 1) \cup ToSet(s[k + 2])
        <5>1. k + 2 \in 1..k + 2 /\ \A i \in 1..k + 1 : i \in 1..k + 2
          BY <3>2
        <5> QED BY <3>6, <5>1
      <4> QED BY <4>1, <4>2
    <3>8. ASSUME NEW i \in 1..k + 2, NEW x, NEW y, Precedes(s[i], x, y)
          PROVE  Precedes(f \o p, x, y)
      <4>1. CASE i \in 1..k + 1
        <5>1. Precedes(f, x, y)
          BY <3>5, <3>8, <4>1
        <5> QED BY <3>4, <3>5, <5>1, JoinedOrder
      <4>2. CASE i = k + 2
        BY <3>3, <3>4, <3>5, <3>8, <4>2, JoinedOrder
      <4> QED BY <3>6, <4>1, <4>2
    <3>9. ASSUME Apart(s)
          PROVE  IsInjective(f \o p)
      <4>1. IsInjective(f) /\ IsInjective(p)
        BY <3>2, <3>3, <3>5, <3>9 DEF Apart
      <4>2. \A i \in 1..k + 1 : i \in 1..Len(s) /\ i # k + 2
        BY <1>0, <3>2
      <4>3. \A i \in 1..k + 1 : ToSet(s[i]) \cap ToSet(s[k + 2]) = {}
        BY <3>2, <3>9, <4>2 DEF Apart
      <4>4. ToSet(f) \cap ToSet(p) = {}
        BY <3>3, <3>5, <4>3
      <4> QED BY <3>4, <3>5, <4>1, <4>4, JoinedOnce
    <3> QED BY <3>4, <3>7, <3>8, <3>9
  <2> HIDE DEF Kept
  <2>4. T = Nat
    <3> HIDE DEF T
    <3>1. T \in SUBSET Nat
      BY DEF T
    <3> QED BY <2>2, <2>3, <3>1, SetInduction
  <2>5. Len(s) - 1 \in Nat /\ (Len(s) - 1) + 1 = Len(s)
    BY <1>2
  <2>6. Len(s) - 1 \in T
    <3> HIDE DEF T
    <3> QED BY <2>4, <2>5
  <2>7. Kept(FlattenSeq(s), Len(s))
    BY <2>1, <2>5, <2>6
  <2> QED BY <2>7 DEF Kept
<1> QED BY <1>1, <1>2

LEMMA StrungKeeps ==
  ASSUME NEW S, NEW R, NEW s \in Seq(R), NEW h, \A x \in ToSet(s) : h[x] \in Seq(S)
  PROVE  /\ Strung(h, s) \in Seq(S)
         /\ ToSet(Strung(h, s)) = UNION {ToSet(h[x]) : x \in ToSet(s)}
         /\ \A x \in ToSet(s) : \A y, z :
              Precedes(h[x], y, z) => Precedes(Strung(h, s), y, z)
         /\ IsInjective(s) /\ (\A x \in ToSet(s) : IsInjective(h[x]))
            /\ (\A x, y \in ToSet(s) : x # y => ToSet(h[x]) \cap ToSet(h[y]) = {})
            => IsInjective(Strung(h, s))
<1>1. PICK u : u = [i \in DOMAIN s |-> h[s[i]]]
  OBVIOUS
<1>2. Len(s) \in Nat /\ DOMAIN s = 1..Len(s)
  OBVIOUS
<1>3. \A i \in 1..Len(s) : s[i] \in ToSet(s)
  BY <1>2 DEF ToSet
<1>4. \A x \in ToSet(s) : \E i \in 1..Len(s) : s[i] = x
  BY <1>2 DEF ToSet
<1>5. u \in Seq(Seq(S)) /\ Len(u) = Len(s) /\ \A i \in 1..Len(s) : u[i] = h[s[i]]
  <2>1. u = [i \in 1..Len(s) |-> h[s[i]]]
    BY <1>1, <1>2
  <2>2. \A i \in 1..Len(s) : h[s[i]] \in Seq(S)
    BY <1>3
  <2>3. u \in Seq(Seq(S))
    BY <1>2, <2>1, <2>2, IsASeq
  <2>4. DOMAIN u = 1..Len(s)
    BY <2>1
  <2>5. Len(u) = Len(s)
    BY <1>2, <2>3, <2>4
  <2> QED BY <2>1, <2>3, <2>5
<1>6. Strung(h, s) = FlattenSeq(u)
  BY <1>1 DEF Strung
<1>7. PICK f : f = Strung(h, s)
  OBVIOUS
<1>8. /\ f \in Seq(S) /\ ToSet(f) = UNION {ToSet(u[i]) : i \in 1..Len(s)}
      /\ \A i \in 1..Len(s) : \A x, y : Precedes(u[i], x, y) => Precedes(f, x, y)
      /\ Apart(u) => IsInjective(f)
  BY <1>5, <1>6, <1>7, FlattenKeeps
<1>9. ToSet(f) = UNION {ToSet(h[x]) : x \in ToSet(s)}
  BY <1>3, <1>4, <1>5, <1>8
<1>10. \A x \in ToSet(s) : \A y, z : Precedes(h[x], y, z) => Precedes(f, y, z)
  BY <1>4, <1>5, <1>8
<1>11. ASSUME IsInjective(s), \A x \in ToSet(s) : IsInjective(h[x]),
              \A x, y \in ToSet(s) : x # y => ToSet(h[x]) \cap ToSet(h[y]) = {}
       PROVE  IsInjective(f)
  <2>1. ASSUME NEW i \in 1..Len(s), NEW j \in 1..Len(s), i # j
        PROVE  ToSet(u[i]) \cap ToSet(u[j]) = {}
    <3>1. s[i] # s[j]
      BY <1>2, <1>11, <2>1 DEF IsInjective
    <3>2. s[i] \in ToSet(s) /\ s[j] \in ToSet(s) /\ u[i] = h[s[i]] /\ u[j] = h[s[j]]
      BY <1>3, <1>5
    <3> QED BY <1>11, <3>1, <3>2
  <2>2. \A i \in 1..Len(s) : IsInjective(u[i])
    BY <1>3, <1>5, <1>11
  <2>3. Apart(u)
    BY <1>5, <2>1, <2>2 DEF Apart
  <2> QED BY <1>8, <2>3
<1> QED BY <1>7, <1>8, <1>9, <1>10, <1>11

LEMMA OnlyKeeps ==
  ASSUME NEW S, NEW s \in Seq(S), NEW T
  PROVE  /\ Only(s, T) \in Seq(S) /\ ToSet(Only(s, T)) = ToSet(s) \cap T
         /\ IsInjective(s) => IsInjective(Only(s, T))
<1>1. PICK u : u = [p \in DOMAIN s |-> IF s[p] \in T THEN <<s[p]>> ELSE <<>>]
  OBVIOUS
<1>2. Len(s) \in Nat /\ DOMAIN s = 1..Len(s) /\ \A i \in 1..Len(s) : s[i] \in S
  OBVIOUS
<1>3. \A x : IsInjective(<<x>>) /\ ToSet(<<x>>) = {x}
  BY DEF IsInjective, ToSet
<1>4. IsInjective(<<>>) /\ ToSet(<<>>) = {}
  BY DEF IsInjective, ToSet
<1>5. u = [p \in 1..Len(s) |-> IF s[p] \in T THEN <<s[p]>> ELSE <<>>]
  BY <1>1, <1>2
<1>6. \A i \in 1..Len(s) :
        /\ u[i] \in Seq(S) /\ IsInjective(u[i])
        /\ ToSet(u[i]) = IF s[i] \in T THEN {s[i]} ELSE {}
  <2> SUFFICES ASSUME NEW i \in 1..Len(s)
               PROVE  /\ u[i] \in Seq(S) /\ IsInjective(u[i])
                      /\ ToSet(u[i]) = IF s[i] \in T THEN {s[i]} ELSE {}
    OBVIOUS
  <2>1. CASE s[i] \in T
    <3>1. u[i] = <<s[i]>> /\ <<s[i]>> \in Seq(S)
      BY <1>2, <1>5, <2>1
    <3> QED BY <1>3, <2>1, <3>1
  <2>2. CASE s[i] \notin T
    <3>1. u[i] = <<>> /\ <<>> \in Seq(S)
      BY <1>5, <2>2
    <3> QED BY <1>4, <2>2, <3>1
  <2> QED BY <2>1, <2>2
<1>7. u \in Seq(Seq(S)) /\ Len(u) = Len(s)
  <2>1. u = [i \in 1..Len(s) |-> u[i]] /\ DOMAIN u = 1..Len(s)
    BY <1>5
  <2>2. u \in Seq(Seq(S))
    BY <1>2, <1>6, <2>1, IsASeq
  <2>3. Len(u) = Len(s)
    BY <1>2, <2>1, <2>2
  <2> QED BY <2>2, <2>3
<1>8. PICK f : f = Only(s, T)
  OBVIOUS
<1>9. f = FlattenSeq(u)
  BY <1>1, <1>8 DEF Only
<1>10. /\ f \in Seq(S) /\ ToSet(f) = UNION {ToSet(u[i]) : i \in 1..Len(s)}
       /\ Apart(u) => IsInjective(f)
  BY <1>7, <1>9, FlattenKeeps
<1>11. ToSet(f) = ToSet(s) \cap T
  <2>1. ASSUME NEW x \in ToSet(f)
        PROVE  x \in ToSet(s) \cap T
    <3>1. PICK i \in 1..Len(s) : x \in ToSet(u[i])
      BY <1>10
    <3>2. x = s[i] /\ s[i] \in T
      BY <1>6, <3>1
    <3> QED BY <1>2, <3>2 DEF ToSet
  <2>2. ASSUME NEW x \in ToSet(s) \cap T
        PROVE  x \in ToSet(f)
    <3>1. PICK i \in 1..Len(s) : x = s[i]
      BY <1>2 DEF ToSet
    <3>2. x \in ToSet(u[i])
      BY <1>6, <3>1
    <3> QED BY <1>10, <3>2
  <2> QED BY <2>1, <2>2
<1>12. ASSUME IsInjective(s)
       PROVE  Apart(u)
  <2>1. ASSUME NEW i \in 1..Len(s), NEW j \in 1..Len(s), i # j
        PROVE  ToSet(u[i]) \cap ToSet(u[j]) = {}
    <3>1. s[i] # s[j]
      BY <1>2, <1>12, <2>1 DEF IsInjective
    <3> QED BY <1>6, <3>1
  <2> QED BY <1>6, <1>7, <2>1 DEF Apart
<1> QED BY <1>8, <1>10, <1>11, <1>12

\* The drivers that a search schedules, by how many others they hang on.
Hangs(x) == IF Before[x] # NoDriver THEN Before[x] ELSE After[x]
Generations(D, g, n) ==
  /\ g[0] = {d \in D : SmmIsSchedulable(d)}
  /\ \A m \in 0..n - 1 : g[m + 1] = {x \in D : Hangs(x) \in g[m]}

LEMMA GenerationsExist ==
  ASSUME NEW D, NEW n \in Nat
  PROVE  \E g : Generations(D, g, n)
<1> DEFINE S == {m \in Nat : \E g : Generations(D, g, m)}
<1>1. 0 \in S
  <2>1. PICK g : g = [m \in 0..0 |-> {d \in D : SmmIsSchedulable(d)}]
    OBVIOUS
  <2>2. g[0] = {d \in D : SmmIsSchedulable(d)} /\ \A m \in 0..0 - 1 : FALSE
    BY <2>1
  <2> QED BY <2>2 DEF Generations
<1>2. ASSUME NEW k \in S
      PROVE  k + 1 \in S
  <2>1. PICK g : Generations(D, g, k)
    OBVIOUS
  <2>2. k \in Nat
    OBVIOUS
  <2>3. PICK h : h = [m \in 0..k + 1 |->
                        IF m \in 0..k THEN g[m] ELSE {x \in D : Hangs(x) \in g[k]}]
    OBVIOUS
  <2>4. /\ \A m \in 0..k : h[m] = g[m]
        /\ h[k + 1] = {x \in D : Hangs(x) \in g[k]}
    <3>1. k + 1 \in 0..k + 1 /\ k + 1 \notin 0..k /\ \A m \in 0..k : m \in 0..k + 1
      BY <2>2
    <3> QED BY <2>3, <3>1
  <2>5. ASSUME NEW m \in 0..(k + 1) - 1
        PROVE  h[m + 1] = {x \in D : Hangs(x) \in h[m]}
    <3>1. CASE m = k
      <4>1. k \in 0..k
        BY <2>2
      <4> QED BY <2>4, <3>1, <4>1
    <3>2. CASE m # k
      <4>1. m \in 0..k - 1 /\ m \in 0..k /\ m + 1 \in 0..k
        BY <2>2, <3>2
      <4>2. g[m + 1] = {x \in D : Hangs(x) \in g[m]}
        BY <2>1, <4>1 DEF Generations
      <4> QED BY <2>4, <4>1, <4>2
    <3> QED BY <3>1, <3>2
  <2>6. h[0] = {d \in D : SmmIsSchedulable(d)}
    <3>1. 0 \in 0..k
      BY <2>2
    <3> QED BY <2>1, <2>4, <3>1 DEF Generations
  <2>7. Generations(D, h, k + 1)
    BY <2>5, <2>6 DEF Generations
  <2>8. k + 1 \in Nat
    BY <2>2
  <2> QED BY <2>7, <2>8
<1>3. S = Nat
  <2> HIDE DEF S
  <2>1. S \in SUBSET Nat
    BY DEF S
  <2> QED BY <1>1, <1>2, <2>1, SetInduction
<1> QED BY <1>3

\* What the constants and the sets of the dispatcher say of them.
Hangable(D) ==
  /\ NoDriver \notin Drivers /\ D \subseteq Drivers
  /\ Before \in [Drivers -> Drivers \cup {NoDriver}]
  /\ After \in [Drivers -> Drivers \cup {NoDriver}]
  /\ \A d \in Drivers : Before[d] = NoDriver \/ After[d] = NoDriver

LEMMA GenerationFacts ==
  ASSUME NEW D, Hangable(D), NEW n \in Nat, NEW g, Generations(D, g, n)
  PROVE  /\ \A m \in 0..n : g[m] \subseteq D
         /\ \A x \in g[0] : Hangs(x) = NoDriver
         /\ \A m \in 0..n : m # 0 => m - 1 \in 0..n /\ \A x \in g[m] : Hangs(x) \in g[m - 1]
         /\ \A m \in 0..n : \A x \in g[m] :
              Hangs(x) = NoDriver => m = 0 /\ SmmIsSchedulable(x)
<1>1. \A x \in g[0] : x \in D /\ SmmIsSchedulable(x)
  BY DEF Generations
<1>2. ASSUME NEW m \in 0..n, m # 0
      PROVE  m - 1 \in 0..n /\ g[m] \subseteq D /\ \A x \in g[m] : Hangs(x) \in g[m - 1]
  <2>1. m - 1 \in 0..n - 1 /\ (m - 1) + 1 = m /\ m - 1 \in 0..n
    BY <1>2
  <2>2. g[(m - 1) + 1] = {x \in D : Hangs(x) \in g[m - 1]}
    BY <2>1 DEF Generations
  <2> QED BY <2>1, <2>2
<1>3. \A x \in g[0] : Hangs(x) = NoDriver
  BY <1>1 DEF SmmIsSchedulable, Hangs
<1>4. \A m \in 0..n : g[m] \subseteq D
  BY <1>1, <1>2
<1>5. ASSUME NEW m \in 0..n, NEW x \in g[m], Hangs(x) = NoDriver
      PROVE  m = 0 /\ SmmIsSchedulable(x)
  <2>1. m = 0
    <3>1. SUFFICES ASSUME m # 0 PROVE FALSE
      OBVIOUS
    <3>2. m - 1 \in 0..n /\ Hangs(x) \in g[m - 1]
      BY <1>2, <3>1
    <3> QED BY <1>4, <1>5, <3>2 DEF Hangable
  <2> QED BY <1>1, <2>1
<1> QED BY <1>2, <1>3, <1>4, <1>5

\* Nobody is in two generations.
LEMMA GenerationsApart ==
  ASSUME NEW D, Hangable(D), NEW n \in Nat, NEW g, Generations(D, g, n)
  PROVE  \A i, j \in 0..n : i # j => g[i] \cap g[j] = {}
<1> DEFINE S == {i \in Nat : \A j \in 0..n : i < j => g[i] \cap g[j] = {}}
<1>1. 0 \in S
  <2>1. ASSUME NEW j \in 0..n, 0 < j, NEW x \in g[0], x \in g[j]
        PROVE  FALSE
    <3>1. Hangs(x) = NoDriver
      BY GenerationFacts
    <3>2. j = 0
      BY <2>1, <3>1, GenerationFacts
    <3> QED BY <2>1, <3>2
  <2> QED BY <2>1
<1>2. ASSUME NEW i \in S
      PROVE  i + 1 \in S
  <2>1. i \in Nat
    OBVIOUS
  <2>2. ASSUME NEW j \in 0..n, i + 1 < j, NEW x \in g[i + 1], x \in g[j]
        PROVE  FALSE
    <3>1. i + 1 \in 0..n /\ i + 1 # 0 /\ (i + 1) - 1 = i /\ j # 0 /\ i < j - 1
      BY <2>1, <2>2
    <3>2. Hangs(x) \in g[i]
      <4>1. \A y \in g[i + 1] : Hangs(y) \in g[(i + 1) - 1]
        BY <3>1, GenerationFacts
      <4> QED BY <2>2, <3>1, <4>1
    <3>3. j - 1 \in 0..n /\ Hangs(x) \in g[j - 1]
      BY <2>2, <3>1, GenerationFacts
    <3> QED BY <3>1, <3>2, <3>3
  <2> QED BY <2>1, <2>2
<1>3. S = Nat
  <2> HIDE DEF S
  <2>1. S \in SUBSET Nat
    BY DEF S
  <2> QED BY <1>1, <1>2, <2>1, SetInduction
<1>4. \A i, j \in 0..n : i < j => g[i] \cap g[j] = {}
  <2>1. \A i \in 0..n : i \in S
    <3> HIDE DEF S
    <3> QED BY <1>3
  <2> QED BY <2>1
<1> QED BY <1>4

\* There are at most as many as there are drivers.
LEMMA GenerationsEnd ==
  ASSUME NEW D, Hangable(D), IsFiniteSet(Drivers), NEW g, Generations(D, g, Cardinality(Drivers))
  PROVE  g[Cardinality(Drivers)] = {}
<1>1. Cardinality(Drivers) \in Nat
  BY FS_CardinalityType
<1>2. PICK n \in Nat : n = Cardinality(Drivers)
  BY <1>1
<1>3. Generations(D, g, n)
  BY <1>2
<1> DEFINE Union(m) == UNION {g[i] : i \in 0..m}
           S == {m \in Nat : m =< n /\ g[m] # {} =>
                   \E u \in SUBSET Union(m) : IsFiniteSet(u) /\ Cardinality(u) = m + 1}
<1>4. 0 \in S
  <2>1. ASSUME NEW x \in g[0]
        PROVE  \E u \in SUBSET Union(0) : IsFiniteSet(u) /\ Cardinality(u) = 0 + 1
    <3>1. {x} \subseteq Union(0)
      <4>1. 0 \in 0..0
        OBVIOUS
      <4> QED BY <4>1
    <3>2. IsFiniteSet({x}) /\ Cardinality({x}) = 1
      BY FS_Singleton
    <3>3. 0 + 1 = 1
      OBVIOUS
    <3> QED BY <3>1, <3>2, <3>3
  <2> QED BY <2>1
<1>5. ASSUME NEW m \in S
      PROVE  m + 1 \in S
  <2>1. m \in Nat
    OBVIOUS
  <2>2. SUFFICES ASSUME m + 1 =< n, NEW y \in g[m + 1]
                 PROVE  \E u \in SUBSET Union(m + 1) :
                          IsFiniteSet(u) /\ Cardinality(u) = (m + 1) + 1
    BY <2>1
  <2>3. m + 1 \in 0..n /\ m + 1 # 0 /\ (m + 1) - 1 = m /\ m =< n
        /\ \A i \in 0..m : i \in 0..n /\ i # m + 1 /\ i \in 0..m + 1
    BY <2>1, <2>2
  <2>4. g[m] # {}
    <3>1. \A x \in g[m + 1] : Hangs(x) \in g[(m + 1) - 1]
      BY <1>3, <2>3, GenerationFacts
    <3> QED BY <2>2, <2>3, <3>1
  <2>5. PICK u \in SUBSET Union(m) : IsFiniteSet(u) /\ Cardinality(u) = m + 1
    BY <2>3, <2>4
  <2>6. y \notin u
    <3>1. \A i \in 0..m : y \notin g[i]
      <4>1. \A i \in 0..m : g[i] \cap g[m + 1] = {}
        BY <1>3, <2>3, GenerationsApart
      <4> QED BY <2>2, <4>1
    <3> QED BY <3>1
  <2>7. IsFiniteSet(u \cup {y}) /\ Cardinality(u \cup {y}) = (m + 1) + 1
    BY <2>5, <2>6, FS_AddElement
  <2>8. u \cup {y} \in SUBSET Union(m + 1)
    <3>1. m + 1 \in 0..m + 1
      BY <2>1
    <3>2. Union(m) \subseteq Union(m + 1) /\ y \in Union(m + 1)
      BY <2>2, <2>3, <3>1
    <3> QED BY <3>2
  <2> QED BY <2>7, <2>8
<1>6. S = Nat
  <2> HIDE DEF S
  <2>1. S \in SUBSET Nat
    BY DEF S
  <2> QED BY <1>4, <1>5, <2>1, SetInduction
<1>7. SUFFICES ASSUME g[n] # {} PROVE FALSE
  BY <1>2
<1>8. n \in S /\ n =< n
  <2> HIDE DEF S
  <2> QED BY <1>6
<1>9. PICK u \in SUBSET Union(n) : IsFiniteSet(u) /\ Cardinality(u) = n + 1
  BY <1>7, <1>8
<1>10. u \subseteq Drivers
  <2>1. \A i \in 0..n : g[i] \subseteq Drivers
    BY <1>3, GenerationFacts DEF Hangable
  <2> QED BY <2>1
<1>11. Cardinality(u) =< n
  BY <1>2, <1>10, FS_Subset
<1> QED BY <1>9, <1>11

\* What hangs on a driver of generation n - k, k levels deep.
Strings(D, s, g, n, k, d) ==
  /\ s \in Seq(Drivers) /\ IsInjective(s) /\ d \in ToSet(s)
  /\ \A x \in ToSet(s) : \E i \in n - k..n : x \in g[i]
  /\ \A x \in ToSet(s) : x # d /\ After[x] # NoDriver => Precedes(s, After[x], x)
  /\ \A x \in ToSet(s) : \A b \in D : Before[b] = x => Precedes(s, b, x)

\* All that is hung on the drivers of a generation, in sequences of their own.
AllStrings(D, h, g, n, k) ==
  /\ \A d \in g[n - k] : Strings(D, h[d], g, n, k, d)
  /\ \A c, d \in g[n - k] : c # d => ToSet(h[c]) \cap ToSet(h[d]) = {}

Comes(x, d, h, g, n, k) ==
  x = d \/ \E c \in g[n - k] : Hangs(c) = d /\ x \in ToSet(h[c])

Around(f, S, s, d, u) ==
  /\ f \in Seq(S) /\ ToSet(f) = ToSet(s) \cup {d} \cup ToSet(u) /\ IsInjective(f)
  /\ \A x, y : Precedes(s, x, y) \/ Precedes(u, x, y) => Precedes(f, x, y)
  /\ \A x \in ToSet(s) : Precedes(f, x, d)
  /\ \A x \in ToSet(u) : Precedes(f, d, x)

LEMMA AroundKeeps ==
  ASSUME NEW S, NEW s \in Seq(S), NEW d \in S, NEW u \in Seq(S),
         IsInjective(s), IsInjective(u), ToSet(s) \cap ToSet(u) = {},
         d \notin ToSet(s), d \notin ToSet(u), NEW f, f = s \o <<d>> \o u
  PROVE  Around(f, S, s, d, u)
<1>1. PICK c : c = <<d>>
  OBVIOUS
<1>2. c \in Seq(S) /\ ToSet(c) = {d} /\ IsInjective(c)
  BY <1>1 DEF ToSet, IsInjective
<1>3. PICK e : e = s \o c
  OBVIOUS
<1>4. f = e \o u
  BY <1>1, <1>3
<1>5. e \in Seq(S) /\ ToSet(e) = ToSet(s) \cup ToSet(c)
  BY ONLY <1>2, <1>3, s \in Seq(S), Joined
<1>6. IsInjective(e)
  BY <1>2, <1>3, JoinedOnce
<1>7. /\ \A x, y : Precedes(s, x, y) \/ Precedes(c, x, y) => Precedes(e, x, y)
      /\ \A x \in ToSet(s), y \in ToSet(c) : Precedes(e, x, y)
  BY ONLY <1>2, <1>3, s \in Seq(S), JoinedOrder
<1>8. f \in Seq(S) /\ ToSet(f) = ToSet(e) \cup ToSet(u)
  BY ONLY <1>4, <1>5, u \in Seq(S), Joined
<1>9. IsInjective(f)
  <2>1. ToSet(e) \cap ToSet(u) = {}
    BY <1>2, <1>5
  <2> QED BY <1>4, <1>5, <1>6, <2>1, JoinedOnce
<1>10. /\ \A x, y : Precedes(e, x, y) \/ Precedes(u, x, y) => Precedes(f, x, y)
       /\ \A x \in ToSet(e), y \in ToSet(u) : Precedes(f, x, y)
  BY ONLY <1>4, <1>5, u \in Seq(S), JoinedOrder
<1> QED BY <1>2, <1>5, <1>7, <1>8, <1>9, <1>10 DEF Around

\* One more level.
LEMMA StringsStep ==
  ASSUME NEW D, Hangable(D), discovered \in Seq(Drivers), IsInjective(discovered),
         D \subseteq ToSet(discovered),
         NEW n \in Nat, NEW g, Generations(D, g, n), NEW k \in Nat, k + 1 =< n, NEW h,
         AllStrings(D, h, g, n, k), NEW d \in g[n - (k + 1)], NEW f,
         f = Strung(h, Only(discovered, {b \in D : Before[b] = d})) \o <<d>>
             \o Strung(h, Only(discovered, {b \in D : After[b] = d}))
  PROVE  Strings(D, f, g, n, k + 1, d) /\ \A x \in ToSet(f) : Comes(x, d, h, g, n, k)
<1>0. /\ \A c \in g[n - k] : Strings(D, h[c], g, n, k, c)
      /\ \A c, e \in g[n - k] : c # e => ToSet(h[c]) \cap ToSet(h[e]) = {}
  BY DEF AllStrings
<1>1. PICK m : m = n - (k + 1)
  OBVIOUS
<1>2. m \in 0..n /\ n - k = m + 1 /\ m + 1 \in 0..n /\ m \in 0..n - 1
      /\ (\A i \in n - k..n : i \in m..n /\ i # m /\ i \in 0..n) /\ m \in m..n
  BY <1>1
<1>3. d \in g[m] /\ d \in D /\ d \in Drivers
  <2>1. \A i \in 0..n : g[i] \subseteq D
    BY GenerationFacts
  <2> QED BY <1>1, <1>2, <2>1 DEF Hangable
<1>4. g[m + 1] = {x \in D : Hangs(x) \in g[m]}
  BY <1>2 DEF Generations
<1>5. PICK B, A : B = {b \in D : Before[b] = d} /\ A = {b \in D : After[b] = d}
  OBVIOUS
<1>6. \A x \in B \cup A : x \in g[n - k] /\ Hangs(x) = d /\ x \in Drivers /\ x \in D
  <2>1. \A x \in B \cup A : x \in D /\ x \in Drivers /\ Hangs(x) = d
    BY <1>3, <1>5 DEF Hangs, Hangable
  <2> QED BY <1>2, <1>3, <1>4, <2>1
<1>7. B \cap A = {}
  BY <1>3, <1>5 DEF Hangable
<1>8. PICK sb, sa : sb = Only(discovered, B) /\ sa = Only(discovered, A)
  OBVIOUS
<1>9. /\ sb \in Seq(Drivers) /\ ToSet(sb) = B /\ IsInjective(sb)
      /\ sa \in Seq(Drivers) /\ ToSet(sa) = A /\ IsInjective(sa)
  <2>1. B \subseteq ToSet(discovered) /\ A \subseteq ToSet(discovered)
    BY <1>5
  <2>2. ASSUME NEW T, T \subseteq ToSet(discovered)
        PROVE  /\ Only(discovered, T) \in Seq(Drivers) /\ ToSet(Only(discovered, T)) = T
               /\ IsInjective(Only(discovered, T))
    <3>1. Only(discovered, T) \in Seq(Drivers) /\ IsInjective(Only(discovered, T))
      BY OnlyKeeps
    <3>2. ToSet(Only(discovered, T)) = ToSet(discovered) \cap T
      BY OnlyKeeps
    <3> QED BY <2>2, <3>1, <3>2
  <2> QED BY <1>8, <2>1, <2>2
<1>10. \A x \in B \cup A : h[x] \in Seq(Drivers) /\ IsInjective(h[x])
  BY <1>0, <1>6 DEF Strings
<1>11. \A x, y \in B \cup A : x # y => ToSet(h[x]) \cap ToSet(h[y]) = {}
  BY <1>0, <1>6
<1>12. PICK tb, ta : tb = Strung(h, sb) /\ ta = Strung(h, sa)
  OBVIOUS
<1>13. /\ tb \in Seq(Drivers) /\ ToSet(tb) = UNION {ToSet(h[x]) : x \in B} /\ IsInjective(tb)
       /\ \A x \in B : \A y, z : Precedes(h[x], y, z) => Precedes(tb, y, z)
  BY <1>9, <1>10, <1>11, <1>12, StrungKeeps
<1>14. /\ ta \in Seq(Drivers) /\ ToSet(ta) = UNION {ToSet(h[x]) : x \in A} /\ IsInjective(ta)
       /\ \A x \in A : \A y, z : Precedes(h[x], y, z) => Precedes(ta, y, z)
  BY <1>9, <1>10, <1>11, <1>12, StrungKeeps
<1>15. f = tb \o <<d>> \o ta
  BY <1>5, <1>8, <1>12
<1>18. \A c \in B \cup A : \A x \in ToSet(h[c]) : x # d
  <2>1. SUFFICES ASSUME NEW c \in B \cup A, d \in ToSet(h[c])
                 PROVE  FALSE
    OBVIOUS
  <2>2. PICK i \in n - k..n : d \in g[i]
    BY <1>0, <1>6, <2>1 DEF Strings
  <2> QED BY <1>2, <1>3, <2>2, GenerationsApart
<1>19. ToSet(tb) \cap ToSet(ta) = {} /\ d \notin ToSet(tb) /\ d \notin ToSet(ta)
  <2>1. \A x \in B, y \in A : ToSet(h[x]) \cap ToSet(h[y]) = {}
    BY <1>7, <1>11
  <2>2. ASSUME NEW z \in ToSet(tb), z \in ToSet(ta)
        PROVE  FALSE
    <3>1. PICK x \in B : z \in ToSet(h[x])
      BY <1>13, <2>2
    <3>2. PICK y \in A : z \in ToSet(h[y])
      BY <1>14, <2>2
    <3> QED BY <2>1, <3>1, <3>2
  <2>3. d \notin ToSet(tb) /\ d \notin ToSet(ta)
    BY <1>13, <1>14, <1>18
  <2> QED BY <2>2, <2>3
<1>21. /\ f \in Seq(Drivers) /\ ToSet(f) = ToSet(tb) \cup {d} \cup ToSet(ta) /\ IsInjective(f)
       /\ \A x, y : Precedes(tb, x, y) \/ Precedes(ta, x, y) => Precedes(f, x, y)
       /\ \A x \in ToSet(tb) : Precedes(f, x, d)
       /\ \A x \in ToSet(ta) : Precedes(f, d, x)
  <2>1. Around(f, Drivers, tb, d, ta)
    BY ONLY <1>3, <1>13, <1>14, <1>15, <1>19, AroundKeeps
  <2> QED BY <2>1 DEF Around
<1>22. \A x \in ToSet(f) : x = d \/ \E c \in B \cup A : x \in ToSet(h[c])
  BY <1>13, <1>14, <1>21
<1>23. \A c \in B \cup A : \A y, z : Precedes(h[c], y, z) => Precedes(f, y, z)
  BY <1>13, <1>14, <1>21
<1>24. ASSUME NEW x \in ToSet(f)
       PROVE  \E i \in n - (k + 1)..n : x \in g[i]
  <2>1. CASE x = d
    BY <1>1, <1>2, <1>3, <2>1
  <2>2. CASE \E c \in B \cup A : x \in ToSet(h[c])
    <3>1. PICK i \in n - k..n : x \in g[i]
      BY <1>0, <1>6, <2>2 DEF Strings
    <3> QED BY <1>1, <1>2, <3>1
  <2> QED BY <1>22, <2>1, <2>2
<1>25. ASSUME NEW x \in ToSet(f), x # d, After[x] # NoDriver
       PROVE  Precedes(f, After[x], x)
  <2>1. PICK c \in B \cup A : x \in ToSet(h[c])
    BY <1>22, <1>25
  <2>2. CASE x # c
    <3>1. Precedes(h[c], After[x], x)
      BY <1>0, <1>6, <1>25, <2>1, <2>2 DEF Strings
    <3> QED BY <1>23, <3>1
  <2>3. CASE x = c
    <3>1. x \in A
      <4>1. x \in B => After[x] = NoDriver
        BY <1>3, <1>5, <1>6 DEF Hangable
      <4> QED BY <1>25, <2>3, <4>1
    <3>2. After[x] = d /\ x \in ToSet(ta)
      BY <1>5, <1>14, <2>1, <2>3, <3>1
    <3> QED BY <1>21, <3>2
  <2> QED BY <2>2, <2>3
<1>26. ASSUME NEW x \in ToSet(f), NEW b \in D, Before[b] = x
       PROVE  Precedes(f, b, x)
  <2>1. CASE x = d
    <3>1. b \in B
      BY <1>5, <1>26, <2>1
    <3>2. b \in ToSet(h[b])
      BY <1>0, <1>6, <3>1 DEF Strings
    <3>3. b \in ToSet(tb)
      BY <1>13, <3>1, <3>2
    <3> QED BY <1>21, <2>1, <3>3
  <2>2. CASE \E c \in B \cup A : x \in ToSet(h[c])
    <3>1. PICK c \in B \cup A : x \in ToSet(h[c])
      BY <2>2
    <3>2. Precedes(h[c], b, x)
      BY <1>0, <1>6, <1>26, <3>1 DEF Strings
    <3> QED BY <1>23, <3>1, <3>2
  <2> QED BY <1>22, <2>1, <2>2
<1>27. d \in ToSet(f)
  BY <1>21
<1>28. Strings(D, f, g, n, k + 1, d)
  BY <1>21, <1>24, <1>25, <1>26, <1>27 DEF Strings
<1>29. \A x \in ToSet(f) : Comes(x, d, h, g, n, k)
  BY <1>6, <1>22 DEF Comes
<1> QED BY <1>28, <1>29

StrungOn(D, f, h) ==
  \A d \in Drivers :
    f[d] = Strung(h, Only(discovered, {b \in D : Before[b] = d})) \o <<d>>
           \o Strung(h, Only(discovered, {b \in D : After[b] = d}))

LEMMA AllStringsStep ==
  ASSUME NEW D, Hangable(D), discovered \in Seq(Drivers), IsInjective(discovered),
         D \subseteq ToSet(discovered),
         NEW n \in Nat, NEW g, Generations(D, g, n), NEW k \in Nat, k + 1 =< n, NEW h, NEW f,
         AllStrings(D, h, g, n, k), StrungOn(D, f, h)
  PROVE  AllStrings(D, f, g, n, k + 1)
<1>1. PICK m : m = n - (k + 1)
  OBVIOUS
<1>2. m \in 0..n /\ \A i \in n - k..n : i # m /\ i \in 0..n
  BY <1>1
<1>3. g[m] \subseteq Drivers
  <2>1. \A i \in 0..n : g[i] \subseteq D
    BY GenerationFacts
  <2> QED BY <1>2, <2>1 DEF Hangable
<1>4. /\ \A c \in g[n - k] : Strings(D, h[c], g, n, k, c)
      /\ \A c, e \in g[n - k] : c # e => ToSet(h[c]) \cap ToSet(h[e]) = {}
  BY DEF AllStrings
<1>5. ASSUME NEW d \in g[n - (k + 1)]
      PROVE  Strings(D, f[d], g, n, k + 1, d) /\ \A x \in ToSet(f[d]) : Comes(x, d, h, g, n, k)
  <2>1. PICK t : t = f[d]
    OBVIOUS
  <2>2. t = Strung(h, Only(discovered, {b \in D : Before[b] = d})) \o <<d>>
            \o Strung(h, Only(discovered, {b \in D : After[b] = d}))
    BY <1>1, <1>3, <2>1 DEF StrungOn
  <2>3. Strings(D, t, g, n, k + 1, d) /\ \A x \in ToSet(t) : Comes(x, d, h, g, n, k)
    BY <2>2, StringsStep
  <2> QED BY <2>1, <2>3
<1>6. ASSUME NEW c \in g[n - (k + 1)], NEW d \in g[n - (k + 1)], c # d,
             NEW x \in ToSet(f[c]), x \in ToSet(f[d])
      PROVE  FALSE
  <2>1. \A e \in g[n - k] : \A y \in ToSet(h[e]) : y \notin g[m]
    <3>1. SUFFICES ASSUME NEW e \in g[n - k], NEW y \in ToSet(h[e]), y \in g[m]
                   PROVE  FALSE
      OBVIOUS
    <3>2. PICK i \in n - k..n : y \in g[i]
      BY <1>4 DEF Strings
    <3> QED BY <1>2, <3>1, <3>2, GenerationsApart
  <2>2. c \in g[m] /\ d \in g[m]
    BY <1>1, <1>6
  <2>3. Comes(x, c, h, g, n, k) /\ Comes(x, d, h, g, n, k)
    BY <1>5, <1>6
  <2>4. PICK e \in g[n - k] : Hangs(e) = c /\ x \in ToSet(h[e])
    <3>1. CASE x = c
      <4>1. ~ \E u \in g[n - k] : Hangs(u) = d /\ x \in ToSet(h[u])
        BY <2>1, <2>2, <3>1
      <4> QED BY <1>6, <2>3, <3>1, <4>1 DEF Comes
    <3> QED BY <2>3, <3>1 DEF Comes
  <2>5. PICK u \in g[n - k] : Hangs(u) = d /\ x \in ToSet(h[u])
    <3>1. x # d
      BY <2>1, <2>2, <2>4
    <3> QED BY <2>3, <3>1 DEF Comes
  <2> QED BY <1>4, <1>6, <2>4, <2>5
<1>7. \A c, d \in g[n - (k + 1)] : c # d => ToSet(f[c]) \cap ToSet(f[d]) = {}
  BY <1>6
<1> QED BY <1>5, <1>7 DEF AllStrings

\* The same for what is put together at the top.
Unmixed(h, X, S) ==
  /\ \A x \in X : h[x] \in Seq(S) /\ IsInjective(h[x])
  /\ \A x, y \in X : x # y => ToSet(h[x]) \cap ToSet(h[y]) = {}
StrungOf(f, h, X, S) ==
  /\ f \in Seq(S) /\ ToSet(f) = UNION {ToSet(h[x]) : x \in X} /\ IsInjective(f)
  /\ \A x \in X : \A y, z : Precedes(h[x], y, z) => Precedes(f, y, z)

LEMMA StrungOnce ==
  ASSUME NEW S, NEW s \in Seq(S), NEW h, IsInjective(s), Unmixed(h, ToSet(s), S)
  PROVE  StrungOf(Strung(h, s), h, ToSet(s), S)
<1>1. /\ \A x \in ToSet(s) : h[x] \in Seq(S) /\ IsInjective(h[x])
      /\ \A x, y \in ToSet(s) : x # y => ToSet(h[x]) \cap ToSet(h[y]) = {}
  BY DEF Unmixed
<1>2. PICK f : f = Strung(h, s)
  OBVIOUS
<1>3. /\ f \in Seq(S) /\ ToSet(f) = UNION {ToSet(h[x]) : x \in ToSet(s)} /\ IsInjective(f)
      /\ \A x \in ToSet(s) : \A y, z : Precedes(h[x], y, z) => Precedes(f, y, z)
  BY <1>1, <1>2, StrungKeeps
<1>4. StrungOf(f, h, ToSet(s), S)
  BY <1>3 DEF StrungOf
<1> QED BY <1>2, <1>4

LEMMA HangingStrings ==
  ASSUME CoreAssumption, NEW D, Hangable(D), discovered \in Seq(Drivers), IsInjective(discovered),
         D \subseteq ToSet(discovered),
         NEW n, n = Cardinality(Drivers), NEW g, Generations(D, g, n)
  PROVE  n \in Nat /\ AllStrings(D, Hanging[n][D], g, n, n)
<1>1. n \in Nat /\ IsFiniteSet(Drivers)
  BY FS_CardinalityType DEF CoreAssumption
<1>2. ASSUME NEW k \in 0..n
      PROVE  Hanging[k] = Level(Hanging, k)
  <2>1. Hanging = [j \in 0..n |-> Level(Hanging, j)]
    BY <1>1, HangingIs
  <2> QED BY <2>1
<1> DEFINE T == {k \in Nat : k =< n => AllStrings(D, Hanging[k][D], g, n, k)}
<1>3. 0 \in T
  <2>1. g[n - 0] = {}
    <3>1. g[n] = {} /\ n - 0 = n
      BY <1>1, GenerationsEnd
    <3> QED BY <3>1
  <2> QED BY <2>1 DEF AllStrings
<1>4. ASSUME NEW k \in T
      PROVE  k + 1 \in T
  <2>1. k \in Nat
    OBVIOUS
  <2>2. SUFFICES ASSUME k + 1 =< n
                 PROVE  AllStrings(D, Hanging[k + 1][D], g, n, k + 1)
    BY <2>1
  <2>3. k + 1 \in 0..n /\ k + 1 # 0 /\ (k + 1) - 1 = k /\ k =< n
    BY ONLY <1>1, <2>1, <2>2
  <2>4. PICK h, f : h = Hanging[k][D] /\ f = Hanging[k + 1][D]
    OBVIOUS
  <2>5. AllStrings(D, h, g, n, k)
    BY <2>3, <2>4
  <2>6. f = Level(Hanging, k + 1)[D]
    BY <1>2, <2>3, <2>4
  <2>7. StrungOn(D, f, h)
    BY <2>3, <2>4, <2>6 DEF Level, StrungOn, Hangable
  <2>8. AllStrings(D, f, g, n, k + 1)
    <3> HIDE DEF T
    <3> QED BY <1>1, <2>1, <2>2, <2>5, <2>7, AllStringsStep
  <2> QED BY <2>4, <2>8
<1>5. T = Nat
  <2> HIDE DEF T
  <2>1. T \in SUBSET Nat
    BY DEF T
  <2> QED BY <1>3, <1>4, <2>1, SetInduction
<1>6. n \in T /\ n =< n
  <2> HIDE DEF T
  <2> QED BY <1>1, <1>5
<1> QED BY <1>1, <1>6

\* The more drivers are dependent, the more hang on one.
LEMMA StrungGrows ==
  ASSUME NEW S, NEW s \in Seq(S), NEW t \in Seq(S), ToSet(s) \subseteq ToSet(t), NEW h, NEW u,
         \A x \in S : h[x] \in Seq(S) /\ u[x] \in Seq(S) /\ ToSet(h[x]) \subseteq ToSet(u[x])
  PROVE  /\ Strung(h, s) \in Seq(S) /\ Strung(u, t) \in Seq(S)
         /\ ToSet(Strung(h, s)) \subseteq ToSet(Strung(u, t))
<1>1. ToSet(s) \subseteq S /\ ToSet(t) \subseteq S
  BY DEF ToSet
<1>2. Strung(h, s) \in Seq(S) /\ ToSet(Strung(h, s)) = UNION {ToSet(h[x]) : x \in ToSet(s)}
  BY <1>1, StrungKeeps
<1>3. Strung(u, t) \in Seq(S) /\ ToSet(Strung(u, t)) = UNION {ToSet(u[x]) : x \in ToSet(t)}
  BY <1>1, StrungKeeps
<1>4. ASSUME NEW y \in ToSet(Strung(h, s))
      PROVE  y \in ToSet(Strung(u, t))
  <2>1. PICK x \in ToSet(s) : y \in ToSet(h[x])
    BY <1>2
  <2>2. x \in ToSet(t) /\ y \in ToSet(u[x])
    BY <1>1, <2>1
  <2> QED BY <1>3, <2>2
<1> QED BY <1>2, <1>3, <1>4

LEMMA Between ==
  ASSUME NEW S, NEW s \in Seq(S), NEW d \in S, NEW u \in Seq(S)
  PROVE  s \o <<d>> \o u \in Seq(S) /\ ToSet(s \o <<d>> \o u) = ToSet(s) \cup {d} \cup ToSet(u)
<1>1. PICK c : c = <<d>>
  OBVIOUS
<1>2. c \in Seq(S) /\ ToSet(c) = {d}
  BY <1>1 DEF ToSet
<1>3. PICK e : e = s \o c
  OBVIOUS
<1>4. e \in Seq(S) /\ ToSet(e) = ToSet(s) \cup {d}
  BY ONLY <1>2, <1>3, s \in Seq(S), Joined
<1>5. e \o u \in Seq(S) /\ ToSet(e \o u) = ToSet(e) \cup ToSet(u)
  BY ONLY <1>4, u \in Seq(S), Joined
<1> QED BY <1>1, <1>3, <1>4, <1>5

Wider(h, u) ==
  \A d \in Drivers : /\ h[d] \in Seq(Drivers) /\ u[d] \in Seq(Drivers)
                     /\ ToSet(h[d]) \subseteq ToSet(u[d])

LEMMA HangingGrows ==
  ASSUME CoreAssumption, discovered \in Seq(Drivers), NEW E \in SUBSET Drivers,
         NEW D \in SUBSET E, NEW n, n = Cardinality(Drivers)
  PROVE  Wider(Hanging[n][D], Hanging[n][E])
<1>1. n \in Nat
  BY FS_CardinalityType DEF CoreAssumption
<1>2. ASSUME NEW k \in 0..n
      PROVE  Hanging[k] = Level(Hanging, k)
  <2>1. Hanging = [j \in 0..n |-> Level(Hanging, j)]
    BY <1>1, HangingIs
  <2> QED BY <2>1
<1>3. D \in SUBSET Drivers
  OBVIOUS
<1> DEFINE T == {k \in Nat : k =< n => Wider(Hanging[k][D], Hanging[k][E])}
<1>4. 0 \in T
  <2>1. PICK l : l = Level(Hanging, 0)
    OBVIOUS
  <2>2. Hanging[0] = l
    BY <1>1, <1>2, <2>1
  <2>3. ASSUME NEW d \in Drivers
        PROVE  /\ l[D][d] \in Seq(Drivers) /\ l[E][d] \in Seq(Drivers)
               /\ ToSet(l[D][d]) \subseteq ToSet(l[E][d])
    <3>1. PICK c : c = <<d>>
      OBVIOUS
    <3>2. l[D][d] = c /\ l[E][d] = c
      BY <1>3, <2>1, <3>1 DEF Level
    <3>3. c \in Seq(Drivers)
      BY <3>1
    <3> QED BY <3>2, <3>3
  <2>4. Wider(l[D], l[E])
    BY <2>3 DEF Wider
  <2> QED BY <2>2, <2>4
<1>5. ASSUME NEW k \in T
      PROVE  k + 1 \in T
  <2>1. k \in Nat
    OBVIOUS
  <2>2. SUFFICES ASSUME k + 1 =< n
                 PROVE  Wider(Hanging[k + 1][D], Hanging[k + 1][E])
    BY <2>1
  <2>3. k + 1 \in 0..n /\ k + 1 # 0 /\ (k + 1) - 1 = k /\ k =< n
    BY ONLY <1>1, <2>1, <2>2
  <2>4. PICK h, u : h = Hanging[k][D] /\ u = Hanging[k][E]
    OBVIOUS
  <2>5. Wider(h, u)
    BY <2>3, <2>4
  <2>6. PICK l : l = Level(Hanging, k + 1)
    OBVIOUS
  <2>7. Hanging[k + 1] = l
    BY <1>2, <2>3, <2>6
  <2>8. StrungOn(D, l[D], h) /\ StrungOn(E, l[E], u)
    BY <1>3, <2>3, <2>4, <2>6 DEF Level, StrungOn
  <2>9. ASSUME NEW B, NEW A \in SUBSET B
        PROVE  /\ Strung(h, Only(discovered, A)) \in Seq(Drivers)
               /\ Strung(u, Only(discovered, B)) \in Seq(Drivers)
               /\ ToSet(Strung(h, Only(discovered, A))) \subseteq ToSet(Strung(u, Only(discovered, B)))
    <3>1. PICK s, t : s = Only(discovered, A) /\ t = Only(discovered, B)
      OBVIOUS
    <3>2. s \in Seq(Drivers) /\ ToSet(s) = ToSet(discovered) \cap A
      BY <3>1, OnlyKeeps
    <3>3. t \in Seq(Drivers) /\ ToSet(t) = ToSet(discovered) \cap B
      BY <3>1, OnlyKeeps
    <3>4. ToSet(s) \subseteq ToSet(t)
      BY <2>9, <3>2, <3>3
    <3>5. \A x \in Drivers :
            h[x] \in Seq(Drivers) /\ u[x] \in Seq(Drivers) /\ ToSet(h[x]) \subseteq ToSet(u[x])
      BY <2>5 DEF Wider
    <3>6. /\ Strung(h, s) \in Seq(Drivers) /\ Strung(u, t) \in Seq(Drivers)
          /\ ToSet(Strung(h, s)) \subseteq ToSet(Strung(u, t))
      BY ONLY <3>2, <3>3, <3>4, <3>5, StrungGrows
    <3> QED BY <3>1, <3>6
  <2>10. ASSUME NEW d \in Drivers
         PROVE  /\ l[D][d] \in Seq(Drivers) /\ l[E][d] \in Seq(Drivers)
                /\ ToSet(l[D][d]) \subseteq ToSet(l[E][d])
    <3>1. PICK A, B : A = {b \in D : Before[b] = d} /\ B = {b \in E : Before[b] = d}
      OBVIOUS
    <3>2. PICK X, Y : X = {b \in D : After[b] = d} /\ Y = {b \in E : After[b] = d}
      OBVIOUS
    <3>3. PICK s, t : s = Strung(h, Only(discovered, A)) /\ t = Strung(u, Only(discovered, B))
      OBVIOUS
    <3>4. PICK v, w : v = Strung(h, Only(discovered, X)) /\ w = Strung(u, Only(discovered, Y))
      OBVIOUS
    <3>5. /\ s \in Seq(Drivers) /\ t \in Seq(Drivers) /\ ToSet(s) \subseteq ToSet(t)
          /\ v \in Seq(Drivers) /\ w \in Seq(Drivers) /\ ToSet(v) \subseteq ToSet(w)
          /\ l[D][d] = s \o <<d>> \o v /\ l[E][d] = t \o <<d>> \o w
      <4>1. A \in SUBSET B /\ X \in SUBSET Y
        BY <3>1, <3>2
      <4>2. s \in Seq(Drivers) /\ t \in Seq(Drivers) /\ ToSet(s) \subseteq ToSet(t)
        BY <2>9, <3>3, <4>1
      <4>3. v \in Seq(Drivers) /\ w \in Seq(Drivers) /\ ToSet(v) \subseteq ToSet(w)
        BY <2>9, <3>4, <4>1
      <4>4. l[D][d] = s \o <<d>> \o v /\ l[E][d] = t \o <<d>> \o w
        BY <2>8, <3>1, <3>2, <3>3, <3>4 DEF StrungOn
      <4> QED BY <4>2, <4>3, <4>4
    <3>6. s \o <<d>> \o v \in Seq(Drivers)
          /\ ToSet(s \o <<d>> \o v) = ToSet(s) \cup {d} \cup ToSet(v)
      BY ONLY <3>5, d \in Drivers, Between
    <3>7. t \o <<d>> \o w \in Seq(Drivers)
          /\ ToSet(t \o <<d>> \o w) = ToSet(t) \cup {d} \cup ToSet(w)
      BY ONLY <3>5, d \in Drivers, Between
    <3> QED BY <3>5, <3>6, <3>7
  <2> QED BY <2>7, <2>10 DEF Wider
<1>6. T = Nat
  <2> HIDE DEF T
  <2>1. T \in SUBSET Nat
    BY DEF T
  <2> QED BY <1>4, <1>5, <2>1, SetInduction
<1>7. n \in T /\ n =< n
  <2> HIDE DEF T
  <2> QED BY <1>1, <1>6
<1> QED BY <1>7

\* What hangs on a driver that can be scheduled, when the drivers of D are dependent.
Tree(D, f, d) ==
  /\ f \in Seq(Drivers) /\ IsInjective(f) /\ d \in ToSet(f) /\ ToSet(f) \subseteq D
  /\ \A x \in ToSet(f) :
       /\ Needs[x] \subseteq ready \/ Before[x] # NoDriver \/ After[x] # NoDriver
       /\ After[x] # NoDriver => Precedes(f, After[x], x)
       /\ \A b \in D : Before[b] = x => Precedes(f, b, x)

LEMMA HangingTrees ==
  ASSUME CoreAssumption, discovered \in Seq(Drivers), IsInjective(discovered),
         NEW D, D \subseteq ToSet(discovered), NEW n, n = Cardinality(Drivers)
  PROVE  LET can == {d \in D : SmmIsSchedulable(d)}
             h == Hanging[n][D]
         IN /\ \A d \in can : Tree(D, h[d], d)
            /\ \A c, d \in can : c # d => ToSet(h[c]) \cap ToSet(h[d]) = {}
<1>1. Hangable(D)
  <2>1. D \subseteq Drivers
    BY DEF ToSet
  <2> QED BY <2>1 DEF Hangable, CoreAssumption
<1>2. n \in Nat
  BY FS_CardinalityType DEF CoreAssumption
<1>3. PICK g : Generations(D, g, n)
  BY <1>2, GenerationsExist
<1>4. PICK h : h = Hanging[n][D]
  OBVIOUS
<1>5. AllStrings(D, h, g, n, n)
  BY <1>1, <1>3, <1>4, HangingStrings
<1>6. n - n = 0 /\ \A i \in 0..n : g[i] \subseteq D
  BY <1>1, <1>2, <1>3, GenerationFacts
<1>7. /\ \A d \in g[0] : Strings(D, h[d], g, n, n, d)
      /\ \A c, d \in g[0] : c # d => ToSet(h[c]) \cap ToSet(h[d]) = {}
  BY <1>5, <1>6 DEF AllStrings
<1>8. g[0] = {d \in D : SmmIsSchedulable(d)}
  BY <1>3 DEF Generations
<1>9. ASSUME NEW d \in g[0]
      PROVE  Tree(D, h[d], d)
  <2>1. PICK f : f = h[d]
    OBVIOUS
  <2>2. Strings(D, f, g, n, n, d)
    BY <1>7, <2>1
  <2>3. ASSUME NEW x \in ToSet(f)
        PROVE  /\ x \in D
               /\ Needs[x] \subseteq ready \/ Before[x] # NoDriver \/ After[x] # NoDriver
               /\ After[x] # NoDriver => Precedes(f, After[x], x)
    <3>1. PICK i \in 0..n : x \in g[i]
      BY <1>6, <2>2, <2>3 DEF Strings
    <3>2. x \in D
      BY <1>6, <3>1
    <3>3. Needs[x] \subseteq ready \/ Before[x] # NoDriver \/ After[x] # NoDriver
      <4>1. Hangs(x) = NoDriver => SmmIsSchedulable(x)
        BY <1>1, <1>2, <1>3, <3>1, GenerationFacts
      <4> QED BY <4>1 DEF Hangs, SmmIsSchedulable
    <3>4. ASSUME After[x] # NoDriver
          PROVE  Precedes(f, After[x], x)
      <4>1. x # d
        BY <1>8, <3>4 DEF SmmIsSchedulable
      <4> QED BY <2>2, <2>3, <3>4, <4>1 DEF Strings
    <3> QED BY <3>2, <3>3, <3>4
  <2>4. Tree(D, f, d)
    BY <2>2, <2>3 DEF Tree, Strings
  <2> QED BY <2>1, <2>4
<1> QED BY <1>4, <1>7, <1>8, <1>9

\* The drivers among which the search looks when it comes to a driver.
Dependents == dependent \cup Reread

LEMMA DependentsAt ==
  ASSUME discovered \in Seq(Drivers), Dependents \subseteq ToSet(discovered)
  PROVE  \A d \in Dependents :
           dependent \subseteq DependentAt(d) /\ DependentAt(d) \subseteq Dependents
           /\ d \in DependentAt(d)
<1>1. ASSUME NEW d \in Dependents, d \in Reread
      PROVE  Place(d) =< Place(d)
  <2>1. \E p \in DOMAIN discovered : discovered[p] = d
    BY DEF ToSet
  <2>2. PICK p : p = Place(d)
    OBVIOUS
  <2>3. p \in DOMAIN discovered
    BY <2>1, <2>2 DEF Place
  <2>4. p \in Nat
    BY <2>3
  <2> QED BY <2>2, <2>4
<1> QED BY <1>1 DEF Dependents, DependentAt

\* What a search schedules: no driver twice, each after the driver it goes AFTER and
\* behind those that go BEFORE it.
LEMMA Searched ==
  ASSUME CoreAssumption, DataOK, IsInjective(discovered), Dependents \subseteq ToSet(discovered),
         Search
  PROVE  /\ scheduled' \in Seq(Drivers) /\ IsInjective(scheduled')
         /\ ToSet(scheduled') \subseteq Dependents
         /\ \A x \in ToSet(scheduled') :
              /\ Needs[x] \subseteq ready \/ Before[x] # NoDriver \/ After[x] # NoDriver
              /\ After[x] # NoDriver => Precedes(scheduled', After[x], x)
              /\ \A b \in dependent : Before[b] = x => Precedes(scheduled', b, x)
<1>1. discovered \in Seq(Drivers) /\ Dependents \subseteq Drivers
  BY DEF DataOK, Dependents, Reread
<1>2. PICK n, W : n = Cardinality(Drivers) /\ W = Dependents
  OBVIOUS
<1>3. W \subseteq ToSet(discovered) /\ W \in SUBSET Drivers
  BY <1>1, <1>2
<1>4. PICK S : S = {d \in W : SmmIsSchedulable(d)}
  OBVIOUS
<1>5. PICK h : h = [d \in Drivers |-> Hanging[n][DependentAt(d)][d]]
  OBVIOUS
<1>6. ASSUME NEW d \in S
      PROVE  /\ h[d] = Hanging[n][DependentAt(d)][d]
             /\ dependent \subseteq DependentAt(d) /\ DependentAt(d) \subseteq W
             /\ d \in DependentAt(d)
  BY <1>1, <1>2, <1>4, <1>5, DependentsAt
<1>7. ASSUME NEW d \in S
      PROVE  /\ h[d] \in Seq(Drivers) /\ IsInjective(h[d]) /\ ToSet(h[d]) \subseteq W
             /\ ToSet(h[d]) \subseteq ToSet(Hanging[n][W][d])
             /\ \A x \in ToSet(h[d]) :
                  /\ Needs[x] \subseteq ready \/ Before[x] # NoDriver \/ After[x] # NoDriver
                  /\ After[x] # NoDriver => Precedes(h[d], After[x], x)
                  /\ \A b \in dependent : Before[b] = x => Precedes(h[d], b, x)
  <2>1. PICK D, f : D = DependentAt(d) /\ f = Hanging[n][D][d]
    OBVIOUS
  <2>2. h[d] = f /\ dependent \subseteq D /\ D \in SUBSET W /\ d \in D /\ SmmIsSchedulable(d)
    BY <1>4, <1>6, <2>1
  <2>3. D \subseteq ToSet(discovered) /\ d \in {e \in D : SmmIsSchedulable(e)} /\ d \in Drivers
    BY <1>3, <1>4, <2>2
  <2>4. Tree(D, f, d)
    BY <1>1, <1>2, <2>1, <2>3, HangingTrees
  <2>5. ToSet(f) \subseteq ToSet(Hanging[n][W][d])
    <3>1. Wider(Hanging[n][D], Hanging[n][W])
      BY <1>1, <1>2, <1>3, <2>2, HangingGrows
    <3> QED BY <2>1, <2>3, <3>1 DEF Wider
  <2> QED BY <2>2, <2>4, <2>5 DEF Tree
<1>8. ASSUME NEW c \in S, NEW d \in S, c # d
      PROVE  ToSet(h[c]) \cap ToSet(h[d]) = {}
  <2>1. ToSet(Hanging[n][W][c]) \cap ToSet(Hanging[n][W][d]) = {}
    BY <1>1, <1>2, <1>3, <1>4, <1>8, HangingTrees
  <2>2. \A e \in S : ToSet(h[e]) \subseteq ToSet(Hanging[n][W][e])
    BY <1>7
  <2>3. ASSUME NEW y \in ToSet(h[c]), y \in ToSet(h[d])
        PROVE  FALSE
    <3>1. y \in ToSet(Hanging[n][W][c]) /\ y \in ToSet(Hanging[n][W][d])
      BY <2>2, <2>3
    <3> QED BY <2>1, <3>1
  <2> QED BY <2>3
<1>9. PICK can : can = Only(discovered, S)
  OBVIOUS
<1>10. can \in Seq(Drivers) /\ ToSet(can) = S /\ IsInjective(can)
  <2>1. Only(discovered, S) \in Seq(Drivers) /\ IsInjective(Only(discovered, S))
    BY <1>1, OnlyKeeps
  <2>2. ToSet(Only(discovered, S)) = ToSet(discovered) \cap S
    BY <1>1, OnlyKeeps
  <2> QED BY <1>3, <1>4, <1>9, <2>1, <2>2
<1>11. PICK f : f = scheduled'
  OBVIOUS
<1>12. f = Strung(h, can)
  <2>1. f = FlattenSeq([i \in DOMAIN can |-> Hanging[n][DependentAt(can[i])][can[i]]])
    BY <1>2, <1>4, <1>9, <1>11 DEF Search, Dependents
  <2>2. \A i \in DOMAIN can : Hanging[n][DependentAt(can[i])][can[i]] = h[can[i]]
    BY <1>5, <1>10
  <2>3. [i \in DOMAIN can |-> Hanging[n][DependentAt(can[i])][can[i]]]
        = [i \in DOMAIN can |-> h[can[i]]]
    BY <2>2
  <2> QED BY <2>1, <2>3 DEF Strung
<1>13. /\ f \in Seq(Drivers) /\ ToSet(f) = UNION {ToSet(h[x]) : x \in S} /\ IsInjective(f)
       /\ \A x \in S : \A y, z : Precedes(h[x], y, z) => Precedes(f, y, z)
  <2>1. Unmixed(h, ToSet(can), Drivers)
    BY <1>7, <1>8, <1>10 DEF Unmixed
  <2>2. StrungOf(Strung(h, can), h, ToSet(can), Drivers)
    BY ONLY <1>10, <2>1, StrungOnce
  <2> QED BY <1>10, <1>12, <2>2 DEF StrungOf
<1>14. ASSUME NEW x \in ToSet(f)
       PROVE  /\ x \in W
              /\ Needs[x] \subseteq ready \/ Before[x] # NoDriver \/ After[x] # NoDriver
              /\ After[x] # NoDriver => Precedes(f, After[x], x)
              /\ \A b \in dependent : Before[b] = x => Precedes(f, b, x)
  <2>1. PICK d \in S : x \in ToSet(h[d])
    BY <1>13
  <2> QED BY <1>7, <1>13, <2>1
<1> QED BY <1>2, <1>11, <1>13, <1>14

-----------------------------------------------------------------------------
(* The queue of the drivers that are about to be started. *)

\* A place of the queue, with what it says of the state set apart.
First(s, done, p, b) == b \in done \/ Earlier(s, p, b)
MetAt(s, done, there, p) ==
  /\ ~IsApriori(s[p]) =>
       /\ Needs[s[p]] \subseteq there \/ Before[s[p]] # NoDriver \/ After[s[p]] # NoDriver
       /\ After[s[p]] # NoDriver => First(s, done, p, After[s[p]])
       /\ \A b \in Drivers, v \in Volumes :
            /\ Before[b] = s[p] /\ {b, s[p]} \subseteq ToSet(Files[v]) /\ Sealed[b] = {}
            => First(s, done, p, b)
  /\ \A v \in Volumes : \A i, j \in DOMAIN Apriori[v] :
       i < j /\ Apriori[v][j] = s[p] => First(s, done, p, Apriori[v][i])

LEMMA MetIs ==
  ASSUME NEW s, NEW done, NEW p
  PROVE  Met(s, done, p) <=> MetAt(s, done, ready, p)
BY DEF Met, MetAt, First

LEMMA MetThen ==
  ASSUME NEW s, NEW done, NEW p, s = scheduled', done = initialized', MetAt(s, done, ready', p)
  PROVE  Met(scheduled, initialized, p)'
BY DEF Met, MetAt, First, Earlier, IsApriori

\* A driver that has found its place keeps it as the queue moves on.
LEMMA MetKept ==
  ASSUME NEW s, NEW u, NEW done, NEW gone, NEW there, NEW now, NEW p, NEW q, u[q] = s[p],
         MetAt(s, done, there, p), there \subseteq now,
         \A b : First(s, done, p, b) => First(u, gone, q, b)
  PROVE  MetAt(u, gone, now, q)
BY DEF MetAt

\* The drivers of a volume that has not been seen are nowhere yet.
LEMMA OwnVolume ==
  ASSUME CoreAssumption, InOnePlace, known \subseteq Volumes, NEW v \in Volumes, v \notin known
  PROVE  ToSet(Files[v]) \cap ToSet(discovered) = {}
<1>1. \A w \in known \ NoPath : ToSet(Files[v]) \cap ToSet(Files[w]) = {}
  BY DEF CoreAssumption
<1> QED BY <1>1 DEF InOnePlace

LEMMA OneVolume ==
  ASSUME CoreAssumption, NEW v \in Volumes, NEW w \in Volumes, NEW d,
         d \in ToSet(Files[v]), d \in ToSet(Files[w])
  PROVE  v = w
BY DEF CoreAssumption

LEMMA NotStarted ==
  ASSUME NEW s, NEW d, d \notin ToSet(s)
  PROVE  OnceAtMost(s, d)
BY DEF OnceAtMost, ToSet

LEMMA FoundPlaces ==
  ASSUME CoreAssumption, DataOK, InOnePlace, StartedOnce, ready \subseteq ready',
         NEW v \in Volumes, v \notin known \cup NoPath,
         known' = known \cup {v}, discovered' = discovered \o Files[v],
         dependent' = dependent \cup {d \in ToSet(Files[v]) \ ToSet(Apriori[v]) : Readable(d)},
         unread' = unread \cup {d \in ToSet(Files[v]) : ~Readable(d)},
         scheduled' = scheduled \o Apriori[v], initialized' = initialized, started' = started
  PROVE  InOnePlace' /\ StartedOnce'
<1>1. /\ Files[v] \in Seq(Drivers) /\ Apriori[v] \in Seq(Drivers)
      /\ discovered \in Seq(Drivers) /\ scheduled \in Seq(Drivers) /\ known \subseteq Volumes
      /\ IsInjective(Files[v]) /\ IsInjective(Apriori[v])
      /\ ToSet(Apriori[v]) \subseteq ToSet(Files[v])
  BY DEF CoreAssumption, DataOK
<1>2. PICK fv, av : fv = ToSet(Files[v]) /\ av = ToSet(Apriori[v])
  OBVIOUS
<1>3. PICK di, sc : di = ToSet(discovered) /\ sc = ToSet(scheduled)
  OBVIOUS
<1>4. fv \cap di = {} /\ av \subseteq fv
  BY <1>1, <1>2, <1>3, OwnVolume
<1>5. /\ di = UNION {ToSet(Files[w]) : w \in known \ NoPath}
      /\ di = initialized \cup (dependent \cup unread \cup sc)
      /\ dependent \cap sc = {} /\ dependent \cap unread = {}
      /\ \A d \in initialized \cap (dependent \cup unread \cup sc) : Twice(d)
      /\ \A d \in unread \cap sc : Twice(d) /\ d \notin initialized
      /\ IsInjective(discovered) /\ IsInjective(scheduled)
  BY <1>3 DEF InOnePlace, Waiting
<1>6. /\ ToSet(started) \subseteq initialized
      /\ \A d \in dependent \cup unread \cup sc : OnceAtMost(started, d)
      /\ \A d \in initialized \cap (dependent \cup sc) : Readable(d)
      /\ \A d \in unread : Sealed[d] # {}
      /\ \A d \in dependent : IsApriori(d) => Sealed[d] # {}
      /\ \A w \in known \ NoPath : ToSet(Apriori[w]) \subseteq initialized \cup sc
  BY <1>3 DEF StartedOnce, Waiting
<1>7. ToSet(discovered') = di \cup fv /\ ToSet(scheduled') = sc \cup av
  BY <1>1, <1>2, <1>3, Joined
<1>8. IsInjective(discovered')
  <2>1. ToSet(discovered) \cap ToSet(Files[v]) = {}
    BY <1>2, <1>3, <1>4
  <2>2. IsInjective(discovered \o Files[v])
    BY <1>1, <1>5, <2>1, JoinedOnce
  <2> QED BY <2>2
<1>9. IsInjective(scheduled')
  <2>1. ToSet(scheduled) \cap ToSet(Apriori[v]) = {}
    BY <1>2, <1>3, <1>4, <1>5
  <2>2. IsInjective(scheduled \o Apriori[v])
    BY <1>1, <1>5, <2>1, JoinedOnce
  <2> QED BY <2>2
<1>10. di \cup fv = UNION {ToSet(Files[w]) : w \in known' \ NoPath}
  <2>1. known' \ NoPath = (known \ NoPath) \cup {v}
    OBVIOUS
  <2> QED BY <1>2, <1>5, <2>1
<1>11. PICK dn, un : dn = {d \in fv \ av : Readable(d)} /\ un = {d \in fv : ~Readable(d)}
  OBVIOUS
<1>12. dependent' = dependent \cup dn /\ unread' = unread \cup un
  BY <1>2, <1>11
<1>13. ASSUME NEW d \in dn
       PROVE  ~IsApriori(d)
  <2>1. SUFFICES ASSUME NEW w \in Volumes, d \in ToSet(Apriori[w]) PROVE FALSE
    BY DEF IsApriori
  <2>2. d \in ToSet(Files[w])
    BY <2>1 DEF CoreAssumption
  <2>3. v = w
    BY <1>2, <1>11, <2>2, OneVolume
  <2> QED BY <1>2, <1>11, <2>1, <2>3
<1>14. \A d \in un : Sealed[d] # {}
  BY <1>11 DEF Readable
<1>15. \A d \in av : IsApriori(d)
  BY <1>2 DEF IsApriori
<1>16. \A d \in fv : /\ d \notin initialized /\ d \notin dependent
                     /\ d \notin unread /\ d \notin sc
  BY <1>4, <1>5
<1>17. InOnePlace'
  <2>1. di \cup fv = initialized \cup (dependent' \cup unread' \cup (sc \cup av))
    BY <1>4, <1>5, <1>11, <1>12
  <2>2. dependent' \cap (sc \cup av) = {} /\ dependent' \cap unread' = {}
    BY <1>5, <1>11, <1>12, <1>16, <1>4
  <2>3. \A d \in initialized \cap (dependent' \cup unread' \cup (sc \cup av)) : Twice(d)
    BY <1>4, <1>5, <1>11, <1>12, <1>16
  <2>4. \A d \in unread' \cap (sc \cup av) : Twice(d) /\ d \notin initialized
    <3>1. SUFFICES ASSUME NEW d \in unread' \cap (sc \cup av)
                   PROVE  Twice(d) /\ d \notin initialized
      OBVIOUS
    <3>2. CASE d \in fv
      <4>1. d \in un /\ d \in av /\ d \notin initialized
        BY <1>11, <1>12, <1>16, <3>1, <3>2
      <4> QED BY <1>14, <1>15, <4>1 DEF Twice
    <3>3. CASE d \notin fv
      BY <1>4, <1>5, <1>11, <1>12, <3>1, <3>3
    <3> QED BY <3>2, <3>3
  <2> QED BY <1>7, <1>8, <1>9, <1>10, <2>1, <2>2, <2>3, <2>4
          DEF InOnePlace, Waiting, Twice, IsApriori
<1>18. StartedOnce'
  <2>1. \A d \in dependent' \cup unread' \cup (sc \cup av) : OnceAtMost(started, d)
    <3>1. SUFFICES ASSUME NEW d \in dependent' \cup unread' \cup (sc \cup av)
                   PROVE  OnceAtMost(started, d)
      OBVIOUS
    <3>2. CASE d \in fv
      <4>1. d \notin ToSet(started)
        BY <1>6, <1>16, <3>2
      <4> QED BY <4>1, NotStarted
    <3>3. CASE d \notin fv
      BY <1>4, <1>6, <1>11, <1>12, <3>1, <3>3
    <3> QED BY <3>2, <3>3
  <2>2. \A d \in initialized \cap (dependent' \cup (sc \cup av)) : Sealed[d] \subseteq ready'
    BY <1>4, <1>6, <1>11, <1>12, <1>16 DEF Readable
  <2>3. \A d \in unread' : Sealed[d] # {}
    BY <1>6, <1>12, <1>14
  <2>4. \A d \in dependent' : IsApriori(d) => Sealed[d] # {}
    BY <1>6, <1>12, <1>13
  <2>5. \A w \in known' \ NoPath : ToSet(Apriori[w]) \subseteq initialized \cup (sc \cup av)
    BY <1>2, <1>6
  <2>6. \A d \in Waiting' : OnceAtMost(started', d)
    BY <1>7, <2>1 DEF Waiting
  <2>7. \A d \in (initialized \cap (dependent \cup ToSet(scheduled)))' : Readable(d)'
    BY <1>7, <2>2 DEF Readable
  <2>8. ToSet(started') \subseteq initialized'
    BY <1>6
  <2>9. \A w \in known' \ NoPath : ToSet(Apriori[w]) \subseteq (initialized \cup ToSet(scheduled))'
    BY <1>7, <2>5
  <2> QED BY <2>3, <2>4, <2>6, <2>7, <2>8, <2>9 DEF StartedOnce, OnceAtMost, IsApriori
<1> QED BY <1>17, <1>18

Places(s, a, u) ==
  /\ Len(s) \in Nat /\ Len(a) \in Nat /\ Len(u) = Len(s) + Len(a)
  /\ DOMAIN a = 1..Len(a)
  /\ \A i \in 1..Len(s) : i \in 1..Len(u) /\ u[i] = s[i]
  /\ \A i \in 1..Len(a) : Len(s) + i \in 1..Len(u) /\ u[Len(s) + i] = a[i]
  /\ \A i \in 1..Len(u) : i \in 1..Len(s) \/ \E k \in 1..Len(a) : i = Len(s) + k

LEMMA JoinedPlaces ==
  ASSUME NEW S, NEW s \in Seq(S), NEW a \in Seq(S), NEW u, u = s \o a
  PROVE  Places(s, a, u)
<1>1. /\ Len(s) \in Nat /\ Len(a) \in Nat /\ Len(u) = Len(s) + Len(a)
      /\ DOMAIN a = 1..Len(a)
  BY Joined
<1>2. \A i \in 1..Len(s) : i \in 1..Len(u) /\ u[i] = s[i]
  BY Joined
<1>3. \A i \in 1..Len(a) : Len(s) + i \in 1..Len(u) /\ u[Len(s) + i] = a[i]
  BY Joined
<1>4. \A i \in 1..Len(u) : i \in 1..Len(s) \/ \E k \in 1..Len(a) : i = Len(s) + k
  BY Joined
<1> QED BY <1>1, <1>2, <1>3, <1>4 DEF Places

LEMMA FoundMet ==
  ASSUME CoreAssumption, DataOK, Queues, NEW v \in Volumes, ready \subseteq ready',
         scheduled' = scheduled \o Apriori[v], initialized' = initialized,
         NEW p \in 1..Len(scheduled')
  PROVE  Met(scheduled, initialized, p)'
<1>1. PICK s, a, u : s = scheduled /\ a = Apriori[v] /\ u = s \o a
  OBVIOUS
<1>2. /\ s \in Seq(Drivers) /\ a \in Seq(Drivers) /\ IsInjective(a) /\ scheduled' = u
      /\ ToSet(a) \subseteq ToSet(Files[v])
  BY <1>1 DEF CoreAssumption, DataOK
<1>3. /\ Len(s) \in Nat /\ Len(a) \in Nat /\ Len(u) = Len(s) + Len(a)
      /\ DOMAIN a = 1..Len(a)
      /\ \A i \in 1..Len(s) : i \in 1..Len(u) /\ u[i] = s[i]
      /\ \A i \in 1..Len(a) : Len(s) + i \in 1..Len(u) /\ u[Len(s) + i] = a[i]
      /\ \A i \in 1..Len(u) : i \in 1..Len(s) \/ \E k \in 1..Len(a) : i = Len(s) + k
  <2>1. u = s \o a /\ s \in Seq(Drivers) /\ a \in Seq(Drivers)
    BY <1>1, <1>2
  <2>2. Places(s, a, u)
    BY <2>1, JoinedPlaces
  <2> QED BY <2>2 DEF Places
<1>4. MetAt(u, initialized, ready', p)
  <2>1. CASE p \in 1..Len(s)
    <3>1. MetAt(s, initialized, ready, p)
      BY <1>1, <2>1, MetIs DEF Queues
    <3>2. ASSUME NEW b, First(s, initialized, p, b)
          PROVE  First(u, initialized, p, b)
      <4>1. CASE b \in initialized
        BY <4>1 DEF First
      <4>2. CASE Earlier(s, p, b)
        <5>1. PICK q \in 1..p - 1 : s[q] = b
          BY <4>2 DEF Earlier
        <5>2. q \in 1..Len(s)
          BY <1>3, <2>1
        <5>3. u[q] = b
          BY <1>3, <5>1, <5>2
        <5> QED BY <5>3 DEF First, Earlier
      <4> QED BY <3>2, <4>1, <4>2 DEF First
    <3>3. u[p] = s[p]
      BY <1>3, <2>1
    <3> QED BY <3>1, <3>2, <3>3, MetKept
  <2>2. CASE \E k \in 1..Len(a) : p = Len(s) + k
    <3>1. PICK k \in 1..Len(a) : p = Len(s) + k
      BY <2>2
    <3>2. u[p] = a[k] /\ a[k] \in ToSet(a)
      BY <1>3, <3>1 DEF ToSet
    <3>3. IsApriori(u[p])
      BY <1>1, <3>2 DEF IsApriori
    <3>4. ASSUME NEW w \in Volumes, NEW i \in DOMAIN Apriori[w], NEW j \in DOMAIN Apriori[w],
                 i < j, Apriori[w][j] = u[p]
          PROVE  First(u, initialized, p, Apriori[w][i])
      <4>1. u[p] \in ToSet(Files[w])
        <5>1. u[p] \in ToSet(Apriori[w])
          BY <3>4 DEF ToSet
        <5> QED BY <5>1 DEF CoreAssumption
      <4>2. w = v
        BY <1>2, <3>2, <4>1, OneVolume
      <4>3. i \in 1..Len(a) /\ j \in 1..Len(a) /\ a[j] = a[k]
        BY <1>1, <1>3, <3>2, <3>4, <4>2
      <4>4. j = k
        BY <1>2, <1>3, <4>3 DEF IsInjective
      <4>5. Len(s) + i \in 1..p - 1
        BY <1>3, <3>1, <3>4, <4>3, <4>4
      <4>6. u[Len(s) + i] = Apriori[w][i]
        BY <1>1, <1>3, <4>2, <4>3
      <4> QED BY <4>5, <4>6 DEF First, Earlier
    <3> QED BY <3>3, <3>4 DEF MetAt
  <2> QED BY <1>2, <1>3, <2>1, <2>2
<1>5. PICK done : done = initialized
  OBVIOUS
<1>6. MetAt(u, done, ready', p) /\ u = scheduled' /\ done = initialized'
  BY <1>2, <1>4, <1>5
<1> QED BY <1>6, MetThen

\* The driver that is taken off the queue.
Takes(s, d, u, S) ==
  /\ Len(s) \in Nat \ {0} /\ s[1] = d /\ u \in Seq(S) /\ Len(u) = Len(s) - 1
  /\ \A i \in 1..Len(s) - 1 : u[i] = s[i + 1]
  /\ IsInjective(u) /\ d \notin ToSet(u)
  /\ ToSet(s) = {d} \cup ToSet(u) /\ d \in S

LEMMA TakenOff ==
  ASSUME NEW S, NEW s \in Seq(S), s # <<>>, IsInjective(s), NEW u, u = Tail(s)
  PROVE  Takes(s, Head(s), u, S)
<1>1. /\ Len(s) \in Nat \ {0} /\ Head(s) = s[1] /\ u \in Seq(S)
      /\ Len(u) = Len(s) - 1 /\ \A i \in 1..Len(s) - 1 : u[i] = s[i + 1]
  BY HeadTailProperties
<1>2. DOMAIN s = 1..Len(s) /\ DOMAIN u = 1..Len(s) - 1
  BY <1>1
<1>3. \A i \in 1..Len(s) - 1 : i + 1 \in 1..Len(s) /\ i + 1 # 1 /\ 1 \in 1..Len(s)
  BY <1>1
<1>4. IsInjective(u)
  <2>1. ASSUME NEW i \in 1..Len(s) - 1, NEW j \in 1..Len(s) - 1, u[i] = u[j]
        PROVE  i = j
    <3>1. s[i + 1] = s[j + 1]
      BY <1>1, <2>1
    <3>2. i + 1 = j + 1
      BY <1>2, <1>3, <3>1 DEF IsInjective
    <3> QED BY <3>2
  <2> QED BY <1>2, <2>1 DEF IsInjective
<1>5. Head(s) \notin ToSet(u)
  <2>1. SUFFICES ASSUME NEW i \in 1..Len(s) - 1, u[i] = Head(s) PROVE FALSE
    BY <1>2 DEF ToSet
  <2>2. s[i + 1] = s[1]
    BY <1>1, <2>1
  <2> QED BY <1>2, <1>3, <2>2 DEF IsInjective
<1>6. ToSet(s) = {Head(s)} \cup ToSet(u) /\ Head(s) \in S
  BY HeadSet
<1> QED BY <1>1, <1>4, <1>5, <1>6 DEF Takes

LEMMA AppendOnce ==
  ASSUME NEW S, NEW s \in Seq(S), NEW d \in S, NEW e,
         OnceAtMost(s, e), e # d \/ d \notin ToSet(s)
  PROVE  OnceAtMost(Append(s, d), e)
<1>1. PICK t, n : t = Append(s, d) /\ n = Len(s) + 1
  OBVIOUS
<1>2. /\ DOMAIN s = 1..Len(s) /\ Len(s) \in Nat /\ DOMAIN t = 1..n
      /\ t[n] = d /\ \A i \in 1..Len(s) : t[i] = s[i]
  BY <1>1
<1>3. ASSUME NEW i \in 1..n, t[i] = e
      PROVE  IF e = d THEN i = n ELSE i \in 1..Len(s) /\ s[i] = e
  <2>1. i \in 1..Len(s) \/ i = n
    BY <1>1, <1>2
  <2>2. e = d => \A j \in 1..Len(s) : s[j] # e
    BY <1>2 DEF ToSet
  <2> QED BY <1>2, <1>3, <2>1, <2>2
<1>4. ASSUME NEW i \in DOMAIN t, NEW j \in DOMAIN t, t[i] = e, t[j] = e
      PROVE  i = j
  <2>1. i \in 1..n /\ j \in 1..n
    BY <1>2
  <2>2. CASE e = d
    BY <1>3, <1>4, <2>1, <2>2
  <2>3. CASE e # d
    <3>1. i \in DOMAIN s /\ s[i] = e /\ j \in DOMAIN s /\ s[j] = e
      BY <1>2, <1>3, <1>4, <2>1, <2>3
    <3> QED BY <3>1 DEF OnceAtMost
  <2> QED BY <2>2, <2>3
<1> QED BY <1>1, <1>4 DEF OnceAtMost

\* The driver that is taken off the queue is initialized, and has been started, if at
\* all, before its expression was read at last.
LEMMA DrainedPlaces ==
  ASSUME CoreAssumption, DataOK, Queues, ready \subseteq ready', Drain, NEW d, NEW u,
         d = Head(scheduled), u = Tail(scheduled), Takes(scheduled, d, u, Drivers)
  PROVE  InOnePlace' /\ StartedOnce'
<1>1. /\ scheduled' = u /\ initialized' = initialized \cup {d}
      /\ known' = known /\ discovered' = discovered /\ dependent' = dependent
      /\ unread' = unread
  BY DEF Drain
<1>2. started' = started \/ started' = Append(started, d)
  BY DEF Drain
<1>3. PICK di, sc, su : di = ToSet(discovered) /\ sc = ToSet(scheduled) /\ su = ToSet(u)
  OBVIOUS
<1>4. sc = {d} \cup su /\ d \notin su /\ d \in Drivers /\ IsInjective(u)
  BY <1>3 DEF Takes
<1>5. /\ di = UNION {ToSet(Files[w]) : w \in known \ NoPath}
      /\ di = initialized \cup (dependent \cup unread \cup sc)
      /\ dependent \cap sc = {} /\ dependent \cap unread = {}
      /\ \A e \in initialized \cap (dependent \cup unread \cup sc) : Twice(e)
      /\ \A e \in unread \cap sc : Twice(e) /\ e \notin initialized
      /\ IsInjective(discovered)
  BY <1>3 DEF Queues, InOnePlace, Waiting
<1>6. /\ ToSet(started) \subseteq initialized
      /\ \A e \in dependent \cup unread \cup sc : OnceAtMost(started, e)
      /\ \A e \in initialized \cap (dependent \cup sc) : Readable(e)
      /\ \A e \in unread : Sealed[e] # {}
      /\ \A e \in dependent : IsApriori(e) => Sealed[e] # {}
      /\ \A w \in known \ NoPath : ToSet(Apriori[w]) \subseteq initialized \cup sc
  BY <1>3 DEF Queues, StartedOnce, Waiting
<1>7. started \in Seq(Drivers)
  BY DEF DataOK
<1>8. ToSet(scheduled') = su /\ ToSet(discovered') = di
  BY <1>1, <1>3
<1>9. InOnePlace'
  <2>1. di = initialized' \cup (dependent \cup unread \cup su)
    BY <1>1, <1>4, <1>5
  <2>2. dependent \cap su = {}
    BY <1>4, <1>5
  <2>3. \A e \in initialized' \cap (dependent \cup unread \cup su) : Twice(e)
    BY <1>1, <1>4, <1>5
  <2>4. \A e \in unread \cap su : Twice(e) /\ e \notin initialized'
    BY <1>1, <1>4, <1>5
  <2>5. IsInjective(scheduled') /\ IsInjective(discovered')
    BY <1>1, <1>4, <1>5
  <2> QED BY <1>1, <1>5, <1>8, <2>1, <2>2, <2>3, <2>4, <2>5
          DEF InOnePlace, Waiting, Twice, IsApriori
<1>10. StartedOnce'
  <2>1. ToSet(started') \subseteq initialized'
    <3>1. ToSet(Append(started, d)) = ToSet(started) \cup {d}
      BY <1>4, <1>7, AppendSet
    <3> QED BY <1>1, <1>2, <1>6, <3>1
  <2>2. ASSUME NEW e \in dependent \cup unread \cup su
        PROVE  OnceAtMost(started', e)
    <3>1. OnceAtMost(started, e)
      BY <1>4, <1>6
    <3>2. e # d \/ d \notin ToSet(started)
      BY <1>4, <1>5, <1>6
    <3>3. OnceAtMost(Append(started, d), e)
      BY <1>4, <1>7, <3>1, <3>2, AppendOnce
    <3> QED BY <1>2, <3>1, <3>3
  <2>3. \A e \in Waiting' : OnceAtMost(started', e)
    BY <1>1, <1>8, <2>2 DEF Waiting
  <2>4. \A e \in initialized' \cap (dependent \cup su) : Sealed[e] \subseteq ready'
    BY <1>1, <1>4, <1>5, <1>6 DEF Readable
  <2>5. \A e \in (initialized \cap (dependent \cup ToSet(scheduled)))' : Readable(e)'
    BY <1>1, <1>8, <2>4 DEF Readable
  <2>6. \A w \in known' \ NoPath : ToSet(Apriori[w]) \subseteq (initialized \cup ToSet(scheduled))'
    BY <1>1, <1>4, <1>6, <1>8
  <2>7. (\A e \in unread' : Sealed[e] # {}) /\ \A e \in dependent' : IsApriori(e) => Sealed[e] # {}
    BY <1>1, <1>6
  <2> QED BY <2>1, <2>3, <2>5, <2>6, <2>7 DEF StartedOnce, OnceAtMost, IsApriori
<1> QED BY <1>9, <1>10

LEMMA DrainedQueue ==
  ASSUME CoreAssumption, DataOK, Queues, ready \subseteq ready', Drain
  PROVE  Queues'
<1>1. PICK s, u, d : s = scheduled /\ u = Tail(s) /\ d = Head(s)
  OBVIOUS
<1>2. s # <<>> /\ scheduled' = u /\ initialized' = initialized \cup {d}
  BY <1>1 DEF Drain
<1>3. /\ s \in Seq(Drivers) /\ IsInjective(s)
      /\ \A p \in 1..Len(s) : Met(s, initialized, p)
  BY <1>1 DEF Queues, InOnePlace, DataOK
<1>4. Takes(s, d, u, Drivers)
  BY <1>1, <1>2, <1>3, TakenOff
<1>5. /\ Len(s) \in Nat \ {0} /\ s[1] = d /\ Len(u) = Len(s) - 1
      /\ \A i \in 1..Len(s) - 1 : u[i] = s[i + 1]
  BY <1>4 DEF Takes
<1>6. InOnePlace' /\ StartedOnce'
  BY <1>1, <1>4, DrainedPlaces
<1>7. ASSUME NEW p \in 1..Len(u)
      PROVE  MetAt(u, initialized', ready', p)
  <2>1. p + 1 \in 1..Len(s) /\ u[p] = s[p + 1]
    <3>1. p \in 1..Len(s) - 1
      BY <1>5
    <3>2. p + 1 \in 1..Len(s)
      BY <1>5, <3>1
    <3> QED BY <1>5, <3>1, <3>2
  <2>2. MetAt(s, initialized, ready, p + 1)
    BY <1>3, <2>1, MetIs
  <2>3. ASSUME NEW b, First(s, initialized, p + 1, b)
        PROVE  First(u, initialized', p, b)
    <3>1. CASE b \in initialized
      BY <1>2, <3>1 DEF First
    <3>2. CASE Earlier(s, p + 1, b)
      <4>1. PICK q \in 1..(p + 1) - 1 : s[q] = b
        BY <3>2 DEF Earlier
      <4>2. CASE q = 1
        BY <1>2, <1>5, <4>1, <4>2 DEF First
      <4>3. CASE q # 1
        <5>1. q - 1 \in 1..p - 1 /\ q - 1 \in 1..Len(s) - 1 /\ (q - 1) + 1 = q
          BY <1>5, <4>1, <4>3
        <5>2. u[q - 1] = b
          BY <1>5, <4>1, <5>1
        <5> QED BY <5>1, <5>2 DEF First, Earlier
      <4> QED BY <4>2, <4>3
    <3> QED BY <2>3, <3>1, <3>2 DEF First
  <2>4. PICK n : n = p + 1
    OBVIOUS
  <2> QED BY <2>1, <2>2, <2>3, <2>4, MetKept
<1>8. PICK done : done = initialized'
  OBVIOUS
<1>9. ASSUME NEW p \in 1..Len(scheduled')
      PROVE  Met(scheduled, initialized, p)'
  <2>1. MetAt(u, done, ready', p) /\ u = scheduled' /\ done = initialized'
    BY <1>2, <1>7, <1>8, <1>9
  <2> QED BY <2>1, MetThen
<1> QED BY <1>6, <1>9 DEF Queues

\* The drivers that the search has found, and the expressions that it has read.
LEMMA SearchedPlaces ==
  ASSUME InOnePlace, StartedOnce, scheduled = <<>>, ready \subseteq ready',
         IsInjective(scheduled'), ToSet(scheduled') \subseteq Dependents,
         dependent' = Dependents \ ToSet(scheduled'), unread' = unread \ Reread,
         UNCHANGED <<known, discovered, initialized, started>>
  PROVE  InOnePlace' /\ StartedOnce'
<1>1. PICK di, su, re : di = ToSet(discovered) /\ su = ToSet(scheduled') /\ re = Reread
  OBVIOUS
<1>2. ToSet(scheduled) = {}
  BY DEF ToSet
<1>3. /\ di = UNION {ToSet(Files[w]) : w \in known \ NoPath}
      /\ di = initialized \cup (dependent \cup unread) /\ dependent \cap unread = {}
      /\ \A e \in initialized \cap (dependent \cup unread) : Twice(e)
      /\ IsInjective(discovered)
  BY <1>1, <1>2 DEF InOnePlace, Waiting
<1>4. /\ ToSet(started) \subseteq initialized
      /\ \A e \in dependent \cup unread : OnceAtMost(started, e)
      /\ \A e \in initialized \cap dependent : Readable(e)
      /\ \A e \in unread : Sealed[e] # {}
      /\ \A e \in dependent : IsApriori(e) => Sealed[e] # {}
      /\ \A w \in known \ NoPath : ToSet(Apriori[w]) \subseteq initialized
  BY <1>2 DEF StartedOnce, Waiting
<1>5. /\ re \subseteq unread /\ \A e \in re : Readable(e)
      /\ su \subseteq dependent \cup re
      /\ dependent' = (dependent \cup re) \ su /\ unread' = unread \ re
  BY <1>1 DEF Reread, Dependents
<1>6. dependent' \cup unread' \cup su = dependent \cup unread
  BY <1>5
<1>7. InOnePlace'
  <2>1. dependent' \cap su = {} /\ dependent' \cap unread' = {} /\ unread' \cap su = {}
    BY <1>3, <1>5
  <2> QED BY <1>1, <1>3, <1>6, <2>1 DEF InOnePlace, Waiting, Twice, IsApriori
<1>8. StartedOnce'
  <2>1. \A e \in Waiting' : OnceAtMost(started', e)
    BY <1>1, <1>4, <1>6 DEF Waiting
  <2>2. \A e \in (initialized \cap (dependent \cup ToSet(scheduled)))' : Readable(e)'
    BY <1>1, <1>4, <1>5 DEF Readable
  <2>3. (\A e \in unread' : Sealed[e] # {}) /\ \A e \in dependent' : IsApriori(e) => Sealed[e] # {}
    BY <1>4, <1>5
  <2> QED BY <1>4, <2>1, <2>2, <2>3 DEF StartedOnce, OnceAtMost, IsApriori
<1> QED BY <1>7, <1>8

LEMMA PrecedesEarlier ==
  ASSUME NEW S, NEW s \in Seq(S), IsInjective(s), NEW p \in 1..Len(s), NEW b,
         Precedes(s, b, s[p])
  PROVE  Earlier(s, p, b)
<1>1. PICK i, j \in 1..Len(s) : i < j /\ s[i] = b /\ s[j] = s[p]
  BY DEF Precedes
<1>2. j = p
  <2>1. DOMAIN s = 1..Len(s)
    OBVIOUS
  <2> QED BY <1>1, <2>1 DEF IsInjective
<1>3. i \in 1..p - 1
  BY <1>1, <1>2
<1> QED BY <1>1, <1>3 DEF Earlier

LEMMA SearchedQueue ==
  ASSUME CoreAssumption, DataOK, Queues, ready' = ready, Search
  PROVE  Queues'
<1>1. PICK u, done : u = scheduled' /\ done = initialized'
  OBVIOUS
<1>2. /\ scheduled = <<>> /\ dependent' = Dependents \ ToSet(u) /\ unread' = unread \ Reread
      /\ UNCHANGED <<known, discovered, initialized, started>>
  BY <1>1 DEF Search, Dependents
<1>3. PICK di, su : di = ToSet(discovered) /\ su = ToSet(u)
  OBVIOUS
<1>4. /\ di = UNION {ToSet(Files[w]) : w \in known \ NoPath}
      /\ di = initialized \cup (dependent \cup unread) /\ Dependents \subseteq di
      /\ IsInjective(discovered)
      /\ \A e \in unread : Sealed[e] # {}
      /\ \A w \in known \ NoPath : ToSet(Apriori[w]) \subseteq initialized
  <2>1. ToSet(scheduled) = {}
    BY <1>2 DEF ToSet
  <2> QED BY <1>3, <2>1 DEF Queues, InOnePlace, StartedOnce, Waiting, Dependents, Reread
<1>5. /\ u \in Seq(Drivers) /\ IsInjective(u) /\ su \subseteq Dependents
      /\ \A x \in su :
           /\ Needs[x] \subseteq ready \/ Before[x] # NoDriver \/ After[x] # NoDriver
           /\ After[x] # NoDriver => Precedes(u, After[x], x)
           /\ \A b \in dependent : Before[b] = x => Precedes(u, b, x)
  <2>1. Dependents \subseteq ToSet(discovered)
    BY <1>3, <1>4
  <2>2. /\ scheduled' \in Seq(Drivers) /\ IsInjective(scheduled')
        /\ ToSet(scheduled') \subseteq Dependents
        /\ \A x \in ToSet(scheduled') :
             /\ Needs[x] \subseteq ready \/ Before[x] # NoDriver \/ After[x] # NoDriver
             /\ After[x] # NoDriver => Precedes(scheduled', After[x], x)
             /\ \A b \in dependent : Before[b] = x => Precedes(scheduled', b, x)
    BY <1>4, <2>1, Searched
  <2> QED BY <1>1, <1>3, <2>2
<1>6. InOnePlace' /\ StartedOnce'
  BY <1>1, <1>2, <1>3, <1>5, SearchedPlaces DEF Queues
<1>7. ASSUME NEW p \in 1..Len(u)
      PROVE  MetAt(u, initialized, ready, p)
  <2>1. PICK x : x = u[p]
    OBVIOUS
  <2>2. x \in su
    <3>1. DOMAIN u = 1..Len(u)
      BY <1>5
    <3> QED BY <1>3, <2>1, <3>1 DEF ToSet
  <2>3. PICK w \in known \ NoPath : x \in ToSet(Files[w])
    BY <1>4, <1>5, <2>2
  <2>4. w \in Volumes
    BY DEF DataOK
  <2>5. Needs[x] \subseteq ready \/ Before[x] # NoDriver \/ After[x] # NoDriver
    BY <1>5, <2>2
  <2>6. \A b : Precedes(u, b, x) => First(u, initialized, p, b)
    BY <1>5, <2>1, PrecedesEarlier DEF First
  <2>7. After[x] # NoDriver => First(u, initialized, p, After[x])
    BY <1>5, <2>2, <2>6
  <2>8. ASSUME NEW b \in Drivers, NEW v \in Volumes, Before[b] = x,
               {b, x} \subseteq ToSet(Files[v]), Sealed[b] = {}
        PROVE  First(u, initialized, p, b)
    <3>1. w = v
      BY <2>3, <2>4, <2>8, OneVolume
    <3>2. b \in di
      BY <1>4, <2>8, <3>1
    <3>3. b \in initialized \/ b \in dependent
      BY <1>4, <2>8, <3>2
    <3>4. CASE b \in initialized
      BY <3>4 DEF First
    <3>5. CASE b \in dependent
      BY <1>5, <2>2, <2>6, <2>8, <3>5
    <3> QED BY <3>3, <3>4, <3>5
  <2>9. ASSUME NEW v \in Volumes, NEW i \in DOMAIN Apriori[v], NEW j \in DOMAIN Apriori[v],
               Apriori[v][j] = x
        PROVE  First(u, initialized, p, Apriori[v][i])
    <3>1. x \in ToSet(Files[v])
      <4>1. x \in ToSet(Apriori[v])
        BY <2>9 DEF ToSet
      <4> QED BY <4>1 DEF CoreAssumption
    <3>2. w = v
      BY <2>3, <2>4, <3>1, OneVolume
    <3>3. Apriori[v][i] \in ToSet(Apriori[v])
      BY DEF ToSet
    <3> QED BY <1>4, <3>2, <3>3 DEF First
  <2> QED BY <2>1, <2>5, <2>7, <2>8, <2>9 DEF MetAt
<1>8. ASSUME NEW p \in 1..Len(scheduled')
      PROVE  Met(scheduled, initialized, p)'
  <2>1. MetAt(u, done, ready', p) /\ u = scheduled' /\ done = initialized'
    BY <1>1, <1>2, <1>7, <1>8
  <2> QED BY <2>1, MetThen
<1> QED BY <1>6, <1>8 DEF Queues

\* A search that finds nobody has read expressions all the same.
LEMMA EndedQueue ==
  ASSUME Queues, ready' = ready, DispatcherEnds
  PROVE  Queues'
<1>1. /\ scheduled = <<>> /\ scheduled' = <<>> /\ dependent' = Dependents
      /\ unread' = unread \ Reread /\ UNCHANGED <<known, discovered, initialized, started>>
  BY DEF DispatcherEnds, Dependents
<1>2. ToSet(scheduled') = {} /\ IsInjective(scheduled')
  BY <1>1 DEF ToSet, IsInjective
<1>3. InOnePlace' /\ StartedOnce'
  BY <1>1, <1>2, SearchedPlaces DEF Queues
<1>4. \A p \in 1..Len(scheduled') : FALSE
  BY <1>1
<1> QED BY <1>3, <1>4 DEF Queues

LEMMA QueuesSame ==
  ASSUME Queues, ready \subseteq ready', known' \ NoPath = known \ NoPath,
         UNCHANGED <<discovered, dependent, initialized, unread, scheduled, started>>
  PROVE  Queues'
<1>1. InOnePlace'
  BY DEF Queues, InOnePlace, Waiting, Twice, IsApriori
<1>2. StartedOnce'
  <2>1. \A d : Readable(d) => Readable(d)'
    BY DEF Readable
  <2> QED BY <2>1 DEF Queues, StartedOnce, Waiting, OnceAtMost, IsApriori
<1>3. PICK s, done : s = scheduled /\ done = initialized
  OBVIOUS
<1>4. ASSUME NEW p \in 1..Len(scheduled')
      PROVE  Met(scheduled, initialized, p)'
  <2>1. MetAt(s, done, ready, p)
    BY <1>3, <1>4, MetIs DEF Queues
  <2>2. MetAt(s, done, ready', p)
    BY <2>1, MetKept
  <2>3. s = scheduled' /\ done = initialized'
    BY <1>3
  <2> QED BY <2>2, <2>3, MetThen
<1> QED BY <1>1, <1>2, <1>4 DEF Queues

\* No driver starts or is queued before those that have to go first.
LEMMA QueuesStep ==
  ASSUME CoreAssumption, IInv, WalksHold, Queues, Next
  PROVE  Queues'
<1>1. DataOK /\ ready \subseteq ready'
  BY Effects, ListsStep DEF IInv
<1>2. CASE UNCHANGED <<known, discovered, dependent, initialized, unread, scheduled, started>>
  BY <1>1, <1>2, QueuesSame
<1>3. CASE FindVolume
  <2>1. PICK v : v = volumes[Top.n]
    OBVIOUS
  <2>2. /\ known' = known \cup {v} /\ initialized' = initialized /\ started' = started
    BY <1>3, <2>1 DEF FindVolume
  <2>3. CASE v \in known \cup NoPath
    <3>1. known' \ NoPath = known \ NoPath
      BY <2>2, <2>3
    <3>2. UNCHANGED <<discovered, dependent, initialized, unread, scheduled, started>>
      BY <1>3, <2>1, <2>3 DEF FindVolume
    <3> QED BY <1>1, <3>1, <3>2, QueuesSame
  <2>4. CASE v \notin known \cup NoPath
    <3>1. /\ discovered' = discovered \o Files[v]
          /\ dependent' = dependent \cup {d \in ToSet(Files[v]) \ ToSet(Apriori[v]) : Readable(d)}
          /\ unread' = unread \cup {d \in ToSet(Files[v]) : ~Readable(d)}
          /\ scheduled' = scheduled \o Apriori[v]
      BY <1>3, <2>1, <2>4 DEF FindVolume
    <3>2. v \in Volumes
      <4>1. Top.n \in 1..Len(volumes)
        <5>1. Shape(Top) /\ Top \in Frames /\ Top.at = "find" /\ Top.n <= Len(volumes)
          BY <1>3, ControlFacts DEF IInv, FindVolume, At
        <5>2. Top.n \in Nat /\ Top.n # 0
          BY <5>1 DEF Shape, Frames
        <5> QED BY <1>1, <5>1, <5>2 DEF DataOK
      <4> QED BY <1>1, <2>1, <4>1 DEF DataOK
    <3>3. InOnePlace' /\ StartedOnce'
      BY <1>1, <2>2, <2>4, <3>1, <3>2, FoundPlaces DEF Queues
    <3>4. \A p \in 1..Len(scheduled') : Met(scheduled, initialized, p)'
      BY <1>1, <2>2, <3>1, <3>2, FoundMet
    <3> QED BY <3>3, <3>4 DEF Queues
  <2> QED BY <2>3, <2>4
<1>4. CASE Drain
  BY <1>1, <1>4, DrainedQueue
<1>5. CASE Search
  <2>1. ready' = ready
    BY <1>5 DEF Search, world
  <2> QED BY <1>1, <1>5, <2>1, SearchedQueue
<1>6. CASE DispatcherEnds
  <2>1. ready' = ready
    BY <1>6 DEF DispatcherEnds, world
  <2> QED BY <1>1, <1>6, <2>1, EndedQueue
<1> QED BY <1>2, <1>3, <1>4, <1>5, <1>6, ListMoves

LEMMA QueuesInit ==
  ASSUME Init
  PROVE  Queues
<1>1. /\ known = {} /\ discovered = <<>> /\ dependent = {} /\ initialized = {}
      /\ unread = {} /\ scheduled = <<>> /\ started = <<>>
  BY DEF Init
<1>2. ToSet(discovered) = {} /\ ToSet(scheduled) = {} /\ ToSet(started) = {}
  BY <1>1 DEF ToSet
<1>3. IsInjective(discovered) /\ IsInjective(scheduled)
  BY <1>1 DEF IsInjective
<1>4. \A p \in 1..Len(scheduled) : FALSE
  BY <1>1
<1>5. InOnePlace /\ StartedOnce
  BY <1>1, <1>2, <1>3 DEF InOnePlace, StartedOnce, Waiting
<1> QED BY <1>4, <1>5 DEF Queues

-----------------------------------------------------------------------------
(* Once SMRAM is locked. *)

Locked == "SmmReadyToLock" \in ready
Dispatching(f) == f.at \in {"find", "drain"}

\* Only its handler announces that SMRAM is about to be locked.
LEMMA LockedBefore ==
  ASSUME CoreAssumption, TypedStack, Control, Effected, Locked', ~ReadyToLockHandler
  PROVE  Locked
<1>1. CASE ready' = ready
  BY <1>1 DEF Locked
<1>2. CASE EndOfDxeHandler
  <2>1. ready' = ready \cup {"SmmEndOfDxe"}
    BY <1>2 DEF EndOfDxeHandler
  <2> QED BY <2>1 DEF Locked
<1>3. CASE StartDriver
  <2>1. Top.at = "start" /\ ready' = ready \cup Installs[Top.who] /\ Shape(Top)
    BY <1>3, ControlFacts DEF StartDriver, At
  <2>2. Top.who \in Drivers
    BY <2>1 DEF Shape, Starting
  <2>3. "SmmReadyToLock" \notin Installs[Top.who]
    BY <2>2 DEF CoreAssumption
  <2> QED BY <2>1, <2>3 DEF Locked
<1> QED BY <1>1, <1>2, <1>3 DEF Effected

LEMMA NothingLeft ==
  ASSUME NEW S, NEW s \in Seq(S), ToSet(s) = {}
  PROVE  s = <<>>
<1>1. SUFFICES ASSUME s # <<>> PROVE FALSE
  OBVIOUS
<1>2. 1 \in DOMAIN s
  BY <1>1
<1> QED BY <1>2 DEF ToSet

\* The handler that starts the drivers is off its list, and nobody registers it again.
LEMMA DispatchOff ==
  ASSUME CoreAssumption, IInv, WalksHold, LockedOut, Effected, Locked'
  PROVE  handlers'["dispatch"] = <<>>
<1>1. DataOK /\ TypedStack /\ Control /\ Standing(stack, handlers) /\ Listed(handlers)
  BY DEF IInv, WalksHold, Walked
<1>2. "dispatch" \in CoreTypes /\ "dispatch" \in Types /\ DOMAIN handlers = Types
  BY <1>1 DEF Types, CoreTypes, DataOK
<1>3. CASE ReadyToLockHandler
  <2>1. PICK s : s = handlers["dispatch"]
    OBVIOUS
  <2>2. PICK v, w : v = Without("dispatch", "dispatch") /\ w = Without("lock", "lock")
    OBVIOUS
  <2>3. handlers' = [handlers EXCEPT !["dispatch"] = v, !["lock"] = w]
    BY <1>3, <2>2 DEF ReadyToLockHandler
  <2>4. handlers'["dispatch"] = v
    BY <1>2, <2>3
  <2>5. s \in Seq({"dispatch"})
    BY <1>1, <1>2, <2>1 DEF DataOK, Keepers
  <2>6. PICK e : e = ToSet(s) \ {"dispatch"}
    OBVIOUS
  <2>7. e = {}
    BY <2>5, <2>6 DEF ToSet
  <2>8. v = Only(s, e)
    BY <2>1, <2>2, <2>6 DEF Without
  <2>9. Only(s, e) \in Seq({"dispatch"}) /\ ToSet(Only(s, e)) = ToSet(s) \cap e
    BY <2>5, OnlyKeeps
  <2>10. v \in Seq({"dispatch"}) /\ ToSet(v) = {}
    BY <2>7, <2>8, <2>9
  <2>11. v = <<>>
    BY <2>10, NothingLeft
  <2> QED BY <2>4, <2>11
<1>4. CASE ~ReadyToLockHandler
  <2>1. handlers["dispatch"] = <<>>
    BY <1>1, <1>4, LockedBefore DEF LockedOut, Locked
  <2>2. CASE DriverHandler
    <3>1. Caller.type \notin CoreTypes
      <4>1. Top.at = "handler" /\ Top.at \in HandlerLabels
        BY <2>2 DEF DriverHandler, At, HandlerLabels
      <4> QED BY <1>1, <4>1, HandlerOn
    <3>2. PICK w : w = Without(Caller.type, Top.who)
      OBVIOUS
    <3>3. handlers' = handlers \/ handlers' = [handlers EXCEPT ![Caller.type] = w]
      BY <1>1, <2>2, <3>2, HandledList
    <3> QED BY <1>2, <2>1, <3>1, <3>3
  <2>3. CASE StartDriver
    <3>1. Top.at = "start" /\ Shape(Top)
      BY <1>1, <2>3, ControlFacts DEF StartDriver, At
    <3>2. Top.who \in Drivers
      BY <3>1 DEF Shape, Starting
    <3>3. PICK r : r = Registers[Top.who]
      OBVIOUS
    <3>4. r # "dispatch"
      <4>1. r \in UserTypes \cup {"root", NoType}
        BY <3>2, <3>3 DEF CoreAssumption
      <4>2. "dispatch" \notin UserTypes /\ "dispatch" # NoType
        BY <1>2 DEF CoreAssumption
      <4> QED BY <4>1, <4>2
    <3>5. PICK w : w = Append(handlers[r], Top.who)
      OBVIOUS
    <3>6. handlers' = handlers \/ handlers' = [handlers EXCEPT ![r] = w]
      BY <2>3, <3>3, <3>5 DEF StartDriver
    <3> QED BY <1>2, <2>1, <3>4, <3>6
  <2> QED BY <1>4, <2>1, <2>2, <2>3 DEF Effected
<1> QED BY <1>3, <1>4

\* The dispatcher stands upon a walk over its own list, and is not on the stack below
\* the handler that locks SMRAM.
LEMMA NotBelowLock ==
  ASSUME TypedStack, Control, Layered(stack), Top.at = "lock", NEW i \in 1..Depth
  PROVE  ~Dispatching(stack[i])
<1>1. SUFFICES ASSUME Dispatching(stack[i]) PROVE FALSE
  OBVIOUS
<1>2. Depth \in Nat \ {0} /\ Chain(stack)
  BY ControlFacts
<1>3. i # Depth /\ i # 1
  BY <1>1, <1>2 DEF Dispatching, Chain, Top
<1>4. PICK k : k = i - 1
  OBVIOUS
<1>5. k \in 1..Depth - 1 /\ k + 1 = i /\ k < Depth /\ k \in 1..Depth /\ Depth \in 1..Depth
  BY <1>2, <1>3, <1>4
<1>6. Fits(stack[k], stack[i])
  BY <1>2, <1>5 DEF Chain
<1>7. stack[k].at = "managing" /\ stack[k].type = "dispatch"
  BY <1>1, <1>6 DEF Dispatching, Fits, HandlerLabels, CoreTypes, CoreHandlers
<1>8. Strata(stack[k], Top)
  BY <1>5, <1>7 DEF Layered, Walks, Top
<1> QED BY <1>7, <1>8 DEF Strata

LEMMA NoDispatch ==
  ASSUME CoreAssumption, IInv, WalksHold, LockedOut, Effected, Locked', NEW t, NEW b,
         t = stack', Follows(t, b), NEW i \in 1..Len(t)
  PROVE  ~Dispatching(t[i])
<1>1. SUFFICES ASSUME Dispatching(t[i]) PROVE FALSE
  OBVIOUS
<1>2. DataOK /\ TypedStack /\ Control /\ Layered(stack) /\ Standing(stack, handlers)
  BY DEF IInv, WalksHold, Walked
<1>3. /\ Depth \in Nat \ {0} /\ Depth \in 1..Depth /\ Len(t) \in Nat
      /\ \A k \in 1..Depth - 1 : k \in 1..Depth /\ Same(t[k], stack[k])
      /\ i \in 1..Depth - 1 \/ (i = Depth /\ Len(t) >= Depth) \/ (i = Depth + 1 /\ Len(t) = Depth + 1)
  BY <1>2, FollowFacts
<1>4. CASE i \in 1..Depth - 1 \/ (i = Depth /\ Len(t) >= Depth)
  <2>1. Dispatching(stack[i]) /\ i \in 1..Depth
    <3>1. CASE i \in 1..Depth - 1
      BY <1>1, <1>3, <3>1 DEF Same, Dispatching
    <3>2. CASE i = Depth /\ Len(t) >= Depth
      <4>1. Turned(Top, t[i])
        <5>1. Len(t) # Depth - 1
          BY <1>3, <3>2
        <5> QED BY <3>2, <5>1 DEF Follows, Moved
      <4> QED BY <1>1, <1>3, <3>2, <4>1 DEF Turned, Turns, Dispatching, Top
    <3> QED BY <1>4, <3>1, <3>2
  <2>2. ~ReadyToLockHandler
    <3>1. ReadyToLockHandler => Top.at = "lock"
      BY DEF ReadyToLockHandler, At
    <3> QED BY <1>2, <2>1, <3>1, NotBelowLock
  <2> QED BY <1>2, <2>1, <2>2, LockedBefore DEF LockedOut, Locked, Dispatching
<1>5. CASE i = Depth + 1 /\ Len(t) = Depth + 1
  <2>1. Pushed(Top, t[Depth], t[i]) /\ Fits(t[Depth], t[i])
    <3>1. Depth \in 1..Len(t) - 1
      BY <1>3, <1>5
    <3> QED BY <1>5, <3>1 DEF Follows, Moved, Chain
  <2>2. t[i].at = "find" /\ t[i].at \in HandlerLabels
    BY <1>1, <2>1 DEF Pushed, Dispatching, HandlerLabels
  <2>3. t[Depth].type = "dispatch"
    BY <2>1, <2>2 DEF Fits, CoreTypes, CoreHandlers
  <2>4. ToSet(handlers["dispatch"]) # {}
    BY <2>1, <2>2, <2>3 DEF Pushed
  <2>5. ~ReadyToLockHandler
    <3>1. SUFFICES ASSUME ReadyToLockHandler PROVE FALSE
      OBVIOUS
    <3>2. PICK ret, reply : HandlerReturns(ret, reply)
      BY <3>1 DEF ReadyToLockHandler
    <3>3. PICK f : f = stack' /\ DOMAIN f = 1..Depth - 1
      BY <3>2 DEF HandlerReturns
    <3>4. DOMAIN t = 1..Depth - 1
      BY <3>3
    <3>5. DOMAIN t = 1..Depth + 1
      <4>1. t \in Seq(Frames)
        BY <1>2, FollowFacts
      <4> QED BY <1>5, <4>1
    <3>6. Depth + 1 \in 1..Depth + 1 /\ Depth + 1 \notin 1..Depth - 1
      BY <1>3
    <3> QED BY <3>4, <3>5, <3>6
  <2>6. handlers["dispatch"] = <<>>
    BY <1>2, <2>5, LockedBefore DEF LockedOut, Locked
  <2> QED BY <2>4, <2>6 DEF ToSet
<1> QED BY <1>3, <1>4, <1>5

LEMMA LockedOutStep ==
  ASSUME CoreAssumption, IInv, IInv', WalksHold, LockedOut, Next
  PROVE  LockedOut'
<1>1. SUFFICES ASSUME Locked'
               PROVE  /\ handlers'["dispatch"] = <<>>
                      /\ \A i \in 1..Len(stack') : ~Dispatching(stack'[i])
  BY DEF LockedOut, Locked, Dispatching
<1>2. Effected
  BY Effects
<1>3. handlers'["dispatch"] = <<>>
  BY <1>1, <1>2, DispatchOff
<1>4. CASE Moved(stack')
  <2>1. PICK t, b : t = stack' /\ b = buffer'
    OBVIOUS
  <2>2. Follows(stack', b)
    BY <1>4, <2>1 DEF IInv, Control, Controlled, Structure, Follows
  <2>3. Follows(t, b)
    BY <2>1, <2>2
  <2>4. \A i \in 1..Len(t) : ~Dispatching(t[i])
    BY <1>1, <1>2, <2>1, <2>3, NoDispatch
  <2> QED BY <1>3, <2>1, <2>4
<1>5. CASE stack' = stack /\ ~Moved(stack')
  <2>1. Known
    BY DEF IInv, Known, TypedStack
  <2>2. ~ReadyToLockHandler
    BY <1>5, <2>1, HandlersMove
  <2>3. Locked
    BY <1>1, <1>2, <2>2, LockedBefore DEF IInv
  <2> QED BY <1>3, <1>5, <2>3 DEF LockedOut, Locked, Dispatching
<1> QED BY <1>4, <1>5, Moves

\* The rules of the dispatcher: every driver that has been found is in one place (only an
\* a priori driver whose expression could not be read when it was found may be started, or
\* in the queue, and wait for its expression), none of them is missing, what stands in the
\* queue stands behind what has to go before it, and once SMRAM is locked the dispatcher
\* does not run.
THEOREM QueuesInvariance == Spec => [](LockedOut /\ Queues)
<1>1. Init => LockedOut /\ Queues
  <2>1. Init => LockedOut
    BY DEF Init, LockedOut
  <2> QED BY <2>1, QueuesInit
<1>2. IInv /\ IInv' /\ WalksHold /\ LockedOut /\ Queues /\ [Next]_vars => LockedOut' /\ Queues'
  <2> SUFFICES ASSUME IInv, IInv', WalksHold, LockedOut, Queues, [Next]_vars
               PROVE  LockedOut' /\ Queues'
    OBVIOUS
  <2>1. CASE Next
    BY <2>1, CoreAssumption, LockedOutStep, QueuesStep
  <2>2. CASE UNCHANGED vars
    <3>1. UNCHANGED <<stack, handlers, ready>>
      BY <2>2 DEF vars
    <3>2. LockedOut'
      BY <3>1 DEF LockedOut
    <3>3. Queues'
      BY <2>2, QueuesSame DEF vars
    <3> QED BY <3>2, <3>3
  <2> QED BY <2>1, <2>2
<1> QED BY <1>1, <1>2, Invariance, WalksInvariance, PTL DEF Spec

LEMMA StartsByDrain ==
  ASSUME DataOK, Next, NEW d \in Drivers, Starts(d)
  PROVE  Drain /\ d = Head(scheduled)
<1>1. started' # started
  <2>1. Len(started') = Len(started) + 1 /\ Len(started) \in Nat
    <3>1. started \in Seq(Drivers)
      BY DEF DataOK
    <3>2. Len(Append(started, d)) = Len(started) + 1
      BY <3>1, Appended
    <3> QED BY <3>1, <3>2 DEF Starts
  <2> QED BY <2>1
<1>2. Drain
  <2>1. ~FindVolume /\ ~Search /\ ~DispatcherEnds
    BY <1>1 DEF FindVolume, Search, DispatcherEnds
  <2> QED BY <1>1, <2>1, ListMoves
<1>3. PICK h : h = Head(scheduled) /\ started' = Append(started, h)
  BY <1>1, <1>2 DEF Drain
<1>4. PICK n : n = Len(started) + 1
  OBVIOUS
<1>5. Head(scheduled) \in Drivers
  BY <1>2, HeadSet DEF Drain, DataOK
<1>6. Append(started, h)[n] = h /\ Append(started, d)[n] = d
  BY <1>3, <1>4, <1>5, Appended DEF DataOK
<1> QED BY <1>2, <1>3, <1>6 DEF Starts

\* A driver is started when what it needs is there, after the drivers of the a priori file
\* and those that its dependency expression and the others of its volume put before it
\* (the ones whose expression could be read when they were found), never after SMRAM was
\* locked, and not twice (SmmDispatcher, SmmIsSchedulable and
\* SmmInsertOnScheduledQueueWhileProcessingBeforeAndAfter): only an a priori driver whose
\* expression could not be read when it was found, and can be read now, is started again,
\* and not a third time.
THEOREM DriversInOrderCorrect == Spec => DriversInOrder
<1> DEFINE P == \A d \in Drivers : Starts(d) =>
       /\ d \in ToSet(started) =>
            /\ IsApriori(d) /\ Sealed[d] # {} /\ Sealed[d] \subseteq ready
            /\ \A i, j \in DOMAIN started : started[i] = d /\ started[j] = d => i = j
       /\ "SmmReadyToLock" \notin ready
       /\ ~IsApriori(d) =>
            /\ Needs[d] \subseteq ready \/ Before[d] # NoDriver \/ After[d] # NoDriver
            /\ After[d] # NoDriver => After[d] \in initialized
            /\ \A b \in Drivers, v \in Volumes :
                 /\ Before[b] = d /\ {b, d} \subseteq ToSet(Files[v]) /\ Sealed[b] = {}
                 => b \in initialized
       /\ \A v \in Volumes : \A i, j \in DOMAIN Apriori[v] :
            i < j /\ Apriori[v][j] = d => Apriori[v][i] \in initialized
<1>1. IInv /\ LockedOut /\ Queues /\ [Next]_vars => [P]_vars
  <2> SUFFICES ASSUME IInv, LockedOut, Queues, Next PROVE P
    OBVIOUS
  <2>1. ASSUME NEW d \in Drivers, Starts(d)
        PROVE  DataOK /\ Drain /\ scheduled[1] = d /\ d \in ToSet(scheduled) /\ Top.at = "drain"
               /\ Len(scheduled) \in Nat \ {0}
    <3>1. DataOK /\ Drain /\ d = Head(scheduled)
      BY <2>1, StartsByDrain DEF IInv
    <3>2. scheduled # <<>> /\ Top.at = "drain"
      BY <3>1 DEF Drain, At
    <3> QED BY <3>1, <3>2, HeadTailProperties, HeadSet DEF DataOK
  <2>2. ASSUME NEW d \in Drivers, Starts(d), d \in ToSet(started)
        PROVE  /\ IsApriori(d) /\ Sealed[d] # {} /\ Sealed[d] \subseteq ready
               /\ \A i, j \in DOMAIN started : started[i] = d /\ started[j] = d => i = j
    <3>1. d \in initialized /\ d \in Waiting
      BY <2>1, <2>2 DEF Queues, StartedOnce, Waiting
    <3>2. Twice(d)
      BY <3>1 DEF Queues, InOnePlace
    <3>3. Readable(d) /\ OnceAtMost(started, d)
      BY <2>1, <2>2, <3>1 DEF Queues, StartedOnce
    <3> QED BY <3>2, <3>3 DEF Twice, Readable, OnceAtMost
  <2>3. ASSUME NEW d \in Drivers, Starts(d)
        PROVE  /\ ~IsApriori(d) =>
                    /\ Needs[d] \subseteq ready \/ Before[d] # NoDriver \/ After[d] # NoDriver
                    /\ After[d] # NoDriver => After[d] \in initialized
                    /\ \A b \in Drivers, v \in Volumes :
                         /\ Before[b] = d /\ {b, d} \subseteq ToSet(Files[v]) /\ Sealed[b] = {}
                         => b \in initialized
               /\ \A v \in Volumes : \A i, j \in DOMAIN Apriori[v] :
                    i < j /\ Apriori[v][j] = d => Apriori[v][i] \in initialized
    <3>1. MetAt(scheduled, initialized, ready, 1)
      BY <2>1, <2>3, MetIs DEF Queues
    <3>2. \A b : First(scheduled, initialized, 1, b) => b \in initialized
      BY DEF First, Earlier
    <3>3. scheduled[1] = d
      BY <2>1, <2>3
    <3> QED BY <3>1, <3>2, <3>3 DEF MetAt
  <2>4. ASSUME NEW d \in Drivers, Starts(d)
        PROVE  "SmmReadyToLock" \notin ready
    <3>1. Depth \in 1..Depth
      BY ControlFacts DEF IInv
    <3>2. Top.at = "drain"
      BY <2>1, <2>4
    <3> QED BY <3>1, <3>2 DEF LockedOut, Top
  <2> QED BY <2>2, <2>3, <2>4
<1> HIDE DEF P
<1>2. Spec => [][P]_vars
  BY <1>1, Invariance, QueuesInvariance, PTL DEF Spec
<1> QED BY <1>2 DEF P, DriversInOrder
=============================================================================
