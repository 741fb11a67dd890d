----------------------------- MODULE SmmCoreInv -----------------------------
(***************************************************************************)
(* What holds of SmmCore at every step and makes its properties hold: which *)
(* frames may stand on which, when InSmm is set, whose request is stored in *)
(* CommunicationBuffer, and what has become of a message.                   *)
(***************************************************************************)
EXTENDS SmmCore

Requests == {"size", "trigger", "sent"}
Posting == Requests \cup {"communicate", "direct", "answered"}
Entries == {"entry", "sync", "root"}
Walks == {"manage", "managing", "astray"}
HandlerLabels == {"handler", "lock", "legacy", "enddxe", "find", "drain"}
Starting == {"start", "calls", "started"}
Notifying == {"notify", "again", "notified"}

Replies == {"clear", "handled", "success", "restart", "error"}
Frames == [at : Labels \cup {"astray"}, type : Types \cup Events \cup {NoType}, up : Nat,
           who : CoreTypes \cup Drivers \cup {NoDriver}, n : Nat, flag : BOOLEAN,
           reply : Replies, ret : Statuses]

\* The handlers that may be on a list: the core keeps the lists of its own messages.
Keepers(type) == IF type \in CoreTypes THEN {type} ELSE Drivers

DataOK ==
  /\ {entry, inSmm, opened, locked, mSmmLocked, closed, legacy, request, running} \subseteq BOOLEAN
  /\ buffer \in Nat /\ size \in Nat
  /\ status \in {"success", "notfound"}
  /\ DOMAIN handlers = Types /\ \A t \in Types : handlers[t] \in Seq(Keepers(t))
  /\ ready \subseteq Protocols \cup {"SmmReadyToLock", "SmmEndOfDxe"}
  /\ volumes \in Seq(Volumes) /\ known \subseteq Volumes
  /\ discovered \in Seq(Drivers) /\ dependent \subseteq Drivers /\ unread \subseteq Drivers
  /\ initialized \subseteq Drivers /\ scheduled \in Seq(Drivers) /\ started \in Seq(Drivers)
  /\ smis \in 0..MaxSmis /\ events \in 0..MaxEvents /\ calls \in 0..MaxCalls

-----------------------------------------------------------------------------
\* What a frame holds by itself.
Shape(f) ==
  /\ f.at \in Posting => f.type \in CoreTypes \cup UserTypes
  /\ f.at \in Walks => f.type \in Types
  /\ f.at \in Notifying => f.type \in Events
  /\ f.at = "again" => f.type = "dispatch"
  /\ f.at = "handler" => f.who \in Drivers
  /\ f.at = "managing" => f.who \in Keepers(f.type)
  /\ f.at \in Starting => f.who \in Drivers
  /\ f.at = "calls" => Calls[f.who] # NoType
  /\ f.at = "find" => f.n # 0
  /\ f.at \in {"entry", "sync", "communicate"} => ~f.flag

\* Which frame may stand on which.
Fits(f, g) ==
  /\ g.at \in Posting =>
       \/ f.at \in {"dxe", "started"} /\ g.type \in UserTypes
       \/ f.at \in {"again", "notified"} /\ g.type = IF f.type = "boot" THEN "lock" ELSE f.type
  /\ g.at \in Notifying => f.at = "dxe" \/ (f.at \in Requests /\ f.flag)
  /\ g.at \in Walks =>
       \/ f.at = "direct" /\ g.type = f.type
       \/ f.at = "sync" /\ g.type \in CoreTypes \cup UserTypes
       \/ f.at = "root" /\ g.type = "root" /\ g.up = 0
  /\ g.at \in HandlerLabels =>
       /\ f.at = "managing" /\ g.up = f.up
       /\ IF g.at = "handler" THEN f.type \notin CoreTypes
          ELSE /\ f.type \in CoreTypes
               /\ g.at = CoreHandlers[f.type] \/ (g.at = "drain" /\ f.type = "dispatch")
  /\ g.at \in Starting => f.at = "drain"
  /\ g.at # "dxe"

Chain(s) ==
  /\ s # <<>> /\ s[1].at = "dxe"
  /\ \A i \in 1..Len(s) : Shape(s[i])
  /\ \A i \in 1..Len(s) - 1 : Fits(s[i], s[i + 1])

\* A walk knows whose message it is about.
Conveyed(s, b) ==
  \A i \in 1..Len(s) - 1 : s[i + 1].at \in Walks =>
    /\ s[i].at = "direct" => s[i + 1].up = i
    /\ s[i].at = "sync" => /\ b \in 1..i /\ s[b].at \in Requests
                           /\ s[i + 1].up = b /\ s[i + 1].type = s[b].type

Served(f) == f.at \in {"sync", "root"} /\ ~f.flag

\* For any two frames, g above f.
Above(f, g) ==
  /\ f.at \in Entries => g.at \notin Entries \cup Requests
  /\ f.at \in {"entry", "root"} =>
       g.at \in Walks \cup {"handler"} /\ (g.at \in Walks => g.type = "root")
  /\ Served(f) /\ g.at = "direct" => g.flag
  /\ f.at \in Requests /\ g.at \in Requests => f.flag
  /\ f.at = "direct" /\ f.type = "legacy" =>
       g.at \in Walks \cup {"legacy"} /\ (g.at \in Walks => g.type = "legacy")

Nested(s) == \A i, j \in 1..Len(s) : i < j => Above(s[i], s[j])

\* Only a message of DXE code itself is interrupted by a notification.
Interrupted(s) == \A i \in 1..Len(s) : s[i].at \in Requests /\ s[i].flag => i = 2

\* Before the entry point is registered there are no SMIs.
NoSmis(s, en) ==
  \A i \in 1..Len(s) :
    /\ s[i].at \in Entries \cup Requests => en
    /\ s[i].at = "direct" /\ s[i].type = "legacy" => ~en

InSmmIs(s, sm) ==
  /\ (\E i \in 1..Len(s) : Served(s[i])) => sm
  /\ sm => \E i \in 1..Len(s) : Served(s[i]) \/ s[i].at = "direct"
  /\ \A j \in 1..Len(s) : s[j].at = "direct" /\ s[j].flag =>
       \E i \in 1..j - 1 : Served(s[i]) \/ s[i].at = "direct"

DirectIs(s, en, sm) ==
  ~en => /\ (\E i \in 1..Len(s) : s[i].at = "direct") => sm
         /\ \A i, j \in 1..Len(s) :
              i < j /\ s[i].at = "direct" /\ s[j].at = "direct" => s[j].flag

Structure(s, en) == Chain(s) /\ Nested(s) /\ Interrupted(s) /\ NoSmis(s, en)

Controlled(s, en, sm, b) ==
  /\ Structure(s, en) /\ Conveyed(s, b)
  /\ InSmmIs(s, sm) /\ DirectIs(s, en, sm)

Control == Controlled(stack, entry, inSmm, buffer)

-----------------------------------------------------------------------------
\* The request that is stored is that of a Communicate, and the last one's.
Pending(s, b, z) ==
  b # 0 =>
    /\ b \in 1..Len(s) /\ s[b].at \in Requests
    /\ \A j \in b + 1..Len(s) : s[j].at \notin Requests
    /\ s[b].at \in {"trigger", "sent"} => z = b
    /\ s[b].at = "sent" => b < Len(s) /\ s[b + 1].at \in {"entry", "sync"}
    /\ \A j \in 1..Len(s) : s[j].at # "root"

Syncs(s) == \E i \in 1..Len(s) : s[i].at = "sync"

LegacyLabels == Requests \cup Entries \cup Walks \cup
  {"dxe", "direct", "answered", "handler", "legacy", "notified"}
InLegacy(s, b, lg) ==
  lg => /\ \A i \in 1..Len(s) : s[i].at \in LegacyLabels
        /\ \A i \in 1..Len(s) : s[i].at \in Walks => s[i].type \in {"legacy", "root"}
        /\ b # 0 => Syncs(s)

\* What has become of a message, as far as the frame itself tells.
Alone(f) ==
  /\ f.at = "communicate" => f.n = 0 /\ f.ret = "none"
  /\ f.at = "entry" => f.ret = "none"
  /\ f.at = "direct" => f.n = 1 /\ (f.ret = "success" => f.reply # "clear")
  /\ f.at = "answered" =>
       /\ f.ret = "success" => f.reply # "clear" \/ f.flag
       /\ f.ret # "invalid" => f.n = 1 \/ (f.flag /\ f.n = 0)
  /\ f.at = "manage" => f.ret = "none" /\ ~f.flag

\* A message that was sent, the stored one and the ones that were stored before it.
Sending(s, i, b, st) ==
  s[i].at \in Requests =>
    IF i = b THEN s[i].n = IF Syncs(s) THEN 1 ELSE 0
    ELSE /\ s[i].n = 1 \/ (s[i].flag /\ s[i].n = 0)
         /\ ~s[i].flag /\ st = "success" => s[i].reply # "clear"

\* A handler that has returned success has answered the caller.
Serving(s, i, b) ==
  s[i].at = "sync" =>
    b \in 1..i - 1 /\ (s[i].ret = "success" => s[b].reply # "clear")
Walking(s, i) ==
  s[i].at \in Walks /\ s[i].up # 0 /\ (s[i].flag \/ s[i].ret \in {"success", "quiesced"}) =>
    s[s[i].up].reply # "clear"

Fated(s, i, b, st) ==
  Alone(s[i]) /\ Sending(s, i, b, st) /\ Serving(s, i, b) /\ Walking(s, i)
Fate(s, b, st) == \A i \in 1..Len(s) : Fated(s, i, b, st)

Asked(s, b, z, lg, st) == Pending(s, b, z) /\ InLegacy(s, b, lg) /\ Fate(s, b, st)
Requested == Asked(stack, buffer, size, legacy, status)

TypedStack == stack \in Seq(Frames)
-----------------------------------------------------------------------------
\* What may stand above a walk: above that of the dispatcher the drivers it starts and
\* the messages they send, above any other one its handler and an SMI for which nobody
\* has stored a request.
Strata(f, g) ==
  IF f.type = "dispatch"
    THEN /\ g.at \notin Notifying \cup {"lock", "legacy", "enddxe", "dxe"}
         /\ g.at \in Walks \cup Posting => g.type \in UserTypes \cup {"root"}
    ELSE \/ g.at \in {"handler", "entry", "root"}
         \/ g.at \in Walks /\ g.type = "root"
         \/ f.type \in CoreTypes /\ g.at = CoreHandlers[f.type]
Layered(s) == \A i, j \in 1..Len(s) : i < j /\ s[i].at \in Walks => Strata(s[i], s[j])

\* A notification in the middle of a Communicate sends its message through an SMI.
Unhurried(s) ==
  Len(s) >= 4 /\ s[2].at \in Requests /\ s[3].at \in Notifying => s[4].at # "direct"

\* A walk stands on a handler of its list, or on one that has ended it; a handler that
\* runs is on the list.
Stands(f, h) ==
  /\ f.at # "astray"
  /\ f.at = "managing" =>
       f.who \in ToSet(h[f.type]) \/ (f.type # "root" /\ f.ret = "success")
Running(f, g, h) ==
  g.at \in HandlerLabels =>
    f.who \in ToSet(h[f.type]) /\ (g.at = "handler" => g.who = f.who)
Standing(s, h) ==
  /\ \A i \in 1..Len(s) : Stands(s[i], h)
  /\ \A i \in 1..Len(s) - 1 : Running(s[i], s[i + 1], h)

Tabled(h) == h = [t \in Types |-> h[t]]

\* A driver is on the list that it registers for.
Listed(h) == \A t \in Types \ CoreTypes : \A d \in ToSet(h[t]) : Registers[d] = t

\* The platform locks SMRAM when SMM CPU I/O is there.
Locking(f) ==
  \/ f.at \in Posting \cup Walks /\ f.type = "lock"
  \/ f.at \in Notifying /\ f.type \in {"lock", "boot"}
Lockable(s, r) == \A i \in 1..Len(s) : Locking(s[i]) => CpuIo \in r

Walked(s, h, r) ==
  Layered(s) /\ Unhurried(s) /\ Standing(s, h)
  /\ Tabled(h) /\ Listed(h) /\ Lockable(s, r)
WalksHold == Walked(stack, handlers, ready)

-----------------------------------------------------------------------------
\* What a dispatcher that has reported success has left behind, and who runs until the
\* notification function that called it has looked at its answer.
Accounted ==
  ToSet(discovered) \subseteq initialized \cup dependent \cup unread \cup ToSet(scheduled)

Complete ==
  /\ scheduled = <<>> /\ ~running
  /\ \A d \in ToSet(discovered) : d \notin initialized => Hopeless(d)

Resting(g) ==
  \/ g.at \in Entries \cup {"handler"}
  \/ g.at \in Walks /\ g.type = "root"
  \/ g.at = "managing" /\ g.type = "dispatch" /\ g.ret = "success"

Settled(s, b, i) ==
  /\ s[i].at \in Requests \cup {"direct", "answered", "again", "notified"}
  /\ s[i].type = "dispatch"
  /\ \A j \in i + 1..Len(s) : Resting(s[j])
  /\ b # 0 => b = i /\ Syncs(s)

Reported(s, b) == \A i \in 1..Len(s) : s[i].reply = "success" => Settled(s, b, i)
Reports(s) == \E i \in 1..Len(s) : s[i].reply = "success"

ReportsHold == Accounted /\ Reported(stack, buffer) /\ (Reports(stack) => Complete)

-----------------------------------------------------------------------------
\* Once SMRAM is locked the dispatcher does not run any more.
LockedOut ==
  "SmmReadyToLock" \in ready =>
    handlers["dispatch"] = <<>> /\ \A i \in 1..Len(stack) : stack[i].at \notin {"find", "drain"}

\* What has to go before the driver at place p of the queue has been started or stands
\* at an earlier place.
Earlier(s, p, d) == \E q \in 1..p - 1 : s[q] = d
Met(s, done, p) ==
  LET d == s[p]
      first(b) == b \in done \/ Earlier(s, p, b)
  IN /\ ~IsApriori(d) =>
          /\ Needs[d] \subseteq ready \/ Before[d] # NoDriver \/ After[d] # NoDriver
          /\ After[d] # NoDriver => first(After[d])
          /\ \A b \in Drivers, v \in Volumes :
               /\ Before[b] = d /\ {b, d} \subseteq ToSet(Files[v]) /\ Sealed[b] = {}
               => first(b)
     /\ \A v \in Volumes : \A i, j \in DOMAIN Apriori[v] :
          i < j /\ Apriori[v][j] = d => first(Apriori[v][i])

\* A driver that may be started twice: it waits in the a priori queue, is started or
\* given up, and goes on waiting for its expression to be read.
Twice(d) == IsApriori(d) /\ Sealed[d] # {}
OnceAtMost(s, d) == \A i, j \in DOMAIN s : s[i] = d /\ s[j] = d => i = j
Waiting == dependent \cup unread \cup ToSet(scheduled)

\* Every driver that was discovered is in one place, but for these.
InOnePlace ==
  /\ IsInjective(discovered) /\ IsInjective(scheduled)
  /\ ToSet(discovered) = UNION {ToSet(Files[v]) : v \in known \ NoPath}
  /\ ToSet(discovered) = initialized \cup Waiting
  /\ dependent \cap ToSet(scheduled) = {} /\ dependent \cap unread = {}
  /\ \A d \in initialized \cap Waiting : Twice(d)
  /\ \A d \in unread \cap ToSet(scheduled) : Twice(d) /\ d \notin initialized

StartedOnce ==
  /\ ToSet(started) \subseteq initialized
  /\ \A d \in Waiting : OnceAtMost(started, d)
  /\ \A d \in initialized \cap (dependent \cup ToSet(scheduled)) : Readable(d)
  /\ \A d \in unread : Sealed[d] # {}
  /\ \A d \in dependent : IsApriori(d) => Sealed[d] # {}
  /\ \A v \in known \ NoPath : ToSet(Apriori[v]) \subseteq initialized \cup ToSet(scheduled)

Queues ==
  InOnePlace /\ StartedOnce /\ \A p \in 1..Len(scheduled) : Met(scheduled, initialized, p)
=============================================================================
