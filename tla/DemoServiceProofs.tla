------------------------- MODULE DemoServiceProofs --------------------------
(***************************************************************************)
(* The demo service, for every number of clients, whatever they request,   *)
(* of ticks and of webhooks: the lock is exclusive, no webhook is lost or  *)
(* overwritten, answers are current and the counters add up.               *)
(***************************************************************************)
EXTENDS DemoService, SequenceTheorems, TLAPS

-----------------------------------------------------------------------------
(* The inductive invariant.                                                *)

Kinds   == {"state", "healthy", "degraded", "unknown", "metrics", "alerts", "list"}
Steps   == {"idle", "answered", "store", "scenario", "ratio", "successes", "errors",
            "decode", "lock", "rlock", "length", "append", "copy", "unlock", "runlock"}
Reading == [scenario : BOOLEAN \cup {Nobody}, ratio : BOOLEAN \cup {Nobody},
            list : Seq(Nat), count : Nat]

TypeOK ==
  /\ session \in [Clients -> SUBSET Kinds]
  /\ degraded \in BOOLEAN /\ successCount \in Nat /\ errorCount \in Nat
  /\ notifications \in Seq(Nat) /\ accepted \subseteq Nat
  /\ writer \in Clients \cup {Nobody} /\ readers \subseteq Clients
  /\ ticks \in Nat /\ sent \in Nat
  /\ pc \in [Clients -> Steps] /\ kind \in [Clients -> Kinds]
  /\ payload \in [Clients -> Nat] /\ seen \in [Clients -> Reading]
  /\ flags \in [Clients -> SUBSET BOOLEAN] /\ known \in [Clients -> SUBSET Nat]

(* Which requests come to which step.                                      *)
Route(c) ==
  /\ pc[c] = "store" => kind[c] \in {"healthy", "degraded", "unknown"}
  /\ pc[c] = "scenario" => kind[c] \in {"state", "healthy", "degraded"}
  /\ pc[c] = "ratio" => kind[c] \in {"state", "healthy", "degraded", "metrics"}
  /\ pc[c] \in {"successes", "errors"} => kind[c] = "metrics"
  /\ pc[c] \in {"decode", "lock", "append", "unlock"} => kind[c] = "alerts"
  /\ pc[c] \in {"rlock", "copy", "runlock"} => kind[c] = "list"
  /\ pc[c] = "length" => kind[c] \in {"alerts", "list"}

Writes(c) == pc[c] \in {"append", "unlock"} \/ (pc[c] = "length" /\ kind[c] = "alerts")
Reads(c)  == pc[c] \in {"copy", "runlock"} \/ (pc[c] = "length" /\ kind[c] = "list")

(* The lock is held from Lock to Unlock and from RLock to RUnlock.         *)
LockHeld ==
  /\ \A c \in Clients : (writer = c <=> Writes(c)) /\ (c \in readers <=> Reads(c))
  /\ writer # Nobody => readers = {}

(* The payload is numbered and not yet in the list.                        *)
Pending(c) ==
  pc[c] \in {"decode", "lock", "append"} \/ (pc[c] = "length" /\ kind[c] = "alerts")

AlertOf(c) ==
  /\ Pending(c) => payload[c] \in (1..sent) \ ToSet(notifications)
  /\ pc[c] = "unlock" => payload[c] \in ToSet(notifications)
  /\ pc[c] \in {"append", "copy"} => seen[c].count = Len(notifications)
  /\ known[c] \subseteq accepted
  /\ pc[c] \in {"runlock", "answered"} /\ kind[c] = "list" =>
       known[c] \subseteq ToSet(seen[c].list) /\ IsPrefix(seen[c].list, notifications)

AlertsNumbered ==
  /\ ToSet(notifications) \subseteq 1..sent /\ IsInjective(notifications)
  /\ accepted \subseteq ToSet(notifications)
  /\ \A c \in Clients : AlertOf(c)
  /\ \A c, d \in Clients : Pending(c) /\ Pending(d) /\ payload[c] = payload[d] => c = d

(* What a handler has read of the scenario was so during its request.      *)
ScenarioCurrent(c) ==
  /\ Busy(c) => degraded \in flags[c]
  /\ pc[c] \in {"ratio", "answered"} /\ kind[c] \in {"state", "healthy", "degraded"} =>
       seen[c].scenario \in flags[c]
  /\ pc[c] \in {"successes", "errors", "answered"}
       /\ kind[c] \in {"state", "healthy", "degraded", "metrics"} => seen[c].ratio \in flags[c]

Balance ==
  /\ traffic \in {"wait", "success", "error", "stopped"}
  /\ traffic \in {"success", "error"} =>
       amount[1] \in Nat /\ amount[2] \in Nat /\ amount[1] + amount[2] = 100
  /\ successCount + errorCount =
       100 * ticks + (IF traffic = "error" THEN amount[1] ELSE 0)

ServiceInv == /\ TypeOK /\ LockHeld /\ AlertsNumbered /\ Balance
              /\ \A c \in Clients : Route(c) /\ ScenarioCurrent(c)

USE DEF memory, lock, loop, process, request

HandlerStep(c) == Handle(c) \/ DecodeAlerts(c) \/ \E k \in session[c] : Begin(c, k)
LoopStep == StartTick \/ AddSuccess \/ AddError \/ StopTraffic
MainStep == Listen \/ Interrupt \/ Shutdown \/ Exit \/ Exited

LEMMA NextSplit ==
  Next <=> MainStep \/ LoopStep \/ \E c \in Clients : HandlerStep(c)
BY DEF Next, MainStep, LoopStep, HandlerStep

(* main and the traffic loop touch no handler and no notification.         *)
LEMMA MainFrame ==
  ASSUME MainStep \/ LoopStep \/ UNCHANGED vars
  PROVE  /\ UNCHANGED <<degraded, notifications, lock, request, pc, seen, accepted, flags>>
         /\ MainStep \/ UNCHANGED vars => UNCHANGED <<successCount, errorCount, loop>>
BY DEF MainStep, LoopStep, Listen, Interrupt, Shutdown, Exit, Exited, StartTick, AddSuccess,
       AddError, StopTraffic, vars

(* A handler moves itself only; others may see the scenario change.        *)
LEMMA HandlerFrame ==
  ASSUME TypeOK, NEW c \in Clients, HandlerStep(c)
  PROVE  /\ \A d \in Clients \ {c} :
              /\ pc'[d] = pc[d] /\ kind'[d] = kind[d] /\ payload'[d] = payload[d]
              /\ seen'[d] = seen[d] /\ known'[d] = known[d] /\ flags[d] \subseteq flags'[d]
         /\ UNCHANGED <<session, successCount, errorCount, loop>>
<1> USE DEF TypeOK, Step
<1>1. CASE RefuseScenario(c) \/ ReadScenario(c) \/ ReadRatio(c) \/ ReadSuccesses(c) \/ ReadErrors(c)
  BY <1>1 DEF RefuseScenario, ReadScenario, ReadRatio, ReadSuccesses, ReadErrors
<1>2. CASE StoreScenario(c)
  BY <1>2 DEF StoreScenario
<1>3. CASE Lock(c) \/ ReadLength(c) \/ AppendAlert(c) \/ Unlock(c)
  BY <1>3 DEF Lock, ReadLength, AppendAlert, Unlock
<1>4. CASE RLock(c) \/ CopyList(c) \/ RUnlock(c) \/ DecodeAlerts(c)
  BY <1>4 DEF RLock, CopyList, RUnlock, DecodeAlerts
<1>5. ASSUME NEW k \in session[c], Begin(c, k)
      PROVE  /\ \A d \in Clients \ {c} :
                  /\ pc'[d] = pc[d] /\ kind'[d] = kind[d] /\ payload'[d] = payload[d]
                  /\ seen'[d] = seen[d] /\ known'[d] = known[d] /\ flags[d] \subseteq flags'[d]
             /\ UNCHANGED <<session, successCount, errorCount, loop>>
  BY <1>5 DEF Begin
<1> QED
  BY <1>1, <1>2, <1>3, <1>4, <1>5 DEF HandlerStep, Handle

-----------------------------------------------------------------------------
(* Types.                                                                  *)

LEMMA ReadingFields ==
  ASSUME NEW r \in Reading
  PROVE  /\ \A b \in BOOLEAN \cup {Nobody} : [r EXCEPT !.scenario = b] \in Reading
         /\ \A b \in BOOLEAN \cup {Nobody} : [r EXCEPT !.ratio = b] \in Reading
         /\ \A l \in Seq(Nat) : [r EXCEPT !.list = l] \in Reading
         /\ \A n \in Nat : [r EXCEPT !.count = n] \in Reading
BY DEF Reading

(* Under the lock the slice is as long as it was when append looked.       *)
LEMMA AppendsPayload ==
  ASSUME TypeOK, AlertsNumbered, NEW c \in Clients, AppendAlert(c)
  PROVE  /\ notifications' = Append(notifications, payload[c])
         /\ notifications' \in Seq(Nat) /\ Len(notifications') = Len(notifications) + 1
         /\ \A i \in 1..Len(notifications) : notifications'[i] = notifications[i]
         /\ notifications'[Len(notifications) + 1] = payload[c]
<1>1. notifications \in Seq(Nat) /\ payload[c] \in Nat
  BY DEF TypeOK
<1>2. seen[c].count = Len(notifications)
  BY DEF AppendAlert, Step, AlertsNumbered, AlertOf
<1>3. SubSeq(notifications, 1, seen[c].count) = notifications
  BY <1>1, <1>2, SubSeqFull
<1>4. notifications' = Append(notifications, payload[c])
  BY <1>3 DEF AppendAlert
<1> QED
  BY <1>1, <1>4

LEMMA NextTypeOK ==
  ASSUME TypeOK, \A c \in Clients : Route(c), Balance, LockHeld, AlertsNumbered, [Next]_vars
  PROVE  TypeOK'
<1>1. CASE MainStep \/ UNCHANGED vars
  BY <1>1, MainFrame DEF TypeOK
<1>2. CASE LoopStep
  <2>1. successCount' \in Nat /\ errorCount' \in Nat /\ ticks' \in Nat
    <3>1. CASE StartTick \/ StopTraffic
      BY <3>1 DEF StartTick, StopTraffic, TypeOK
    <3>2. CASE AddSuccess
      BY <3>2 DEF AddSuccess, TypeOK, Balance
    <3>3. CASE AddError
      BY <3>3 DEF AddError, ErrorsOfTick, TypeOK, Balance
    <3> QED
      BY <1>2, <3>1, <3>2, <3>3 DEF LoopStep
  <2> QED
    BY <1>2, <2>1, MainFrame DEF TypeOK
<1>3. ASSUME NEW c \in Clients, HandlerStep(c) PROVE TypeOK'
  <2> USE DEF TypeOK, Step
  <2>1. CASE RefuseScenario(c)
    BY <2>1 DEF RefuseScenario, Steps
  <2>2. CASE StoreScenario(c)
    BY <2>2 DEF StoreScenario, AfterStore, Steps
  <2>3. CASE ReadScenario(c)
    BY <2>3, ReadingFields DEF ReadScenario, Steps
  <2>4. CASE ReadRatio(c)
    BY <2>4, ReadingFields DEF ReadRatio, Steps
  <2>5. CASE ReadSuccesses(c)
    <3>1. <<successCount>> \in Seq(Nat)
      OBVIOUS
    <3> QED
      BY <2>5, <3>1, ReadingFields DEF ReadSuccesses, Steps
  <2>6. CASE ReadErrors(c)
    <3>1. Append(seen[c].list, errorCount) \in Seq(Nat)
      BY DEF Reading
    <3> QED
      BY <2>6, <3>1, ReadingFields DEF ReadErrors, Steps
  <2>7. CASE Lock(c) \/ RLock(c) \/ RUnlock(c) \/ DecodeAlerts(c)
    BY <2>7 DEF Lock, RLock, RUnlock, Released, DecodeAlerts, Steps
  <2>8. CASE ReadLength(c)
    BY <2>8, ReadingFields DEF ReadLength, Steps
  <2>9. CASE AppendAlert(c)
    <3>3. notifications' \in Seq(Nat)
      BY <2>9, AppendsPayload
    <3> QED
      BY <2>9, <3>3 DEF AppendAlert, Steps
  <2>10. CASE CopyList(c)
    <3>1. seen[c].count = Len(notifications)
      BY <2>10 DEF CopyList, AlertsNumbered, AlertOf
    <3>2. Copied(c) = notifications
      BY <3>1, SubSeqFull DEF Copied
    <3> QED
      BY <2>10, <3>2, ReadingFields DEF CopyList, Steps
  <2>11. CASE Unlock(c)
    BY <2>11 DEF Unlock, Steps
  <2>12. ASSUME NEW k \in session[c], Begin(c, k) PROVE TypeOK'
    <3>1. k \in Kinds /\ FirstStep(k) \in Steps /\ Unread \in Reading
      BY DEF FirstStep, Steps, Kinds, Unread, Reading
    <3> QED
      BY <2>12, <3>1 DEF Begin
  <2> QED
    BY <1>3, <2>1, <2>2, <2>3, <2>4, <2>5, <2>6, <2>7, <2>8, <2>9, <2>10, <2>11, <2>12
    DEF HandlerStep, Handle
<1> QED
  BY <1>1, <1>2, <1>3, NextSplit

-----------------------------------------------------------------------------
(* The ways through the handlers and the lock.                             *)

LEMMA NextRoute ==
  ASSUME TypeOK, NEW c \in Clients, Route(c), [Next]_vars
  PROVE  Route(c)'
<1>1. CASE MainStep \/ LoopStep \/ UNCHANGED vars
  BY <1>1, MainFrame DEF Route
<1>2. ASSUME NEW d \in Clients \ {c}, HandlerStep(d) PROVE Route(c)'
  BY <1>2, HandlerFrame DEF Route
<1>3. CASE HandlerStep(c)
  <2> USE DEF TypeOK, Step, Route
  <2>1. CASE Handle(c) \/ DecodeAlerts(c)
    <3>1. kind' = kind
      BY <2>1 DEF Handle, RefuseScenario, StoreScenario, ReadScenario, ReadRatio, ReadSuccesses,
         ReadErrors, Lock, ReadLength, AppendAlert, Unlock, RLock, CopyList, RUnlock, DecodeAlerts
    <3> QED
      BY <2>1, <3>1 DEF Handle, RefuseScenario, StoreScenario, AfterStore, ReadScenario, ReadRatio,
         ReadSuccesses, ReadErrors, Lock, ReadLength, AppendAlert, Unlock, RLock, CopyList, RUnlock,
         DecodeAlerts
  <2>2. ASSUME NEW k \in session[c], Begin(c, k) PROVE Route(c)'
    <3>1. k \in Kinds /\ pc'[c] = FirstStep(k) /\ kind'[c] = k
      BY <2>2 DEF Begin
    <3> QED
      BY <3>1 DEF FirstStep, Kinds
  <2> QED
    BY <1>3, <2>1, <2>2 DEF HandlerStep
<1> QED
  BY <1>1, <1>2, <1>3, NextSplit

LEMMA NextLock ==
  ASSUME TypeOK, \A c \in Clients : Route(c), LockHeld, [Next]_vars
  PROVE  LockHeld'
<1>1. CASE MainStep \/ LoopStep \/ UNCHANGED vars
  BY <1>1, MainFrame DEF LockHeld, Writes, Reads
<1>2. ASSUME NEW c \in Clients, HandlerStep(c) PROVE LockHeld'
  <2> USE NobodyKnown DEF TypeOK, Step
  <2>0. \A d \in Clients \ {c} : (Writes(d)' <=> Writes(d)) /\ (Reads(d)' <=> Reads(d))
    BY <1>2, HandlerFrame DEF Writes, Reads
  <2>a. ASSUME UNCHANGED lock, Writes(c)' <=> Writes(c), Reads(c)' <=> Reads(c) PROVE LockHeld'
    BY <2>0, <2>a DEF LockHeld
  <2>1. CASE RefuseScenario(c) \/ StoreScenario(c) \/ ReadScenario(c) \/ ReadRatio(c)
             \/ ReadSuccesses(c) \/ ReadErrors(c) \/ DecodeAlerts(c)
    BY <2>a, <2>1 DEF RefuseScenario, StoreScenario, AfterStore, ReadScenario, ReadRatio,
       ReadSuccesses, ReadErrors, DecodeAlerts, Writes, Reads
  <2>2. CASE ReadLength(c) \/ AppendAlert(c) \/ CopyList(c)
    <3>1. kind' = kind /\ UNCHANGED lock /\ kind[c] \in {"alerts", "list"}
          /\ (pc[c] = "append" => kind[c] = "alerts") /\ (pc[c] = "copy" => kind[c] = "list")
      BY <2>2 DEF ReadLength, AppendAlert, CopyList, Route
    <3> QED
      BY <2>a, <2>2, <3>1 DEF ReadLength, AppendAlert, CopyList, Writes, Reads
  <2>3. CASE Lock(c)
    <3>1. Writes(c)' /\ ~Reads(c)' /\ writer' = c /\ readers' = readers /\ readers = {}
          /\ writer = Nobody
      BY <2>3 DEF Lock, MayWrite, Route, Writes, Reads
    <3>2. \A d \in Clients \ {c} : ~Writes(d)' /\ ~Reads(d)'
      BY <2>0, <3>1 DEF LockHeld
    <3> QED
      BY <3>1, <3>2 DEF LockHeld
  <2>4. CASE RLock(c)
    <3>1. Reads(c)' /\ ~Writes(c)' /\ readers' = readers \cup {c} /\ writer' = writer /\ writer = Nobody
      BY <2>4 DEF RLock, MayRead, Route, Writes, Reads
    <3> QED
      BY <2>0, <3>1 DEF LockHeld
  <2>5. CASE Unlock(c)
    <3>1. Writes(c) /\ ~Writes(c)' /\ ~Reads(c)' /\ ~Reads(c) /\ writer' = Nobody /\ readers' = readers
      BY <2>5 DEF Unlock, Writes, Reads
    <3> QED
      BY <2>0, <3>1 DEF LockHeld
  <2>6. CASE RUnlock(c)
    <3>1. Reads(c) /\ ~Reads(c)' /\ ~Writes(c)' /\ ~Writes(c) /\ readers' = readers \ {c} /\ writer' = writer
      BY <2>6 DEF RUnlock, Released, Writes, Reads
    <3> QED
      BY <2>0, <3>1 DEF LockHeld
  <2>7. ASSUME NEW k \in session[c], Begin(c, k) PROVE LockHeld'
    <3>1. ~Writes(c) /\ ~Reads(c) /\ ~Writes(c)' /\ ~Reads(c)' /\ UNCHANGED lock
      BY <2>7 DEF Begin, Busy, FirstStep, Writes, Reads, Kinds
    <3> QED
      BY <2>a, <3>1
  <2> QED
    BY <1>2, <2>1, <2>2, <2>3, <2>4, <2>5, <2>6, <2>7 DEF HandlerStep, Handle
<1> QED
  BY <1>1, <1>2, NextSplit

-----------------------------------------------------------------------------
(* The notifications.                                                      *)

LEMMA PrefixMeans ==
  ASSUME NEW s \in Seq(Nat), NEW t \in Seq(Nat)
  PROVE  IsPrefix(s, t) <=> Len(s) <= Len(t) /\ \A i \in 1..Len(s) : s[i] = t[i]
<1>1. SubSeq(s, 1, Len(s)) = s
  BY SubSeqFull
<1>2. ASSUME Len(s) <= Len(t)
      PROVE  /\ SubSeq(t, 1, Len(s)) \in Seq(Nat) /\ Len(SubSeq(t, 1, Len(s))) = Len(s)
             /\ \A i \in 1..Len(s) : SubSeq(t, 1, Len(s))[i] = t[i]
  BY <1>2
<1>3. ASSUME Len(s) <= Len(t), \A i \in 1..Len(s) : s[i] = t[i]
      PROVE  s = SubSeq(t, 1, Len(s))
  BY <1>2, <1>3, SeqEqual
<1> QED
  BY <1>1, <1>2, <1>3 DEF IsPrefix

(* One more element at the end.                                            *)
LEMMA OneMore ==
  ASSUME NEW s \in Seq(Nat), NEW t \in Seq(Nat), Len(t) = Len(s) + 1,
         \A i \in 1..Len(s) : t[i] = s[i]
  PROVE  /\ ToSet(t) = ToSet(s) \cup {t[Len(t)]}
         /\ IsInjective(s) /\ t[Len(t)] \notin ToSet(s) => IsInjective(t)
         /\ \A r \in Seq(Nat) : IsPrefix(r, s) => IsPrefix(r, t)
<1> DEFINE n == Len(s)
<1>1. /\ n \in Nat /\ DOMAIN s = 1..n /\ DOMAIN t = 1..(n + 1)
      /\ 1..(n + 1) = 1..n \cup {n + 1}
  OBVIOUS
<1>2. \A i \in 1..n : s[i] = t[i]
  OBVIOUS
<1>3. Len(t) = n + 1
  OBVIOUS
<1>4. ASSUME NEW r \in Seq(Nat), IsPrefix(r, s) PROVE IsPrefix(r, t)
  <2>1. Len(r) \in Nat /\ Len(r) <= n /\ \A i \in 1..Len(r) : r[i] = s[i]
    BY <1>4, PrefixMeans
  <2>2. Len(r) <= n + 1 /\ \A i \in 1..Len(r) : i \in 1..n
    BY <1>1, <2>1
  <2> QED
    BY <1>2, <1>3, <2>1, <2>2, PrefixMeans
<1> HIDE DEF n
<1>5. ToSet(t) = ToSet(s) \cup {t[n + 1]}
  BY <1>1, <1>2 DEF ToSet
<1>6. ASSUME IsInjective(s), t[n + 1] \notin ToSet(s) PROVE IsInjective(t)
  <2>1. \A i, j \in 1..n : t[i] = t[j] => i = j
    BY <1>1, <1>2, <1>6 DEF IsInjective
  <2>2. \A i \in 1..n : t[i] # t[n + 1]
    BY <1>1, <1>2, <1>6 DEF ToSet
  <2>3. \A i, j \in 1..n \cup {n + 1} : t[i] = t[j] => i = j
    BY <2>1, <2>2
  <2>4. DOMAIN t = 1..n \cup {n + 1}
    BY <1>1
  <2> QED
    BY <2>3, <2>4 DEF IsInjective
<1> QED
  BY <1>3, <1>4, <1>5, <1>6

LEMMA NextAlerts ==
  ASSUME TypeOK, TypeOK', \A c \in Clients : Route(c), LockHeld, AlertsNumbered, [Next]_vars
  PROVE  AlertsNumbered'
<1>1. CASE MainStep \/ LoopStep \/ UNCHANGED vars
  BY <1>1, MainFrame DEF AlertsNumbered, AlertOf, Pending
<1>2. ASSUME NEW c \in Clients, HandlerStep(c) PROVE AlertsNumbered'
  <2> USE DEF TypeOK, Step
  <2>0. /\ \A d \in Clients \ {c} :
             /\ pc'[d] = pc[d] /\ kind'[d] = kind[d] /\ payload'[d] = payload[d]
             /\ seen'[d] = seen[d] /\ known'[d] = known[d] /\ (Pending(d)' <=> Pending(d))
        /\ Route(c) /\ AlertOf(c) /\ \A d \in Clients : AlertOf(d)
    BY <1>2, HandlerFrame DEF AlertsNumbered, Pending
  <2>a. ASSUME UNCHANGED <<notifications, accepted, sent>>, AlertOf(c)',
               Pending(c)' => Pending(c) /\ payload'[c] = payload[c]
        PROVE  AlertsNumbered'
    <3>1. \A d \in Clients \ {c} : AlertOf(d)'
      BY <2>0, <2>a DEF AlertOf
    <3>2. \A d, e \in Clients : Pending(d)' /\ Pending(e)' /\ payload'[d] = payload'[e] => d = e
      BY <2>0, <2>a DEF AlertsNumbered
    <3> QED
      BY <2>a, <3>1, <3>2 DEF AlertsNumbered
  <2>1. CASE RefuseScenario(c) \/ StoreScenario(c) \/ ReadScenario(c) \/ ReadRatio(c)
             \/ ReadSuccesses(c) \/ ReadErrors(c)
    <3>1. /\ UNCHANGED <<notifications, accepted, sent, known, kind, payload>>
          /\ kind[c] \notin {"list", "alerts"}
          /\ pc'[c] \in {"scenario", "ratio", "successes", "errors", "answered"}
      BY <2>0, <2>1 DEF RefuseScenario, StoreScenario, AfterStore, ReadScenario, ReadRatio,
         ReadSuccesses, ReadErrors, Route
    <3>2. ~Pending(c)'
      BY <3>1 DEF Pending
    <3>3. AlertOf(c)'
      BY <2>0, <3>1, <3>2 DEF AlertOf
    <3> QED
      BY <2>a, <3>1, <3>2, <3>3
  <2>2. CASE DecodeAlerts(c) \/ Lock(c) \/ RLock(c) \/ RUnlock(c)
    <3>1. /\ UNCHANGED <<notifications, accepted, sent, known, kind, payload, seen>>
          /\ \/ pc[c] = "runlock" /\ pc'[c] = "answered"
             \/ pc[c] = "rlock" /\ pc'[c] = "length"
             \/ pc[c] = "decode" /\ pc'[c] \in {"lock", "answered"}
             \/ pc[c] = "lock" /\ pc'[c] = "length"
      BY <2>2 DEF DecodeAlerts, Lock, RLock, RUnlock
    <3>2. Pending(c)' => Pending(c)
      BY <2>0, <3>1 DEF Pending, Route
    <3>3. AlertOf(c)'
      BY <2>0, <3>1, <3>2 DEF AlertOf, Route
    <3> QED
      BY <2>a, <3>1, <3>2, <3>3
  <2>3. CASE ReadLength(c)
    <3>1. /\ UNCHANGED <<notifications, accepted, sent, known, kind, payload>>
          /\ pc[c] = "length" /\ pc'[c] = IF kind[c] = "alerts" THEN "append" ELSE "copy"
          /\ seen' = [seen EXCEPT ![c].count = Len(notifications)]
      BY <2>3 DEF ReadLength
    <3>2. seen'[c].count = Len(notifications)
      BY <3>1 DEF Reading
    <3>3. Pending(c)' => Pending(c)
      BY <3>1 DEF Pending
    <3>4. AlertOf(c)'
      BY <2>0, <3>1, <3>2, <3>3 DEF AlertOf
    <3> QED
      BY <2>a, <3>1, <3>3, <3>4
  <2>4. CASE CopyList(c)
    <3>1. /\ UNCHANGED <<notifications, accepted, sent, known, kind, payload>>
          /\ pc[c] = "copy" /\ pc'[c] = "runlock" /\ ~Pending(c)'
          /\ seen' = [seen EXCEPT ![c].list = Copied(c)]
      BY <2>4 DEF CopyList, Pending
    <3>2. Copied(c) = notifications
      BY <2>0, <3>1, SubSeqFull DEF AlertOf, Copied
    <3>3. seen'[c].list = notifications
      BY <3>1, <3>2 DEF Reading
    <3>4. IsPrefix(notifications, notifications)
      BY PrefixMeans
    <3>5. AlertOf(c)'
      BY <2>0, <3>1, <3>3, <3>4 DEF AlertOf, AlertsNumbered
    <3> QED
      BY <2>a, <3>1, <3>5
  <2>5. CASE AppendAlert(c)
    <3> DEFINE n == Len(notifications)
    <3>1. /\ notifications' \in Seq(Nat) /\ Len(notifications') = n + 1 /\ n \in Nat
          /\ \A i \in 1..n : notifications'[i] = notifications[i]
          /\ notifications'[n + 1] = payload[c]
      BY <2>5, AppendsPayload, SMTT(30)
    <3>2. /\ pc[c] = "append" /\ pc'[c] = "unlock" /\ Pending(c) /\ ~Pending(c)'
          /\ UNCHANGED <<accepted, sent, known, kind, payload, seen>>
      BY <2>5 DEF AppendAlert, Pending
    <3>3. payload[c] \in (1..sent) \ ToSet(notifications)
      BY <2>0, <3>2 DEF AlertOf
    <3>4. ToSet(notifications') = ToSet(notifications) \cup {payload[c]}
      BY <3>1, OneMore
    <3>5. IsInjective(notifications')
      BY <3>1, <3>3, OneMore DEF AlertsNumbered
    <3>6. ASSUME NEW d \in Clients \ {c} PROVE AlertOf(d)'
      <4>1. pc[d] \notin {"append", "copy"}
        BY <3>2, NobodyKnown DEF LockHeld, Writes, Reads
      <4>2. Pending(d) => payload[d] # payload[c]
        BY <3>2 DEF AlertsNumbered
      <4>3. ASSUME IsPrefix(seen[d].list, notifications) PROVE IsPrefix(seen[d].list, notifications')
        <5>1. seen[d].list \in Seq(Nat)
          BY DEF Reading
        <5> QED
          BY <3>1, <4>3, <5>1, OneMore
      <4> QED
        BY <2>0, <3>2, <3>4, <4>1, <4>2, <4>3 DEF AlertOf
    <3>7. AlertOf(c)'
      BY <2>0, <3>2, <3>4 DEF AlertOf
    <3>8. \A d, e \in Clients : Pending(d)' /\ Pending(e)' /\ payload'[d] = payload'[e] => d = e
      BY <2>0, <3>2 DEF AlertsNumbered
    <3> QED
      BY <3>2, <3>3, <3>4, <3>5, <3>6, <3>7, <3>8 DEF AlertsNumbered
  <2>6. CASE Unlock(c)
    <3>1. /\ pc[c] = "unlock" /\ pc'[c] = "answered" /\ kind[c] = "alerts" /\ ~Pending(c)'
          /\ UNCHANGED <<notifications, sent, known, kind, payload, seen>>
          /\ accepted' = accepted \cup {payload[c]}
      BY <2>0, <2>6 DEF Unlock, Pending, Route
    <3>2. payload[c] \in ToSet(notifications)
      BY <2>0, <3>1 DEF AlertOf
    <3>3. \A d \in Clients : AlertOf(d)'
      BY <2>0, <3>1 DEF AlertOf
    <3>4. \A d, e \in Clients : Pending(d)' /\ Pending(e)' /\ payload'[d] = payload'[e] => d = e
      BY <2>0, <3>1 DEF AlertsNumbered
    <3> QED
      BY <3>1, <3>2, <3>3, <3>4 DEF AlertsNumbered
  <2>7. ASSUME NEW k \in session[c], Begin(c, k) PROVE AlertsNumbered'
    <3>1. /\ UNCHANGED <<notifications, accepted>> /\ kind'[c] = k /\ pc'[c] = FirstStep(k)
          /\ known'[c] = accepted
          /\ sent' = (IF k = "alerts" THEN sent + 1 ELSE sent)
          /\ payload'[c] = IF k = "alerts" THEN sent + 1 ELSE 0
      BY <2>7 DEF Begin
    <3>2. pc'[c] \in {"scenario", "ratio", "decode", "rlock", "store"} /\ (pc'[c] = "decode" => k = "alerts")
      BY <3>1 DEF FirstStep
    <3>3. Pending(c)' => k = "alerts"
      BY <3>2 DEF Pending
    <3>4. ToSet(notifications) \subseteq 1..sent /\ 1..sent \subseteq 1..sent' /\ sent + 1 \notin 1..sent
      BY <3>1 DEF AlertsNumbered
    <3>5. AlertOf(c)'
      BY <3>1, <3>2, <3>3, <3>4 DEF AlertOf
    <3>6. \A d \in Clients \ {c} : AlertOf(d)'
      BY <2>0, <3>1, <3>4 DEF AlertOf
    <3>7. \A d \in Clients \ {c} : Pending(d) => payload[d] # sent + 1
      BY <2>0, <3>4 DEF AlertOf
    <3>8. \A d, e \in Clients : Pending(d)' /\ Pending(e)' /\ payload'[d] = payload'[e] => d = e
      BY <2>0, <3>1, <3>3, <3>7 DEF AlertsNumbered
    <3> QED
      BY <3>1, <3>4, <3>5, <3>6, <3>8 DEF AlertsNumbered
  <2> QED
    BY <1>2, <2>1, <2>2, <2>3, <2>4, <2>5, <2>6, <2>7 DEF HandlerStep, Handle
<1> QED
  BY <1>1, <1>2, NextSplit

-----------------------------------------------------------------------------
(* The scenario.                                                           *)

LEMMA NextScenario ==
  ASSUME TypeOK, TypeOK', NEW c \in Clients, Route(c), ScenarioCurrent(c), [Next]_vars
  PROVE  ScenarioCurrent(c)'
<1> USE DEF TypeOK, Step
<1>1. CASE MainStep \/ LoopStep \/ UNCHANGED vars
  BY <1>1, MainFrame DEF ScenarioCurrent, Busy
<1>2. ASSUME NEW d \in Clients \ {c}, HandlerStep(d) PROVE ScenarioCurrent(c)'
  <2>1. degraded' = degraded \/ StoreScenario(d)
    BY <1>2 DEF HandlerStep, Handle, RefuseScenario, ReadScenario, ReadRatio, ReadSuccesses,
       ReadErrors, Lock, ReadLength, AppendAlert, Unlock, RLock, CopyList, RUnlock, DecodeAlerts, Begin
  <2>2. StoreScenario(d) /\ Busy(c) => degraded' \in flags'[c]
    BY <1>2 DEF StoreScenario
  <2>3. /\ pc'[c] = pc[c] /\ kind'[c] = kind[c] /\ seen'[c] = seen[c]
        /\ flags[c] \subseteq flags'[c]
    BY <1>2, HandlerFrame
  <2> QED
    BY <2>1, <2>2, <2>3 DEF ScenarioCurrent, Busy
<1>3. CASE HandlerStep(c)
  <2>1. CASE StoreScenario(c)
    <3>1. pc'[c] = "scenario" /\ flags'[c] = {degraded'}
      BY <2>1 DEF StoreScenario, AfterStore
    <3> QED
      BY <3>1 DEF ScenarioCurrent
  <2>2. CASE ReadScenario(c)
    <3>1. /\ pc[c] = "scenario" /\ pc'[c] = "ratio" /\ UNCHANGED <<degraded, flags, kind>>
          /\ seen' = [seen EXCEPT ![c].scenario = degraded]
      BY <2>2 DEF ReadScenario
    <3>2. seen'[c].scenario = degraded
      BY <3>1 DEF Reading
    <3> QED
      BY <3>1, <3>2 DEF ScenarioCurrent, Busy
  <2>3. CASE ReadRatio(c)
    <3>1. /\ pc[c] = "ratio" /\ UNCHANGED <<degraded, flags, kind>>
          /\ pc'[c] = IF kind[c] = "metrics" THEN "successes" ELSE "answered"
          /\ seen' = [seen EXCEPT ![c].ratio = degraded]
      BY <2>3 DEF ReadRatio
    <3>2. seen'[c].ratio = degraded /\ seen'[c].scenario = seen[c].scenario
      BY <3>1 DEF Reading
    <3> QED
      BY <3>1, <3>2 DEF ScenarioCurrent, Busy
  <2>4. CASE ReadSuccesses(c) \/ ReadErrors(c)
    <3>1. /\ pc[c] \in {"successes", "errors"} /\ pc'[c] \in {"errors", "answered"}
          /\ UNCHANGED <<degraded, flags, kind>> /\ kind[c] = "metrics"
          /\ \E l : seen' = [seen EXCEPT ![c].list = l]
      BY <2>4 DEF ReadSuccesses, ReadErrors, Route
    <3>2. seen'[c].ratio = seen[c].ratio
      BY <3>1 DEF Reading
    <3> QED
      BY <3>1, <3>2 DEF ScenarioCurrent, Busy
  <2>5. CASE RefuseScenario(c) \/ DecodeAlerts(c) \/ Lock(c) \/ ReadLength(c) \/ AppendAlert(c)
             \/ Unlock(c) \/ RLock(c) \/ CopyList(c) \/ RUnlock(c)
    <3>1. /\ UNCHANGED <<degraded, flags, kind>> /\ Busy(c)
          /\ kind[c] \in {"unknown", "alerts", "list"}
      BY <2>5 DEF RefuseScenario, DecodeAlerts, Lock, ReadLength, AppendAlert, Unlock, RLock,
         CopyList, RUnlock, Route, Busy
    <3> QED
      BY <3>1 DEF ScenarioCurrent, Busy
  <2>6. ASSUME NEW k \in session[c], Begin(c, k) PROVE ScenarioCurrent(c)'
    <3>1. /\ flags'[c] = {degraded'} /\ pc'[c] = FirstStep(k) /\ kind'[c] = k
      BY <2>6 DEF Begin
    <3>2. pc'[c] \in {"scenario", "ratio", "decode", "rlock", "store"} /\ (pc'[c] = "ratio" => k = "metrics")
      BY <3>1 DEF FirstStep
    <3> QED
      BY <3>1, <3>2 DEF ScenarioCurrent
  <2> QED
    BY <1>3, <2>1, <2>2, <2>3, <2>4, <2>5, <2>6 DEF HandlerStep, Handle
<1> QED
  BY <1>1, <1>2, <1>3, NextSplit

-----------------------------------------------------------------------------
(* The counters.                                                           *)

LEMMA NextBalance ==
  ASSUME TypeOK, Balance, [Next]_vars
  PROVE  Balance'
<1>1. CASE MainStep \/ UNCHANGED vars
  BY <1>1, MainFrame DEF Balance
<1>2. CASE StartTick
  BY <1>2 DEF StartTick, Balance, TypeOK
<1>3. CASE AddSuccess
  BY <1>3 DEF AddSuccess, Balance, TypeOK
<1>4. CASE AddError
  <2>1. /\ errorCount' = errorCount + amount[2] /\ ticks' = ticks + 1 /\ traffic' = "wait"
        /\ amount[1] \in Nat /\ amount[2] \in Nat /\ amount[1] + amount[2] = 100
        /\ successCount' = successCount /\ successCount + errorCount = 100 * ticks + amount[1]
    BY <1>4 DEF AddError, ErrorsOfTick, Balance
  <2>2. ticks \in Nat /\ successCount \in Nat /\ errorCount \in Nat
    BY DEF TypeOK
  <2>3. PICK a, b \in Nat : a = amount[1] /\ b = amount[2] /\ a + b = 100
    BY <2>1
  <2>4. successCount + errorCount = 100 * ticks + a
    BY <2>1, <2>3
  <2>5. successCount + (errorCount + b) = 100 * (ticks + 1)
    BY <2>2, <2>3, <2>4
  <2>6. successCount' + errorCount' = 100 * ticks' + 0
    BY <2>1, <2>2, <2>3, <2>5
  <2> QED
    BY <2>1, <2>6 DEF Balance
<1>5. CASE StopTraffic
  BY <1>5 DEF StopTraffic, Balance
<1>6. ASSUME NEW c \in Clients, HandlerStep(c) PROVE Balance'
  BY <1>6, HandlerFrame DEF Balance
<1> QED
  BY <1>1, <1>2, <1>3, <1>4, <1>5, <1>6, NextSplit DEF LoopStep

-----------------------------------------------------------------------------
(* The service.                                                            *)

LEMMA InitServiceInv == Init => ServiceInv
<1> SUFFICES ASSUME Init PROVE ServiceInv
  OBVIOUS
<1>1. TypeOK
  <2>1. Unread \in Reading
    BY DEF Unread, Reading
  <2>2. session \in [Clients -> SUBSET Kinds]
    BY KindsKnown DEF Init, Kinds
  <2>3. notifications \in Seq(Nat) /\ accepted \subseteq Nat /\ readers \subseteq Clients
    BY DEF Init
  <2>4. /\ degraded \in BOOLEAN /\ successCount \in Nat /\ errorCount \in Nat
        /\ writer \in Clients \cup {Nobody} /\ ticks \in Nat /\ sent \in Nat
    BY DEF Init
  <2>5. pc \in [Clients -> Steps] /\ kind \in [Clients -> Kinds]
    BY DEF Init, Steps, Kinds
  <2>6. seen \in [Clients -> Reading]
    BY <2>1 DEF Init
  <2>7. payload \in [Clients -> Nat]
    BY DEF Init
  <2>8. flags \in [Clients -> SUBSET BOOLEAN] /\ known \in [Clients -> SUBSET Nat]
    BY DEF Init
  <2> QED
    BY <2>2, <2>3, <2>4, <2>5, <2>6, <2>7, <2>8 DEF TypeOK
<1>2. LockHeld
  BY NobodyKnown DEF Init, LockHeld, Writes, Reads
<1>3. AlertsNumbered
  <2>1. ToSet(<<>>) = {} /\ IsInjective(<<>>)
    BY DEF ToSet, IsInjective
  <2> QED
    BY <2>1 DEF Init, AlertsNumbered, AlertOf, Pending
<1>4. Balance
  BY DEF Init, Balance
<1>5. \A c \in Clients : Route(c) /\ ScenarioCurrent(c)
  BY DEF Init, Route, ScenarioCurrent, Busy
<1> QED
  BY <1>1, <1>2, <1>3, <1>4, <1>5 DEF ServiceInv

LEMMA NextServiceInv == ServiceInv /\ [Next]_vars => ServiceInv'
<1> SUFFICES ASSUME ServiceInv, [Next]_vars PROVE ServiceInv'
  OBVIOUS
<1> USE DEF ServiceInv
<1>1. TypeOK'
  BY NextTypeOK
<1>2. LockHeld' /\ Balance'
  BY NextLock, NextBalance
<1>3. AlertsNumbered'
  BY <1>1, NextAlerts
<1>4. \A c \in Clients : Route(c)' /\ ScenarioCurrent(c)'
  BY <1>1, NextRoute, NextScenario
<1> QED
  BY <1>1, <1>2, <1>3, <1>4

(* Every reachable state satisfies the invariant.  No fairness is used.    *)
THEOREM ServiceInvariance == Spec => []ServiceInv
BY InitServiceInv, NextServiceInv, PTL DEF Spec

(* No webhook answered with 204 is ever lost, overwritten or doubled, and  *)
(* GET /notifications returns the list of some moment of the request.      *)
THEOREM AlertsAreKept == Spec => []AlertsKept
<1>1. ServiceInv => AlertsKept
  <2> SUFFICES ASSUME ServiceInv PROVE AlertsKept
    OBVIOUS
  <2>1. LockExclusive
    BY DEF ServiceInv, LockHeld, LockExclusive, Writes, Reads
  <2> QED
    BY <2>1 DEF ServiceInv, AlertsNumbered, AlertOf, AlertsKept
<1> QED
  BY <1>1, ServiceInvariance, PTL

(* No answer shows a scenario older than its request.                      *)
THEOREM AnswersAreCurrent == Spec => []AnswersCurrent
<1>1. ServiceInv => AnswersCurrent
  BY DEF ServiceInv, ScenarioCurrent, AnswersCurrent
<1> QED
  BY <1>1, ServiceInvariance, PTL

(* Every finished tick has added a hundred requests.                       *)
THEOREM CountersAreBalanced == Spec => []CountersBalanced
<1>1. ServiceInv => CountersBalanced
  BY DEF ServiceInv, TypeOK, Balance, CountersBalanced
<1> QED
  BY <1>1, ServiceInvariance, PTL
=============================================================================
