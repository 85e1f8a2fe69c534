---------------------------- MODULE DemoService -----------------------------
(***************************************************************************)
(* cmd/demo-service/main.go: the checkout service that the demo scripts    *)
(* degrade, scrape and page.                                               *)
(*                                                                         *)
(* Every read and write of an atomic is a step, and so are the two halves  *)
(* of an append and of a copy of the notifications.  Handlers run in       *)
(* goroutines of their own, one for each client with a request under way.  *)
(* Payloads are numbered in the order in which they are sent.              *)
(***************************************************************************)
EXTENDS Integers, Sequences, SequencesExt

CONSTANTS Clients,
          Nobody,    (* no client                                          *)
          Sessions,  (* client -> the kinds of request it makes            *)
          MaxTicks,  (* bound on the ticks of the traffic loop             *)
          MaxAlerts  (* bound on the webhooks sent                         *)

ASSUME KindsKnown ==
  Sessions \subseteq [Clients -> SUBSET {"state", "healthy", "degraded", "unknown",
                                         "metrics", "alerts", "list"}]

ASSUME NobodyKnown == Nobody \notin Clients

VARIABLES degraded, successCount, errorCount, notifications,
          writer,    (* who holds notificationsMu for writing              *)
          readers,   (* who holds it for reading                           *)
          traffic,   (* pc of generateTraffic                              *)
          amount,    (* of the tick under way, <<successes, errors>>       *)
          ticks,     (* finished ticks                                     *)
          server,    (* "starting", "serving", "draining", "exited"        *)
          interrupted,
          pc,        (* client -> step of its handler                      *)
          session,   (* what the clients are about                         *)
          kind,      (* client -> its request                              *)
          payload,   (* client -> the alert it sends                       *)
          seen,      (* client -> what its handler has read                *)
          sent,      (* payloads sent                                      *)
          accepted,  (* history: payloads answered with 204                *)
          flags,     (* history: client -> values of degraded since its    *)
                     (* request began, or since it stored its own          *)
          known      (* history: client -> accepted when its request began *)

memory  == <<degraded, successCount, errorCount, notifications>>
lock    == <<writer, readers>>
loop    == <<traffic, amount, ticks>>
process == <<server, interrupted>>
request == <<session, kind, payload, sent, known>>
vars == <<memory, lock, loop, process, request, pc, seen, accepted, flags>>

Unread == [scenario |-> Nobody, ratio |-> Nobody, list |-> <<>>, count |-> 0]

Init ==
  /\ session \in Sessions
  /\ degraded = FALSE /\ successCount = 0 /\ errorCount = 0 /\ notifications = <<>>
  /\ writer = Nobody /\ readers = {}
  /\ traffic = "wait" /\ amount = <<0, 0>> /\ ticks = 0
  /\ server = "starting" /\ interrupted = FALSE
  /\ pc = [c \in Clients |-> "idle"] /\ kind = [c \in Clients |-> "state"]
  /\ payload = [c \in Clients |-> 0] /\ seen = [c \in Clients |-> Unread]
  /\ sent = 0 /\ accepted = {}
  /\ flags = [c \in Clients |-> {}] /\ known = [c \in Clients |-> {}]

Alive == server # "exited"
Busy(c) == pc[c] \notin {"idle", "answered"}

-----------------------------------------------------------------------------
(* main and generateTraffic.                                               *)

Listen ==
  /\ server = "starting"
  /\ server' \in {"serving", "exited"}   (* log.Fatalf when it cannot      *)
  /\ UNCHANGED <<memory, lock, loop, interrupted, request, pc, seen, accepted, flags>>

Interrupt ==
  /\ Alive /\ ~interrupted
  /\ interrupted' = TRUE
  /\ UNCHANGED <<memory, lock, loop, server, request, pc, seen, accepted, flags>>

Shutdown ==
  /\ server \in {"starting", "serving"} /\ interrupted
  /\ server' = "draining"
  /\ UNCHANGED <<memory, lock, loop, interrupted, request, pc, seen, accepted, flags>>

(* Mutant: Shutdown gets a context without a deadline.                     *)
DeadlinePassesNever == FALSE

DeadlinePasses == TRUE   (* five seconds                                    *)

(* Shutdown returns when the handlers have, or at its deadline, and the    *)
(* process ends with whatever still runs.                                  *)
Exit ==
  /\ server = "draining"
  /\ DeadlinePasses \/ \A c \in Clients : ~Busy(c)
  /\ server' = "exited"
  /\ UNCHANGED <<memory, lock, loop, interrupted, request, pc, seen, accepted, flags>>

StartTick ==
  /\ Alive /\ traffic = "wait" /\ ticks < MaxTicks
  /\ amount' = IF degraded THEN <<80, 20>> ELSE <<99, 1>>
  /\ traffic' = "success"
  /\ UNCHANGED <<memory, lock, ticks, process, request, pc, seen, accepted, flags>>

AddSuccess ==
  /\ Alive /\ traffic = "success"
  /\ successCount' = successCount + amount[1]
  /\ traffic' = "error"
  /\ UNCHANGED <<degraded, errorCount, notifications, lock, amount, ticks, process, request,
                 pc, seen, accepted, flags>>

(* Mutant: the scenario is read again.                                     *)
ErrorsOfTickNow == IF degraded THEN 20 ELSE 1

ErrorsOfTick == amount[2]

AddError ==
  /\ Alive /\ traffic = "error"
  /\ errorCount' = errorCount + ErrorsOfTick
  /\ traffic' = "wait" /\ ticks' = ticks + 1
  /\ UNCHANGED <<degraded, successCount, notifications, lock, amount, process, request,
                 pc, seen, accepted, flags>>

StopTraffic ==
  /\ Alive /\ traffic = "wait" /\ interrupted
  /\ traffic' = "stopped"
  /\ UNCHANGED <<memory, lock, amount, ticks, process, request, pc, seen, accepted, flags>>

-----------------------------------------------------------------------------
(* Handlers.                                                               *)

Step(c, from, to) == Alive /\ pc[c] = from /\ pc' = [pc EXCEPT ![c] = to]

FirstStep(k) ==
  CASE k = "state"   -> "scenario"
    [] k = "metrics" -> "ratio"
    [] k = "alerts"  -> "decode"
    [] k = "list"    -> "rlock"
    [] OTHER         -> "store"

Begin(c, k) ==
  /\ server = "serving" /\ ~Busy(c)
  /\ k = "alerts" => sent < MaxAlerts
  /\ pc' = [pc EXCEPT ![c] = FirstStep(k)]
  /\ kind' = [kind EXCEPT ![c] = k]
  /\ sent' = IF k = "alerts" THEN sent + 1 ELSE sent
  /\ payload' = [payload EXCEPT ![c] = IF k = "alerts" THEN sent + 1 ELSE 0]
  /\ seen' = [seen EXCEPT ![c] = Unread]
  /\ flags' = [flags EXCEPT ![c] = {degraded}]
  /\ known' = [known EXCEPT ![c] = accepted]
  /\ UNCHANGED <<memory, lock, loop, process, session, accepted>>

RefuseScenario(c) ==
  /\ Step(c, "store", "answered") /\ kind[c] = "unknown"
  /\ UNCHANGED <<memory, lock, loop, process, request, seen, accepted, flags>>

(* Mutant: the answer does not read the scenario again.                    *)
AfterStoreStale == "answered"

AfterStore == "scenario"

StoreScenario(c) ==
  /\ Step(c, "store", AfterStore) /\ kind[c] # "unknown"
  /\ degraded' = (kind[c] = "degraded")
  /\ flags' = [d \in Clients |-> IF d = c THEN {degraded'}
                                 ELSE IF Busy(d) THEN flags[d] \cup {degraded'} ELSE flags[d]]
  /\ UNCHANGED <<successCount, errorCount, notifications, lock, loop, process, request,
                 seen, accepted>>

ReadScenario(c) ==
  /\ Step(c, "scenario", "ratio")
  /\ seen' = [seen EXCEPT ![c].scenario = degraded]
  /\ UNCHANGED <<memory, lock, loop, process, request, accepted, flags>>

ReadRatio(c) ==
  /\ Step(c, "ratio", IF kind[c] = "metrics" THEN "successes" ELSE "answered")
  /\ seen' = [seen EXCEPT ![c].ratio = degraded]
  /\ UNCHANGED <<memory, lock, loop, process, request, accepted, flags>>

ReadSuccesses(c) ==
  /\ Step(c, "successes", "errors")
  /\ seen' = [seen EXCEPT ![c].list = <<successCount>>]
  /\ UNCHANGED <<memory, lock, loop, process, request, accepted, flags>>

ReadErrors(c) ==
  /\ Step(c, "errors", "answered")
  /\ seen' = [seen EXCEPT ![c].list = Append(@, errorCount)]
  /\ UNCHANGED <<memory, lock, loop, process, request, accepted, flags>>

(* A body that is no JSON or too long is refused.                          *)
DecodeAlerts(c) ==
  /\ \E to \in {"lock", "answered"} : Step(c, "decode", to)
  /\ UNCHANGED <<memory, lock, loop, process, request, seen, accepted, flags>>

(* sync.RWMutex: a writer that waits keeps new readers out.                *)
(* Mutant: the writer goes without the lock.                               *)
MayWriteAlways == TRUE

MayWrite == writer = Nobody /\ readers = {}
MayRead  == writer = Nobody /\ \A d \in Clients : pc[d] # "lock"

Lock(c) ==
  /\ Step(c, "lock", "length") /\ MayWrite
  /\ writer' = c
  /\ UNCHANGED <<memory, readers, loop, process, request, seen, accepted, flags>>

RLock(c) ==
  /\ Step(c, "rlock", "length") /\ MayRead
  /\ readers' = readers \cup {c}
  /\ UNCHANGED <<memory, writer, loop, process, request, seen, accepted, flags>>

(* append finds the end of the slice, make the length of the copy.         *)
ReadLength(c) ==
  /\ Step(c, "length", IF kind[c] = "alerts" THEN "append" ELSE "copy")
  /\ seen' = [seen EXCEPT ![c].count = Len(notifications)]
  /\ UNCHANGED <<memory, lock, loop, process, request, accepted, flags>>

AppendAlert(c) ==
  /\ Step(c, "append", "unlock")
  /\ notifications' = Append(SubSeq(notifications, 1, seen[c].count), payload[c])
  /\ UNCHANGED <<degraded, successCount, errorCount, lock, loop, process, request, seen,
                 accepted, flags>>

Copied(c) == SubSeq(notifications, 1, seen[c].count)

CopyList(c) ==
  /\ Step(c, "copy", "runlock")
  /\ seen' = [seen EXCEPT ![c].list = Copied(c)]
  /\ UNCHANGED <<memory, lock, loop, process, request, accepted, flags>>

Unlock(c) ==
  /\ Step(c, "unlock", "answered")
  /\ writer' = Nobody
  /\ accepted' = accepted \cup {payload[c]}
  /\ UNCHANGED <<memory, readers, loop, process, request, seen, flags>>

(* Mutant: the lock is not released.                                       *)
ReleasedNever(c) == readers

Released(c) == readers \ {c}

RUnlock(c) ==
  /\ Step(c, "runlock", "answered")
  /\ readers' = Released(c)
  /\ UNCHANGED <<memory, writer, loop, process, request, seen, accepted, flags>>

Handle(c) ==
  \/ RefuseScenario(c) \/ StoreScenario(c) \/ ReadScenario(c) \/ ReadRatio(c)
  \/ ReadSuccesses(c) \/ ReadErrors(c)
  \/ Lock(c) \/ ReadLength(c) \/ AppendAlert(c) \/ Unlock(c)
  \/ RLock(c) \/ CopyList(c) \/ RUnlock(c)

Exited == ~Alive /\ UNCHANGED vars

Next ==
  \/ Listen \/ Interrupt \/ Shutdown \/ Exit
  \/ StartTick \/ AddSuccess \/ AddError \/ StopTraffic
  \/ \E c \in Clients : Handle(c) \/ DecodeAlerts(c) \/ \E k \in session[c] : Begin(c, k)
  \/ Exited

(* Goroutines of the process run; a client may never send its body, and    *)
(* only the headers have a timeout.                                        *)
Fairness ==
  /\ WF_vars(Listen) /\ WF_vars(Shutdown) /\ WF_vars(Exit)
  /\ \A c \in Clients : WF_vars(Handle(c))

Spec == Init /\ [][Next]_vars /\ Fairness

-----------------------------------------------------------------------------
(* Whoever writes the notifications is alone with them; a step that needs  *)
(* the lock has it.                                                        *)
LockExclusive ==
  /\ writer # Nobody => readers = {}
  /\ \A c \in Clients :
       /\ pc[c] \in {"append", "unlock"} => writer = c
       /\ pc[c] \in {"copy", "runlock"} => c \in readers

(* A webhook answered with 204 stays in the list for good, and no webhook  *)
(* is there twice: appends of receiveAlerts never overwrite one another.   *)
(* GET /notifications returns what was received up to some moment of the   *)
(* request: all that was answered before it began, in the order of arrival.*)
AlertsKept ==
  /\ LockExclusive
  /\ accepted \subseteq ToSet(notifications) /\ IsInjective(notifications)
  /\ \A c \in Clients :
       pc[c] = "answered" /\ kind[c] = "list" =>
         known[c] \subseteq ToSet(seen[c].list) /\ IsPrefix(seen[c].list, notifications)

(* A response never shows a scenario older than its request, and the       *)
(* response to a change never the one before the change; scenario and      *)
(* ratio differ only when another request came between.                    *)
AnswersCurrent ==
  \A c \in Clients :
    pc[c] = "answered" =>
      /\ kind[c] \in {"state", "healthy", "degraded", "metrics"} => seen[c].ratio \in flags[c]
      /\ kind[c] \in {"state", "healthy", "degraded"} => seen[c].scenario \in flags[c]

(* Every finished tick of generateTraffic added a hundred requests, also   *)
(* when the scenario changed in the middle of it.                          *)
CountersBalanced ==
  traffic \in {"wait", "stopped"} => successCount + errorCount = 100 * ticks

(* A request whose body has come is answered unless the process ends: no   *)
(* handler waits for the lock for good.                                    *)
Answered ==
  \A c \in Clients : Busy(c) /\ pc[c] # "decode" ~> ~Busy(c) \/ ~Alive

(* A signal ends the process, also while a client holds back a body.       *)
Exits == interrupted ~> ~Alive
=============================================================================
