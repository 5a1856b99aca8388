--------------------------- MODULE FallbackController ---------------------------
(***************************************************************************)
(* The fallback controller of the browser route (fallback.ts): it          *)
(* configures one candidate of a plan after the other until one works, and *)
(* moves on when the one that works reports a failure.                     *)
(*                                                                         *)
(* configure() and stop() of a backend (external) are awaited, and calls   *)
(* may overlap at every await.  A backend object is named by the call and  *)
(* the candidate that it was created for.                                  *)
(***************************************************************************)
EXTENDS Integers, Sequences

CONSTANTS Backends,    \* identities
          Plan,        \* the candidates: each the set of its backends, maybe none
          Calls,       \* calls of configureNext(), reportFailure() and stop()
          MaxEpochs    \* bound on newEpoch() and setPlan()

FallbackAssumption == Plan \in Seq(SUBSET Backends) /\ MaxEpochs \in Nat

VARIABLES
  call,      \* what each call awaits, its candidate, and the backend it stops
  current,   \* the backend in use, or NoBackend
  tried, triedCandidates, stopped, epochs,
  alive,     \* ghost: backends created and not stopped
  failed,    \* ghost: identities whose configure() failed in this epoch
  overlap    \* ghost: a call was made while another had not returned

vars == <<call, current, tried, triedCandidates, stopped, epochs, alive, failed, overlap>>

Candidates == DOMAIN Plan
NoBackend == <<>>
Objects == Calls \X Candidates

TypeOK ==
  /\ call \in [Calls -> [at : {"new", "reporting", "replacing", "configuring", "cleanup",
                               "stopping", "returned"},
                         pick : Candidates \cup {0}, leaving : Objects \cup {NoBackend}]]
  /\ current \in Objects \cup {NoBackend} /\ alive \subseteq Objects
  /\ tried \subseteq Backends /\ failed \subseteq Backends
  /\ triedCandidates \subseteq Candidates
  /\ stopped \in BOOLEAN /\ overlap \in BOOLEAN /\ epochs \in 0..MaxEpochs

Init ==
  /\ call = [c \in Calls |-> [at |-> "new", pick |-> 0, leaving |-> NoBackend]]
  /\ current = NoBackend /\ tried = {} /\ triedCandidates = {}
  /\ stopped = FALSE /\ epochs = 0 /\ alive = {} /\ failed = {} /\ overlap = FALSE

Busy(c) == call[c].at \notin {"new", "returned"}

Called(c) ==
  /\ call[c].at = "new"
  /\ overlap' = (overlap \/ \E d \in Calls : Busy(d))

Await(c, at) == call' = [call EXCEPT ![c].at = at]

\* Mutant: a candidate is only ruled out when all its backends have failed.
UntriedAny(bs, cs) == {i \in Candidates : i \notin cs /\ (Plan[i] = {} \/ ~(Plan[i] \subseteq bs))}

\* findIndex(): the candidates none of whose backends failed.
Untried(bs, cs) == {i \in Candidates : i \notin cs /\ Plan[i] \cap bs = {}}

\* configureNext(), when bs and cs have been tried, b is current and now are alive:
\* activate() stops b first, and then creates and configures the next backend.
ConfigureNext(c, bs, cs, b, now) ==
  LET i == CHOOSE j \in Untried(bs, cs) : \A k \in Untried(bs, cs) : j <= k
  IN IF stopped \/ Untried(bs, cs) = {}
     THEN Await(c, "returned") /\ alive' = now
     ELSE /\ call' = [call EXCEPT ![c] =
               [at |-> IF b = NoBackend THEN "configuring" ELSE "replacing",
                pick |-> i, leaving |-> b]]
          /\ alive' = IF b = NoBackend THEN now \cup {<<c, i>>} ELSE now

CallConfigureNext(c) ==
  /\ Called(c)
  /\ ConfigureNext(c, tried, triedCandidates, current, alive)
  /\ UNCHANGED <<current, tried, triedCandidates, stopped, epochs, failed>>

\* reportFailure() marks the identity of the current backend and stops it.
CallReportFailure(c) ==
  /\ Called(c)
  /\ IF stopped \/ current = NoBackend
     THEN ConfigureNext(c, tried, triedCandidates, current, alive) /\ UNCHANGED tried
     ELSE /\ call' = [call EXCEPT ![c].at = "reporting", ![c].leaving = current]
          /\ \E b \in Backends :
               /\ b \in Plan[current[2]] \/ Plan[current[2]] = {}
               /\ tried' = tried \cup {b}
          /\ UNCHANGED alive
  /\ UNCHANGED <<current, triedCandidates, stopped, epochs, failed>>

CallStop(c) ==
  /\ Called(c)
  /\ stopped' = TRUE
  /\ IF current = NoBackend THEN Await(c, "returned")
     ELSE call' = [call EXCEPT ![c].at = "stopping", ![c].leaving = current]
  /\ UNCHANGED <<current, tried, triedCandidates, epochs, alive, failed>>

\* stopCurrent() goes on: the backend has stopped, and whatever is current by now
\* is forgotten.
StopCurrentEnds(c) ==
  /\ call[c].at \in {"reporting", "replacing", "stopping"}
  /\ current' = NoBackend
  /\ LET rest == alive \ {call[c].leaving}
     IN \/ call[c].at = "stopping" /\ Await(c, "returned") /\ alive' = rest
        \/ /\ call[c].at = "replacing" /\ Await(c, "configuring")
           /\ alive' = rest \cup {<<c, call[c].pick>>}
        \/ /\ call[c].at = "reporting"
           /\ ConfigureNext(c, tried, triedCandidates, NoBackend, rest)
  /\ UNCHANGED <<tried, triedCandidates, stopped, epochs, failed, overlap>>

ConfigureWorks(c) ==
  /\ call[c].at = "configuring"
  /\ Await(c, "returned")
  /\ current' = <<c, call[c].pick>>
  /\ UNCHANGED <<tried, triedCandidates, stopped, epochs, alive, failed, overlap>>

\* Mutant: the backends of a candidate that failed may be configured again.
ConfigureFailsUnmarked(c) ==
  /\ call[c].at = "configuring"
  /\ Await(c, "cleanup")
  /\ failed' = failed \cup Plan[call[c].pick]
  /\ UNCHANGED <<current, tried, triedCandidates, stopped, epochs, alive, overlap>>

ConfigureFails(c) ==
  /\ call[c].at = "configuring"
  /\ Await(c, "cleanup")
  /\ tried' = tried \cup Plan[call[c].pick]
  /\ failed' = failed \cup Plan[call[c].pick]
  /\ UNCHANGED <<current, triedCandidates, stopped, epochs, alive, overlap>>

\* Mutant: the backend that failed is not stopped.
CleanupEndsLeaks(c) ==
  /\ call[c].at = "cleanup"
  /\ triedCandidates' = triedCandidates \cup {call[c].pick}
  /\ ConfigureNext(c, tried, triedCandidates', current, alive)
  /\ UNCHANGED <<current, tried, stopped, epochs, failed, overlap>>

\* configureNext() calls itself when activate() returns nothing.
CleanupEnds(c) ==
  /\ call[c].at = "cleanup"
  /\ triedCandidates' = triedCandidates \cup {call[c].pick}
  /\ ConfigureNext(c, tried, triedCandidates', current, alive \ {<<c, call[c].pick>>})
  /\ UNCHANGED <<current, tried, stopped, epochs, failed, overlap>>

\* newEpoch(), or setPlan() with the same candidates.
NewEpoch ==
  /\ epochs < MaxEpochs
  /\ epochs' = epochs + 1
  /\ tried' = {} /\ triedCandidates' = {} /\ failed' = {}
  /\ UNCHANGED <<call, current, stopped, alive, overlap>>

Continue(c) == StopCurrentEnds(c) \/ ConfigureWorks(c) \/ ConfigureFails(c) \/ CleanupEnds(c)

Next ==
  \/ \E c \in Calls : CallConfigureNext(c) \/ CallReportFailure(c) \/ CallStop(c) \/ Continue(c)
  \/ NewEpoch

\* Backends settle the promises that are awaited.
Fairness == \A c \in Calls : WF_vars(Continue(c))

Spec == Init /\ [][Next]_vars /\ Fairness

-----------------------------------------------------------------------------
(* Properties *)

\* Unless calls overlap, there is one backend at a time, on every error path: the
\* current one, or the one that is being configured or stopped; and none is left
\* once the controller is stopped.  (A stop() or a second call during an await
\* leaves a backend that nobody refers to, fallback.ts:252.)
OneBackend ==
  ~overlap =>
    /\ \A x, y \in alive : x = y
    /\ (\A c \in Calls : ~Busy(c)) => alive = IF current = NoBackend THEN {} ELSE {current}
    /\ stopped /\ (\A c \in Calls : ~Busy(c)) => alive = {}

\* Unless calls overlap, no backend that failed is configured again in its epoch
\* (fallback.ts:51), whatever newEpoch() and setPlan() clear during a call.
NoLoops ==
  [][\A c \in Calls :
       ~overlap /\ call'[c].at = "configuring" /\ call[c].at # "configuring"
         => Plan[call'[c].pick] \cap failed' = {} ]_vars

\* Unless calls overlap, one backend is alive and none is tried again.
FallbackSafe == [](TypeOK /\ OneBackend) /\ NoLoops

\* Every call returns: the recursion over the candidates ends, although epochs
\* begin meanwhile.
CallsReturn == []<>(\A c \in Calls : ~Busy(c))
=============================================================================
