------------------------------- MODULE Server -------------------------------
(***************************************************************************)
(* The serve loop of oas-rs (runtime.rs serve_runtime, accept_next and     *)
(* drain_connections; tls.rs serve_tls): one acceptor task, one task per   *)
(* connection in a JoinSet, one watch channel that carries the shutdown    *)
(* signal, one semaphore for max_connections, and the two kinds of task    *)
(* the JoinSet does not track: HTTP/2 request streams (spawned by hyper on *)
(* its executor) and upgraded WebSocket sessions.                          *)
(*                                                                         *)
(* Every await point of a task is a step.  Deadlines are steps that may    *)
(* happen at any moment, except where an action's comment says otherwise.  *)
(***************************************************************************)
EXTENDS Naturals, FiniteSets

CONSTANTS Conns,       \* the clients' connections
          MaxConns,    \* AppRuntime::max_connections (unlimited: >= |Conns|)
          Opening,     \* TRUE: TLS or h2c listener, a connection is first
                       \* handshaken or sniffed; FALSE: plain HTTP/1.1
          MayBlock,    \* connections whose handlers may run synchronous code
                       \* that does not yield to the runtime
          MaxRequests, \* bound: requests a client sends on one connection
          MayFail,     \* TRUE: the listener may break (a fatal accept error)
          HeaderLimit, \* TRUE: header_read_timeout is set
          DrainLimit   \* FALSE: shutdown_timeout is longer than any handler runs

ASSUME ServerAssumption ==
    /\ IsFiniteSet(Conns)
    /\ MaxConns \in Nat \ {0}
    /\ Opening \in BOOLEAN
    /\ MayBlock \subseteq Conns
    /\ MaxRequests \in Nat
    /\ MayFail \in BOOLEAN
    /\ HeaderLimit \in BOOLEAN
    /\ DrainLimit \in BOOLEAN

VARIABLES
    acceptor,  \* where the serve call is
    shutdown,  \* the caller's shutdown future has completed
    signalled, \* signal.send(()) has run
    permits,   \* free permits of the semaphore
    tasks,     \* the JoinSet: connection tasks not joined yet
    task,      \* per connection: its task
    phase,     \* per connection: its socket
    proto,     \* per connection: "h1" or "h2"
    closing,   \* per connection: graceful_shutdown has been called on it
    req,       \* per connection: the request being handled on it
    session,   \* per connection: the task spawned by on_upgrade
    refs,      \* per connection: the owners of its Arc<ConnectionSlot>
    peerGone,  \* per connection: the client hung up or stopped moving
    budget     \* per connection: requests the client has left to send

acceptorVars == <<acceptor, shutdown, signalled, tasks>>
slotVars == <<permits, refs>>
connVars == <<task, phase, proto, closing, req, session, peerGone, budget>>
vars == <<acceptorVars, slotVars, connVars>>

(* acceptor: waiting for a permit; in the accept select; sleeping after     *)
(* EMFILE and the like; in the first and second wait of drain_connections;  *)
(* returned Ok; returned Err.                                               *)
AcceptorStates ==
    {"slot", "accept", "backoff", "drain", "grace", "returned", "failed"}
TaskStates == {"none", "live", "aborted", "ended"}
PhaseStates == {"away", "backlog", "opening", "open", "session", "closed"}
(* "switching": the handler called on_upgrade and the 101 is being written. *)
RequestStates == {"none", "running", "blocked", "switching"}
SessionStates == {"none", "waiting", "open"}
Owners == {"task", "request", "session"}

TypeOK ==
    /\ acceptor \in AcceptorStates
    /\ shutdown \in BOOLEAN
    /\ signalled \in BOOLEAN
    /\ permits \in Nat
    /\ tasks \subseteq Conns
    /\ task \in [Conns -> TaskStates]
    /\ phase \in [Conns -> PhaseStates]
    /\ proto \in [Conns -> {"h1", "h2"}]
    /\ closing \in [Conns -> BOOLEAN]
    /\ req \in [Conns -> RequestStates]
    /\ session \in [Conns -> SessionStates]
    /\ refs \in [Conns -> SUBSET Owners]
    /\ peerGone \in [Conns -> BOOLEAN]
    /\ budget \in [Conns -> Nat]

-----------------------------------------------------------------------------
(* Slots.  A permit goes back to the semaphore when the last owner of the   *)
(* Arc around it is dropped.                                                *)

Holders == {c \in Conns : refs[c] # {}}
LoopHolds == acceptor \in {"accept", "backoff"}

(* The owners in gone drop their clone of c's slot, those in new take one.  *)
Reown(c, gone, new) ==
    LET left == (refs[c] \ gone) \union new
    IN /\ refs' = [refs EXCEPT ![c] = left]
       /\ permits' = IF refs[c] # {} /\ left = {} THEN permits + 1 ELSE permits

Init == /\ acceptor = "slot"
        /\ shutdown = FALSE
        /\ signalled = FALSE
        /\ permits = MaxConns
        /\ tasks = {}
        /\ task = [c \in Conns |-> "none"]
        /\ phase = [c \in Conns |-> "away"]
        /\ proto = [c \in Conns |-> "h1"]
        /\ closing = [c \in Conns |-> FALSE]
        /\ req = [c \in Conns |-> "none"]
        /\ session = [c \in Conns |-> "none"]
        /\ refs = [c \in Conns |-> {}]
        /\ peerGone = [c \in Conns |-> FALSE]
        /\ budget = [c \in Conns |-> MaxRequests]

-----------------------------------------------------------------------------
(* The environment: the clients, the caller, the kernel's listen backlog.   *)

Arrive(c) == /\ phase[c] = "away"
             /\ phase' = [phase EXCEPT ![c] = "backlog"]
             /\ UNCHANGED <<acceptorVars, slotVars, task, proto, closing, req,
                            session, peerGone, budget>>

PeerLeaves(c) == /\ phase[c] \in {"opening", "open", "session"}
                 /\ ~peerGone[c]
                 /\ peerGone' = [peerGone EXCEPT ![c] = TRUE]
                 /\ UNCHANGED <<acceptorVars, slotVars, task, phase, proto,
                                closing, req, session, budget>>

RequestShutdown == /\ ~shutdown
                   /\ shutdown' = TRUE
                   /\ UNCHANGED <<acceptor, signalled, tasks, slotVars, connVars>>

-----------------------------------------------------------------------------
(* The accept loop.                                                         *)

(* Mutant: the permit is not waited for.                                    *)
TakeSlotUnguarded == /\ acceptor = "slot"
                     /\ permits' = permits - 1
                     /\ acceptor' = "accept"
                     /\ UNCHANGED <<shutdown, signalled, tasks, refs, connVars>>

(* accept_next, first select: the permit is taken before anything is        *)
(* accepted.                                                                *)
TakeSlot == /\ acceptor = "slot"
            /\ permits > 0
            /\ permits' = permits - 1
            /\ acceptor' = "accept"
            /\ UNCHANGED <<shutdown, signalled, tasks, refs, connVars>>

(* Mutant: the wait for a permit does not race the shutdown future.         *)
StopAcceptingLate == /\ acceptor = "accept"
                     /\ shutdown
                     /\ permits' = permits + 1
                     /\ signalled' = TRUE
                     /\ acceptor' = "drain"
                     /\ UNCHANGED <<shutdown, tasks, refs, connVars>>

(* Either select of accept_next sees the shutdown future complete: it       *)
(* returns Ok(None), which drops a permit it holds, and serve_runtime sends *)
(* the signal without another await.                                        *)
StopAccepting == /\ acceptor \in {"slot", "accept"}
                 /\ shutdown
                 /\ permits' = IF LoopHolds THEN permits + 1 ELSE permits
                 /\ signalled' = TRUE
                 /\ acceptor' = "drain"
                 /\ UNCHANGED <<shutdown, tasks, refs, connVars>>

Unfinished == {c \in tasks : task[c] # "ended"}

(* A connection is accepted: finished tasks are reaped, the connection's    *)
(* task is spawned with the slot and a fresh subscription to the signal.    *)
Accept(c) ==
    /\ acceptor = "accept"
    /\ phase[c] = "backlog"
    /\ acceptor' = "slot"
    /\ tasks' = Unfinished \union {c}
    /\ task' = [task EXCEPT ![c] = "live"]
    /\ phase' = [phase EXCEPT ![c] = IF Opening THEN "opening" ELSE "open"]
    /\ refs' = [refs EXCEPT ![c] = {"task"}]
    /\ UNCHANGED <<shutdown, signalled, permits, proto, closing, req, session,
                   peerGone, budget>>

(* AcceptAction::Retry: the failed connection is gone.                      *)
AcceptRetry(c) == /\ acceptor = "accept"
                  /\ phase[c] = "backlog"
                  /\ phase' = [phase EXCEPT ![c] = "closed"]
                  /\ UNCHANGED <<acceptorVars, slotVars, task, proto, closing,
                                 req, session, peerGone, budget>>

(* AcceptAction::Backoff: a sleep that does not race the shutdown future.   *)
AcceptBackoff == /\ acceptor = "accept"
                 /\ acceptor' = "backoff"
                 /\ UNCHANGED <<shutdown, signalled, tasks, slotVars, connVars>>

(* Mutant: another permit is taken for every attempt.                       *)
BackoffRetakesSlot == /\ acceptor = "backoff"
                      /\ acceptor' = "slot"
                      /\ UNCHANGED <<shutdown, signalled, tasks, slotVars,
                                     connVars>>

BackoffOver == /\ acceptor = "backoff"
               /\ acceptor' = "accept"
               /\ UNCHANGED <<shutdown, signalled, tasks, slotVars, connVars>>

(* Every live task in the JoinSet is told to stop at its next await.        *)
AbortAll == task' = [c \in Conns |-> IF c \in tasks /\ task[c] = "live"
                                     THEN "aborted" ELSE task[c]]

(* Mutant: the connection tasks are spawned detached.                       *)
AcceptFatalDetaches == /\ MayFail
                       /\ acceptor = "accept"
                       /\ acceptor' = "failed"
                       /\ permits' = permits + 1
                       /\ tasks' = {}
                       /\ UNCHANGED <<shutdown, signalled, refs, connVars>>

(* AcceptAction::Fatal: `?` leaves serve_runtime, whose locals are dropped: *)
(* the JoinSet aborts its tasks, and nothing waits for them.                *)
AcceptFatal == /\ MayFail
               /\ acceptor = "accept"
               /\ acceptor' = "failed"
               /\ permits' = permits + 1
               /\ tasks' = {}
               /\ AbortAll
               /\ UNCHANGED <<shutdown, signalled, refs, phase, proto, closing,
                              req, session, peerGone, budget>>

-----------------------------------------------------------------------------
(* drain_connections.                                                       *)

Stuck(c) == proto[c] = "h1" /\ req[c] = "blocked"

(* Every task is joined within shutdown_timeout: abort_all has nothing to   *)
(* abort and the second wait ends at once.                                  *)
DrainDone == /\ acceptor = "drain"
             /\ Unfinished = {}
             /\ acceptor' = "returned"
             /\ tasks' = {}
             /\ UNCHANGED <<shutdown, signalled, slotVars, connVars>>

(* Mutants: nothing is aborted; the aborted tasks are not waited for.       *)
DrainTimeoutNoAbort == /\ DrainLimit
                       /\ acceptor = "drain"
                       /\ Unfinished # {}
                       /\ acceptor' = "grace"
                       /\ tasks' = Unfinished
                       /\ UNCHANGED <<shutdown, signalled, slotVars, connVars>>

DrainTimeoutNoGrace == /\ DrainLimit
                       /\ acceptor = "drain"
                       /\ Unfinished # {}
                       /\ acceptor' = "returned"
                       /\ tasks' = {}
                       /\ AbortAll
                       /\ UNCHANGED <<shutdown, signalled, slotVars, phase, proto,
                                      closing, req, session, peerGone, budget>>

(* shutdown_timeout passes first: the rest is aborted.                      *)
DrainTimeout == /\ DrainLimit
                /\ acceptor = "drain"
                /\ Unfinished # {}
                /\ acceptor' = "grace"
                /\ tasks' = Unfinished
                /\ AbortAll
                /\ UNCHANGED <<shutdown, signalled, slotVars, phase, proto,
                               closing, req, session, peerGone, budget>>

GraceDone == /\ acceptor = "grace"
             /\ Unfinished = {}
             /\ acceptor' = "returned"
             /\ tasks' = {}
             /\ UNCHANGED <<shutdown, signalled, slotVars, connVars>>

(* ABORT_GRACE passes first.  Timing assumption: one second is enough for   *)
(* the runtime to drop every cancelled task that yields to it, so that only *)
(* tasks inside synchronous code are left.  They are detached.              *)
GraceTimeout == /\ acceptor = "grace"
                /\ Unfinished # {}
                /\ \A c \in Unfinished : task[c] = "aborted" => Stuck(c)
                /\ acceptor' = "returned"
                /\ tasks' = {}
                /\ UNCHANGED <<shutdown, signalled, slotVars, connVars>>

-----------------------------------------------------------------------------
(* A connection's task.                                                     *)

(* The task's future is dropped or returns: the socket is closed and, on    *)
(* HTTP/1.1, the handler inside the future goes with it.  An HTTP/2 handler *)
(* runs in a task of its own and survives until that task is next run.      *)
EndTask(c) ==
    /\ task' = [task EXCEPT ![c] = "ended"]
    /\ phase' = [phase EXCEPT ![c] = "closed"]
    /\ req' = [req EXCEPT ![c] = IF proto[c] = "h1" THEN "none" ELSE @]
    /\ Reown(c, IF proto[c] = "h1" THEN {"task", "request"} ELSE {"task"}, {})
    /\ UNCHANGED <<acceptorVars, proto, closing, session, peerGone, budget>>

(* The handshake, or the look for the HTTP/2 preface, picks the protocol.   *)
Opened(c, p) == /\ task[c] = "live"
                /\ phase[c] = "opening"
                /\ ~peerGone[c]
                /\ phase' = [phase EXCEPT ![c] = "open"]
                /\ proto' = [proto EXCEPT ![c] = p]
                /\ UNCHANGED <<acceptorVars, slotVars, task, closing, req,
                               session, peerGone, budget>>

(* It fails, or handshake_timeout / header_read_timeout passes.             *)
OpeningFails(c) == /\ task[c] = "live"
                   /\ phase[c] = "opening"
                   /\ EndTask(c)

(* stop.changed() wins the select: a connection that is still opening is    *)
(* dropped, any other one is asked to finish gracefully.                    *)
StopOpening(c) == /\ task[c] = "live"
                  /\ phase[c] = "opening"
                  /\ signalled
                  /\ EndTask(c)

GracefulShutdown(c) == closing' = [closing EXCEPT ![c] = TRUE]

(* Mutants: the signal drops the connection; HTTP/2 does not hear it.       *)
StopOpenDrops(c) == /\ task[c] = "live"
                    /\ phase[c] = "open"
                    /\ signalled
                    /\ ~closing[c]
                    /\ req[c] # "blocked" \/ proto[c] = "h2"
                    /\ EndTask(c)

StopOpenH1Only(c) == /\ task[c] = "live"
                     /\ phase[c] = "open"
                     /\ signalled
                     /\ ~closing[c]
                     /\ req[c] # "blocked"
                     /\ proto[c] = "h1"
                     /\ GracefulShutdown(c)
                     /\ UNCHANGED <<acceptorVars, slotVars, task, phase, proto,
                                    req, session, peerGone, budget>>

StopOpen(c) == /\ task[c] = "live"
               /\ phase[c] = "open"
               /\ signalled
               /\ ~closing[c]
               /\ req[c] # "blocked" \/ proto[c] = "h2"
               /\ GracefulShutdown(c)
               /\ UNCHANGED <<acceptorVars, slotVars, task, phase, proto, req,
                              session, peerGone, budget>>

Serving(c) == task[c] = "live" /\ phase[c] = "open"

(* prepare puts a clone of the permit into the request's extensions.  After *)
(* graceful_shutdown HTTP/1.1 reads no further request, HTTP/2 still takes  *)
(* the streams the client opened before it saw the GOAWAY.                  *)
RequestArrives(c) == /\ Serving(c)
                     /\ req[c] = "none"
                     /\ ~peerGone[c]
                     /\ budget[c] > 0
                     /\ proto[c] = "h1" => ~closing[c]
                     /\ req' = [req EXCEPT ![c] = "running"]
                     /\ budget' = [budget EXCEPT ![c] = @ - 1]
                     /\ Reown(c, {}, {"request"})
                     /\ UNCHANGED <<acceptorVars, task, phase, proto, closing,
                                    session, peerGone>>

(* The handler enters, and leaves, code that does not yield.                *)
HandlerBlocks(c) == /\ c \in MayBlock
                    /\ task[c] = "live" \/ proto[c] = "h2"
                    /\ req[c] = "running"
                    /\ req' = [req EXCEPT ![c] = "blocked"]
                    /\ UNCHANGED <<acceptorVars, slotVars, task, phase, proto,
                                   closing, session, peerGone, budget>>

HandlerYields(c) == /\ req[c] = "blocked"
                    /\ req' = [req EXCEPT ![c] = "running"]
                    /\ UNCHANGED <<acceptorVars, slotVars, task, phase, proto,
                                   closing, session, peerGone, budget>>

(* The handler is done and its response is handed to the connection.        *)
ResponseSent(c) == /\ Serving(c)
                   /\ req[c] = "running"
                   /\ req' = [req EXCEPT ![c] = "none"]
                   /\ Reown(c, {"request"}, {})
                   /\ UNCHANGED <<acceptorVars, task, phase, proto, closing,
                                  session, peerGone, budget>>

(* hyper sees an HTTP/2 stream's connection gone the next time the stream's *)
(* task runs; it drops the handler then.                                    *)
StreamDropped(c) == /\ proto[c] = "h2"
                    /\ task[c] = "ended"
                    /\ req[c] = "running"
                    /\ req' = [req EXCEPT ![c] = "none"]
                    /\ Reown(c, {"request"}, {})
                    /\ UNCHANGED <<acceptorVars, task, phase, proto, closing,
                                   session, peerGone, budget>>

(* The client is gone, or moved nothing for send_timeout: the connection's  *)
(* future returns.                                                          *)
ConnectionFails(c) == /\ Serving(c)
                      /\ peerGone[c]
                      /\ ~Stuck(c)
                      /\ EndTask(c)

(* header_read_timeout on a connection with no request: HTTP/1.1 ends,      *)
(* HTTP/2 (drive_h2) is asked to finish.                                    *)
IdleTimeout(c) == /\ HeaderLimit
                  /\ Serving(c)
                  /\ req[c] = "none"
                  /\ ~closing[c]
                  /\ \/ proto[c] = "h1" /\ EndTask(c)
                     \/ /\ proto[c] = "h2"
                        /\ GracefulShutdown(c)
                        /\ UNCHANGED <<acceptorVars, slotVars, task, phase,
                                       proto, req, session, peerGone, budget>>

(* A closing connection with nothing in flight ends: hyper finishes it, or  *)
(* drive_h2 drops an HTTP/2 one whose client does not answer.               *)
IdleClose(c) == /\ Serving(c)
                /\ req[c] = "none"
                /\ closing[c]
                /\ EndTask(c)

(* A cancelled task is dropped as soon as it is not inside a poll.          *)
AbortLands(c) == /\ task[c] = "aborted"
                 /\ ~Stuck(c)
                 /\ EndTask(c)

-----------------------------------------------------------------------------
(* WebSocket sessions (HTTP/1.1 only).                                      *)

(* Mutant: the session does not take the permit along.                      *)
HandlerUpgradesBare(c) == /\ Serving(c)
                          /\ proto[c] = "h1"
                          /\ req[c] = "running"
                          /\ req' = [req EXCEPT ![c] = "switching"]
                          /\ session' = [session EXCEPT ![c] = "waiting"]
                          /\ Reown(c, {"request"}, {})
                          /\ UNCHANGED <<acceptorVars, task, phase, proto,
                                         closing, peerGone, budget>>

(* on_upgrade clones the request's permit into the session's task, which    *)
(* waits for the connection to be handed over.                              *)
HandlerUpgrades(c) == /\ Serving(c)
                      /\ proto[c] = "h1"
                      /\ req[c] = "running"
                      /\ req' = [req EXCEPT ![c] = "switching"]
                      /\ session' = [session EXCEPT ![c] = "waiting"]
                      /\ Reown(c, {"request"}, {"session"})
                      /\ UNCHANGED <<acceptorVars, task, phase, proto, closing,
                                     peerGone, budget>>

(* The 101 is out: the connection's future returns and its socket is the    *)
(* session's.                                                               *)
ConnectionUpgraded(c) ==
    /\ Serving(c)
    /\ req[c] = "switching"
    /\ req' = [req EXCEPT ![c] = "none"]
    /\ session' = [session EXCEPT ![c] = "open"]
    /\ phase' = [phase EXCEPT ![c] = "session"]
    /\ task' = [task EXCEPT ![c] = "ended"]
    /\ Reown(c, {"task"}, {})
    /\ UNCHANGED <<acceptorVars, proto, closing, peerGone, budget>>

(* Mutant: a session that never started keeps its permit.                   *)
SessionCancelledLeaks(c) == /\ session[c] = "waiting"
                            /\ task[c] = "ended"
                            /\ session' = [session EXCEPT ![c] = "none"]
                            /\ UNCHANGED <<acceptorVars, slotVars, task, phase,
                                           proto, closing, req, peerGone, budget>>

(* The connection ended before it was handed over: on_upgrade resolves to   *)
(* an error and the handler never runs.                                     *)
SessionCancelled(c) == /\ session[c] = "waiting"
                       /\ task[c] = "ended"
                       /\ session' = [session EXCEPT ![c] = "none"]
                       /\ Reown(c, {"session"}, {})
                       /\ UNCHANGED <<acceptorVars, task, phase, proto, closing,
                                      req, peerGone, budget>>

(* The session's handler ends, or its idle timeout drops the transport and  *)
(* the permit.                                                              *)
SessionEnds(c) == /\ session[c] = "open"
                  /\ session' = [session EXCEPT ![c] = "none"]
                  /\ phase' = [phase EXCEPT ![c] = "closed"]
                  /\ Reown(c, {"session"}, {})
                  /\ UNCHANGED <<acceptorVars, task, proto, closing, req,
                                 peerGone, budget>>

-----------------------------------------------------------------------------
Environment == \/ \E c \in Conns : Arrive(c) \/ PeerLeaves(c)
               \/ RequestShutdown

AcceptLoop == \/ TakeSlot
              \/ StopAccepting
              \/ \E c \in Conns : Accept(c) \/ AcceptRetry(c)
              \/ AcceptBackoff
              \/ BackoffOver
              \/ AcceptFatal

Drain == DrainDone \/ DrainTimeout \/ GraceDone \/ GraceTimeout

Connection(c) == \/ \E p \in {"h1", "h2"} : Opened(c, p)
                 \/ OpeningFails(c)
                 \/ StopOpening(c)
                 \/ StopOpen(c)
                 \/ RequestArrives(c)
                 \/ HandlerBlocks(c)
                 \/ HandlerYields(c)
                 \/ ResponseSent(c)
                 \/ StreamDropped(c)
                 \/ ConnectionFails(c)
                 \/ IdleTimeout(c)
                 \/ IdleClose(c)
                 \/ AbortLands(c)
                 \/ HandlerUpgrades(c)
                 \/ ConnectionUpgraded(c)
                 \/ SessionCancelled(c)
                 \/ SessionEnds(c)

Next == \/ Environment
        \/ AcceptLoop
        \/ Drain
        \/ \E c \in Conns : Connection(c)

Spec == Init /\ [][Next]_vars

-----------------------------------------------------------------------------
(* Fairness.  Tokio keeps polling a task that can make progress, and its    *)
(* timers fire.  Weak fairness is not enough for StopAccepting: during an   *)
(* EMFILE storm the loop alternates between the select and the backoff      *)
(* sleep, so the shutdown branch is ready again and again but not always.   *)
(* tokio::select! polls its branches in random order, which makes the       *)
(* branch win eventually: strong fairness.                                  *)

LoopFairness == /\ WF_vars(TakeSlot)
                /\ SF_vars(StopAccepting)
                /\ WF_vars(BackoffOver)
                /\ WF_vars(Drain)

(* What the runtime and the configured timeouts do to a connection, whoever *)
(* the client is.                                                           *)
ConnectionFairness(c) == /\ WF_vars(StopOpening(c))
                         /\ WF_vars(StopOpen(c))
                         /\ WF_vars(HeaderLimit /\ OpeningFails(c))
                         /\ WF_vars(IdleTimeout(c))
                         /\ WF_vars(IdleClose(c))
                         /\ WF_vars(AbortLands(c))
                         /\ WF_vars(StreamDropped(c))
                         /\ WF_vars(SessionCancelled(c))

LiveSpec == /\ Spec
            /\ LoopFairness
            /\ \A c \in Conns : ConnectionFairness(c)

(* Handlers that run to an end, and clients that take their responses or    *)
(* are cut off by send_timeout.                                             *)
HandlersFinish ==
    \A c \in Conns : /\ WF_vars(ResponseSent(c))
                     /\ WF_vars(ConnectionUpgraded(c) \/ ConnectionFails(c))

(* A descriptor shortage does not last.                                     *)
AcceptSucceeds == \A c \in Conns : SF_vars(Accept(c))

OrderlySpec == LiveSpec /\ HandlersFinish /\ AcceptSucceeds

-----------------------------------------------------------------------------
(* Properties.                                                              *)

OpenSockets == {c \in Conns : phase[c] \in {"opening", "open", "session"}}

(* No permit is lost or made up on any path out of accept_next, out of a    *)
(* connection task or out of a session: the free ones, the accept loop's    *)
(* own and one per connection that still owns its slot are max_connections. *)
SlotConservation ==
    permits + (IF LoopHolds THEN 1 ELSE 0) + Cardinality(Holders) = MaxConns

(* max_connections caps the sockets the server keeps open, WebSocket        *)
(* sessions that outlived their HTTP connection included.                   *)
OpenWithinCap == Cardinality(OpenSockets) <= MaxConns

(* Who owns a slot is what runs: the connection's task, the request's       *)
(* handler, the session.  So a slot is held exactly as long as one of them  *)
(* lives, and an open socket always has an owner.                           *)
OwnersAre(c) ==
    /\ "task" \in refs[c] <=> task[c] \in {"live", "aborted"}
    /\ "request" \in refs[c] <=> req[c] \in {"running", "blocked"}
    /\ "session" \in refs[c] <=> session[c] # "none"
    /\ task[c] \in {"live", "aborted"} <=> phase[c] \in {"opening", "open"}
    /\ session[c] = "open" <=> phase[c] = "session"
    /\ req[c] = "switching" =>
           session[c] = "waiting" /\ phase[c] = "open" /\ proto[c] = "h1"
    /\ phase[c] \in {"away", "backlog"} => refs[c] = {}

OwnersLive == \A c \in Conns : OwnersAre(c)

(* The JoinSet has every running connection task until it is given up, and  *)
(* none is live after that.                                                 *)
TasksTracked ==
    IF acceptor \in {"grace", "returned", "failed"}
    THEN \A c \in Conns : task[c] # "live"
    ELSE \A c \in Conns : task[c] \in {"live", "aborted"} => c \in tasks

(* So nothing holds a slot, and nothing runs, that nobody will end.         *)
OwnersTracked == OwnersLive /\ TasksTracked

ServerInv == TypeOK /\ SlotConservation /\ OwnersLive /\ TasksTracked

(* When drain_connections is over, the connection tasks it leaves behind    *)
(* are inside handlers that have not yielded; the others are gone.          *)
OnlyStuckLeft ==
    [][(acceptor # "returned" /\ acceptor' = "returned")
         => (\A c \in Conns : task[c] \in {"live", "aborted"} => Stuck(c))]_vars

(* Shutdown cuts no request short: the socket under a request whose client  *)
(* is still there closes only when the deadline has passed (or the listener *)
(* broke).                                                                  *)
RequestsNotCut ==
    [][\A c \in Conns :
         /\ phase[c] = "open" /\ phase'[c] = "closed"
         /\ req[c] # "none"
         /\ ~peerGone[c]
         => acceptor \in {"grace", "returned", "failed"}]_vars

(* A serve call that is asked to shut down returns, whatever the clients    *)
(* and the handlers do.                                                     *)
ShutdownReturns == shutdown ~> acceptor \in {"returned", "failed"}

(* After the call is over everything that yields is dropped: its HTTP       *)
(* connections and the HTTP/2 streams the JoinSet never knew.               *)
LeftoversEnd ==
    \A c \in Conns :
        acceptor \in {"returned", "failed"} ~>
            \/ req[c] = "blocked"
            \/ task[c] \in {"none", "ended"} /\ req[c] # "running"

(* With handlers that finish, shutdown needs neither its own deadline nor   *)
(* the idle timeouts: the signal alone ends every connection.               *)
OrderlyStop == shutdown ~> acceptor = "returned"

(* At the cap the server does not wedge: a client in the listen backlog is  *)
(* taken in when the others are done, whichever way they ended.             *)
Done(c) == /\ task[c] \in {"none", "ended"}
           /\ req[c] = "none"
           /\ session[c] = "none"

BacklogAdmitted ==
    \A c \in Conns :
        (\A d \in Conns \ {c} : <>[]Done(d)) =>
            (phase[c] = "backlog" ~> phase[c] # "backlog" \/ shutdown)

(* What README.md:74-79 says of connections still busy at the deadline: the *)
(* handler is dropped before the call returns, unless it never yields.      *)
HandlersEndWithCall ==
    [][(acceptor = "grace" /\ acceptor' = "returned")
         => (\A c \in Conns : req[c] # "running")]_vars

Stage == CASE acceptor \in {"slot", "accept", "backoff"} -> "serving"
           [] acceptor \in {"drain", "grace"} -> "stopping"
           [] acceptor \in {"returned", "failed"} -> "over"

Served == {c \in Conns : task[c] = "live"}

Contract == INSTANCE BoundedService
              WITH stage <- Stage, holders <- Holders, served <- Served

(* Server implements the contract.                                          *)
ImplementsContract == Contract!Spec
=============================================================================
