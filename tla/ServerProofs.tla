---------------------------- MODULE ServerProofs ----------------------------
(***************************************************************************)
(* Proofs about Server, for any set of connections, any limit and any      *)
(* configuration: the inductive invariant ServerInv, the connection limit, *)
(* and the refinement of BoundedService.                                   *)
(***************************************************************************)
EXTENDS Server, FiniteSetTheorems, TLAPS

USE DEF AcceptorStates, TaskStates, PhaseStates, RequestStates, SessionStates,
        Owners

-----------------------------------------------------------------------------
(* Type correctness.                                                        *)

(* Moving a slot between owners keeps the types of permits and refs.        *)
LEMMA ReownType ==
    ASSUME TypeOK, NEW c \in Conns, NEW gone, NEW new \in SUBSET Owners,
           Reown(c, gone, new)
    PROVE  permits' \in Nat /\ refs' \in [Conns -> SUBSET Owners]
<1> DEFINE left == (refs[c] \ gone) \union new
<1>1. /\ refs' = [refs EXCEPT ![c] = left]
      /\ permits' = permits + 1 \/ permits' = permits
  BY DEF Reown
<1>2. refs[c] \in SUBSET Owners /\ permits \in Nat
      /\ refs \in [Conns -> SUBSET Owners]
  BY DEF TypeOK
<1>3. left \in SUBSET Owners
  BY <1>2
<1> HIDE DEF left
<1>4. refs' \in [Conns -> SUBSET Owners]
  BY <1>1, <1>2, <1>3
<1> QED
  BY <1>1, <1>2, <1>4

(* The end of a connection's task keeps the types of what it changes.       *)
LEMMA EndTaskType ==
    ASSUME TypeOK, NEW c \in Conns, EndTask(c)
    PROVE  TypeOK'
<1>1. permits' \in Nat /\ refs' \in [Conns -> SUBSET Owners]
  BY ReownType DEF EndTask
<1> QED
  BY <1>1 DEF TypeOK, EndTask, acceptorVars

(* Each turn of the accept loop (accept_next and the body of                *)
(* serve_runtime's loop) keeps the types.                                   *)
LEMMA AcceptLoopType ==
    ASSUME TypeOK, AcceptLoop
    PROVE  TypeOK'
<1> USE DEF TypeOK, acceptorVars, slotVars, connVars
<1>1. CASE TakeSlot
  BY <1>1 DEF TakeSlot
<1>2. CASE StopAccepting
  BY <1>2 DEF StopAccepting
<1>3. ASSUME NEW c \in Conns, Accept(c)
      PROVE  TypeOK'
  BY <1>3 DEF Accept, Unfinished
<1>4. ASSUME NEW c \in Conns, AcceptRetry(c)
      PROVE  TypeOK'
  BY <1>4 DEF AcceptRetry
<1>5. CASE AcceptBackoff
  BY <1>5 DEF AcceptBackoff
<1>6. CASE BackoffOver
  BY <1>6 DEF BackoffOver
<1>7. CASE AcceptFatal
  BY <1>7 DEF AcceptFatal, AbortAll
<1> QED
  BY <1>1, <1>2, <1>3, <1>4, <1>5, <1>6, <1>7 DEF AcceptLoop

(* Each step of a connection's task, of its handlers and of its session     *)
(* keeps the types.                                                         *)
LEMMA ConnectionType ==
    ASSUME TypeOK, NEW c \in Conns, Connection(c)
    PROVE  TypeOK'
<1> USE DEF acceptorVars, slotVars, connVars
<1>1. ASSUME NEW p \in {"h1", "h2"}, Opened(c, p)
      PROVE  TypeOK'
  BY <1>1 DEF TypeOK, Opened
<1>2. CASE OpeningFails(c) \/ StopOpening(c) \/ ConnectionFails(c)
           \/ IdleClose(c) \/ AbortLands(c)
  BY <1>2, EndTaskType
     DEF OpeningFails, StopOpening, ConnectionFails, IdleClose, AbortLands
<1>3. CASE StopOpen(c)
  BY <1>3 DEF TypeOK, StopOpen, GracefulShutdown
<1>4. CASE RequestArrives(c)
  <2>1. permits' \in Nat /\ refs' \in [Conns -> SUBSET Owners]
    BY <1>4, ReownType DEF RequestArrives
  <2>2. budget' \in [Conns -> Nat]
    <3>1. budget[c] - 1 \in Nat
      BY <1>4 DEF TypeOK, RequestArrives
    <3> QED
      BY <1>4, <3>1 DEF TypeOK, RequestArrives
  <2> QED
    BY <1>4, <2>1, <2>2 DEF TypeOK, RequestArrives
<1>5. CASE HandlerBlocks(c) \/ HandlerYields(c)
  BY <1>5 DEF TypeOK, HandlerBlocks, HandlerYields
<1>6. CASE ResponseSent(c) \/ StreamDropped(c)
  <2>1. permits' \in Nat /\ refs' \in [Conns -> SUBSET Owners]
    BY <1>6, ReownType DEF ResponseSent, StreamDropped
  <2> QED
    BY <1>6, <2>1 DEF TypeOK, ResponseSent, StreamDropped
<1>7. CASE IdleTimeout(c)
  BY <1>7, EndTaskType DEF TypeOK, IdleTimeout, GracefulShutdown
<1>8. CASE HandlerUpgrades(c)
  <2>1. permits' \in Nat /\ refs' \in [Conns -> SUBSET Owners]
    BY <1>8, ReownType DEF HandlerUpgrades
  <2> QED
    BY <1>8, <2>1 DEF TypeOK, HandlerUpgrades
<1>9. CASE ConnectionUpgraded(c)
  <2>1. permits' \in Nat /\ refs' \in [Conns -> SUBSET Owners]
    BY <1>9, ReownType DEF ConnectionUpgraded
  <2> QED
    BY <1>9, <2>1 DEF TypeOK, ConnectionUpgraded
<1>10. CASE SessionCancelled(c) \/ SessionEnds(c)
  <2>1. permits' \in Nat /\ refs' \in [Conns -> SUBSET Owners]
    BY <1>10, ReownType DEF SessionCancelled, SessionEnds
  <2> QED
    BY <1>10, <2>1 DEF TypeOK, SessionCancelled, SessionEnds
<1> QED
  BY <1>1, <1>2, <1>3, <1>4, <1>5, <1>6, <1>7, <1>8, <1>9, <1>10 DEF Connection

(* A serve call starts with well-typed variables.                           *)
LEMMA TypeInit == Init => TypeOK
<1> SUFFICES ASSUME Init
             PROVE  TypeOK
  OBVIOUS
<1>1. MaxConns \in Nat /\ MaxRequests \in Nat
  BY ServerAssumption DEF ServerAssumption
<1>2. /\ refs \in [Conns -> SUBSET Owners]
      /\ budget \in [Conns -> Nat]
  BY <1>1 DEF Init
<1> QED
  BY <1>1, <1>2 DEF Init, TypeOK

(* Every step of the server, its clients and its caller keeps the types.    *)
LEMMA TypeStep == TypeOK /\ [Next]_vars => TypeOK'
<1> SUFFICES ASSUME TypeOK, [Next]_vars
             PROVE  TypeOK'
  OBVIOUS
<1> USE DEF acceptorVars, slotVars, connVars
<1>1. CASE Environment
  <2>1. ASSUME NEW c \in Conns, Arrive(c)
        PROVE  TypeOK'
    BY <2>1 DEF TypeOK, Arrive
  <2>2. ASSUME NEW c \in Conns, PeerLeaves(c)
        PROVE  TypeOK'
    BY <2>2 DEF TypeOK, PeerLeaves
  <2>3. CASE RequestShutdown
    BY <2>3 DEF TypeOK, RequestShutdown
  <2> QED
    BY <1>1, <2>1, <2>2, <2>3 DEF Environment
<1>2. CASE AcceptLoop
  BY <1>2, AcceptLoopType
<1>3. CASE Drain
  BY <1>3 DEF TypeOK, Drain, DrainDone, DrainTimeout, GraceDone,
              GraceTimeout, Unfinished, AbortAll
<1>4. ASSUME NEW c \in Conns, Connection(c)
      PROVE  TypeOK'
  BY <1>4, ConnectionType
<1>5. CASE UNCHANGED vars
  BY <1>5 DEF TypeOK, vars
<1> QED
  BY <1>1, <1>2, <1>3, <1>4, <1>5 DEF Next

(* Every variable of the server keeps its type.                             *)
THEOREM TypeCorrect == Spec => []TypeOK
BY TypeInit, TypeStep, PTL DEF Spec

-----------------------------------------------------------------------------
(* The slots.                                                               *)

(* Finitely many connections hold a slot, so their number is a number.      *)
LEMMA HoldersFinite ==
    IsFiniteSet(Holders) /\ Cardinality(Holders) \in Nat
<1>1. IsFiniteSet(Conns)
  BY ServerAssumption DEF ServerAssumption
<1>2. Holders \in SUBSET Conns
  BY DEF Holders
<1> QED
  BY <1>1, <1>2, FS_Subset, FS_CardinalityType

(* A permit is free again exactly when a connection stops holding it.       *)
LEMMA ReownSlots ==
    ASSUME TypeOK, NEW c \in Conns, refs[c] # {}, NEW gone, NEW new,
           Reown(c, gone, new)
    PROVE  permits' + Cardinality(Holders') = permits + Cardinality(Holders)
<1> DEFINE left == (refs[c] \ gone) \union new
<1>1. /\ refs \in [Conns -> SUBSET Owners]
      /\ permits \in Nat
  BY DEF TypeOK
<1>2. /\ refs' = [refs EXCEPT ![c] = left]
      /\ permits' = IF left = {} THEN permits + 1 ELSE permits
  BY DEF Reown
<1> HIDE DEF left
<1>3. CASE left = {}
  <2>1. Holders' = Holders \ {c}
    BY <1>1, <1>2, <1>3 DEF Holders
  <2>2. c \in Holders
    BY DEF Holders
  <2>3. Cardinality(Holders \ {c}) = Cardinality(Holders) - 1
    BY <2>2, HoldersFinite, FS_RemoveElement
  <2> QED
    BY <1>1, <1>2, <1>3, <2>1, <2>3, HoldersFinite
<1>4. CASE left # {}
  <2>1. Holders' = Holders
    BY <1>1, <1>2, <1>4 DEF Holders
  <2> QED
    BY <1>2, <1>4, <2>1
<1> QED
  BY <1>3, <1>4

(* The permit accept_next takes before it accepts is handed to the          *)
(* connection, or goes back to the semaphore on every way out of the loop.  *)
LEMMA AcceptLoopSlots ==
    ASSUME TypeOK, SlotConservation, OwnersLive, AcceptLoop
    PROVE  SlotConservation'
<1> USE DEF acceptorVars, slotVars, connVars
<1>0. /\ permits \in Nat
      /\ Cardinality(Holders) \in Nat
      /\ IsFiniteSet(Holders)
      /\ refs \in [Conns -> SUBSET Owners]
  BY HoldersFinite DEF TypeOK
<1>1. CASE TakeSlot
  <2>1. Holders' = Holders
    BY <1>1 DEF TakeSlot, Holders
  <2> QED
    BY <1>0, <1>1, <2>1 DEF TakeSlot, SlotConservation, LoopHolds
<1>2. CASE StopAccepting
  <2>1. Holders' = Holders
    BY <1>2 DEF StopAccepting, Holders
  <2> QED
    BY <1>0, <1>2, <2>1 DEF StopAccepting, SlotConservation, LoopHolds
<1>3. ASSUME NEW c \in Conns, Accept(c)
      PROVE  SlotConservation'
  <2>1. c \notin Holders
    BY <1>3 DEF Accept, OwnersLive, OwnersAre, Holders
  <2>2. Holders' = Holders \union {c}
    BY <1>0, <1>3 DEF Accept, Holders
  <2>3. Cardinality(Holders') = Cardinality(Holders) + 1
    BY <1>0, <2>1, <2>2, FS_AddElement
  <2> QED
    BY <1>0, <1>3, <2>3 DEF Accept, SlotConservation, LoopHolds
<1>4. ASSUME NEW c \in Conns, AcceptRetry(c)
      PROVE  SlotConservation'
  BY <1>4 DEF AcceptRetry, SlotConservation, LoopHolds, Holders
<1>5. CASE AcceptBackoff
  BY <1>5 DEF AcceptBackoff, SlotConservation, LoopHolds, Holders
<1>6. CASE BackoffOver
  BY <1>6 DEF BackoffOver, SlotConservation, LoopHolds, Holders
<1>7. CASE AcceptFatal
  <2>1. Holders' = Holders
    BY <1>7 DEF AcceptFatal, Holders
  <2> QED
    BY <1>0, <1>7, <2>1 DEF AcceptFatal, SlotConservation, LoopHolds
<1> QED
  BY <1>1, <1>2, <1>3, <1>4, <1>5, <1>6, <1>7 DEF AcceptLoop

(* A step of a connection either leaves the slots alone or moves them among *)
(* the owners of a slot that is held.                                       *)
LEMMA ConnectionReowns ==
    ASSUME OwnersLive, NEW c \in Conns, Connection(c)
    PROVE  \/ permits' = permits /\ refs' = refs
           \/ refs[c] # {} /\ \E gone, new : Reown(c, gone, new)
<1> USE DEF acceptorVars, slotVars, connVars
<1>0. OwnersAre(c)
  BY DEF OwnersLive
<1>1. CASE \/ \E p \in {"h1", "h2"} : Opened(c, p)
           \/ StopOpen(c) \/ HandlerBlocks(c) \/ HandlerYields(c)
  BY <1>1 DEF Opened, StopOpen, HandlerBlocks, HandlerYields
<1>2. CASE OpeningFails(c) \/ StopOpening(c) \/ ConnectionFails(c)
           \/ IdleClose(c) \/ AbortLands(c)
  BY <1>0, <1>2 DEF OwnersAre, OpeningFails, StopOpening, ConnectionFails,
                    IdleClose, AbortLands, Serving, EndTask
<1>3. CASE IdleTimeout(c)
  BY <1>0, <1>3 DEF OwnersAre, IdleTimeout, Serving, EndTask
<1>4. CASE RequestArrives(c) \/ ResponseSent(c) \/ StreamDropped(c)
           \/ HandlerUpgrades(c)
  BY <1>0, <1>4 DEF OwnersAre, RequestArrives, ResponseSent, StreamDropped,
                    HandlerUpgrades, Serving
<1>5. CASE ConnectionUpgraded(c) \/ SessionCancelled(c) \/ SessionEnds(c)
  BY <1>0, <1>5 DEF OwnersAre, ConnectionUpgraded, SessionCancelled,
                    SessionEnds, Serving
<1> QED
  BY <1>1, <1>2, <1>3, <1>4, <1>5 DEF Connection

(* Clones of a permit that move from the connection to a request, and from  *)
(* there to a WebSocket session, neither lose it nor free it twice.         *)
LEMMA ConnectionSlots ==
    ASSUME TypeOK, SlotConservation, OwnersLive, NEW c \in Conns, Connection(c)
    PROVE  SlotConservation'
<1> USE DEF acceptorVars, slotVars, connVars
<1>1. acceptor' = acceptor
  BY DEF Connection, Opened, OpeningFails, StopOpening, StopOpen, RequestArrives,
         HandlerBlocks, HandlerYields, ResponseSent, StreamDropped,
         ConnectionFails, IdleTimeout, IdleClose, AbortLands, HandlerUpgrades,
         ConnectionUpgraded, SessionCancelled, SessionEnds, EndTask
<1>2. \/ permits' = permits /\ refs' = refs
      \/ refs[c] # {} /\ \E gone, new : Reown(c, gone, new)
  BY ConnectionReowns
<1>3. CASE permits' = permits /\ refs' = refs
  BY <1>1, <1>3 DEF SlotConservation, LoopHolds, Holders
<1>4. CASE refs[c] # {} /\ \E gone, new : Reown(c, gone, new)
  <2>1. permits' + Cardinality(Holders') = permits + Cardinality(Holders)
    BY <1>4, ReownSlots
  <2>2. permits' \in Nat /\ Cardinality(Holders') \in Nat
        /\ permits \in Nat /\ Cardinality(Holders) \in Nat
    <3>1. permits' \in Nat
      BY <1>4 DEF TypeOK, Reown
    <3>2. Holders' \in SUBSET Conns /\ IsFiniteSet(Conns)
      BY ServerAssumption DEF ServerAssumption, Holders
    <3> QED
      BY <3>1, <3>2, HoldersFinite, FS_Subset, FS_CardinalityType DEF TypeOK
  <2> QED
    BY <1>1, <2>1, <2>2, ServerAssumption
       DEF SlotConservation, LoopHolds, ServerAssumption
<1> QED
  BY <1>2, <1>3, <1>4

-----------------------------------------------------------------------------
(* Owners and tasks.                                                        *)

(* Dropping the owners in gone and adding those in new is all that happens  *)
(* to c's slot, and nothing to any other connection's.                      *)
LEMMA ReownRefs ==
    ASSUME TypeOK, NEW c \in Conns, NEW gone, NEW new, Reown(c, gone, new)
    PROVE  /\ refs'[c] = (refs[c] \ gone) \union new
           /\ \A d \in Conns \ {c} : refs'[d] = refs[d]
BY DEF TypeOK, Reown

(* When a connection's task ends, its slot is left to exactly what still    *)
(* runs: an HTTP/2 handler or a WebSocket session.                          *)
LEMMA EndTaskOwners ==
    ASSUME TypeOK, OwnersLive, NEW c \in Conns,
           task[c] \in {"live", "aborted"}, EndTask(c)
    PROVE  OwnersLive'
<1>1. OwnersAre(c)
  BY DEF OwnersLive
<1>2. PICK gone \in SUBSET Owners :
        /\ gone = IF proto[c] = "h1" THEN {"task", "request"} ELSE {"task"}
        /\ Reown(c, gone, {})
  BY DEF EndTask
<1>3. /\ refs'[c] = refs[c] \ gone
      /\ \A d \in Conns \ {c} : refs'[d] = refs[d]
  BY <1>2, ReownRefs
<1>4. OwnersAre(c)'
  BY <1>1, <1>2, <1>3 DEF TypeOK, OwnersAre, EndTask
<1>5. ASSUME NEW d \in Conns \ {c}
      PROVE  OwnersAre(d)'
  BY <1>3 DEF TypeOK, OwnersLive, OwnersAre, EndTask
<1> QED
  BY <1>4, <1>5 DEF OwnersLive

(* At each step of a connection, a slot's owners are what runs on it.       *)
LEMMA ConnectionOwners ==
    ASSUME TypeOK, OwnersLive, NEW c \in Conns, Connection(c)
    PROVE  OwnersLive'
<1> USE DEF acceptorVars, slotVars, connVars
<1>0. OwnersAre(c)
  BY DEF OwnersLive
<1>1. CASE OpeningFails(c) \/ StopOpening(c) \/ ConnectionFails(c)
           \/ IdleClose(c) \/ AbortLands(c)
           \/ (IdleTimeout(c) /\ proto[c] = "h1")
  BY <1>1, EndTaskOwners
     DEF OpeningFails, StopOpening, ConnectionFails, IdleClose, AbortLands,
         IdleTimeout, Serving
<1>2. CASE \/ \E p \in {"h1", "h2"} : Opened(c, p)
           \/ StopOpen(c) \/ (IdleTimeout(c) /\ proto[c] = "h2")
           \/ HandlerBlocks(c) \/ HandlerYields(c)
  <2> SUFFICES ASSUME NEW d \in Conns
               PROVE  OwnersAre(d)'
    BY DEF OwnersLive
  <2>1. OwnersAre(d)
    BY DEF OwnersLive
  <2>2. CASE \E p \in {"h1", "h2"} : Opened(c, p)
    BY <1>0, <2>1, <2>2 DEF TypeOK, OwnersAre, Opened
  <2>3. CASE StopOpen(c) \/ (IdleTimeout(c) /\ proto[c] = "h2")
    BY <2>1, <2>3 DEF OwnersAre, StopOpen, IdleTimeout
  <2>4. CASE HandlerBlocks(c) \/ HandlerYields(c)
    BY <1>0, <2>1, <2>4 DEF TypeOK, OwnersAre, HandlerBlocks, HandlerYields
  <2> QED
    BY <1>2, <2>2, <2>3, <2>4
<1>3. CASE RequestArrives(c)
  <2>1. /\ refs'[c] = refs[c] \union {"request"}
        /\ \A d \in Conns \ {c} : refs'[d] = refs[d]
    BY <1>3, ReownRefs DEF RequestArrives
  <2>2. OwnersAre(c)'
    BY <1>0, <1>3, <2>1 DEF TypeOK, OwnersAre, RequestArrives, Serving
  <2>3. ASSUME NEW d \in Conns \ {c}
        PROVE  OwnersAre(d)'
    BY <1>3, <2>1 DEF TypeOK, OwnersLive, OwnersAre, RequestArrives
  <2> QED
    BY <2>2, <2>3 DEF OwnersLive
<1>4. CASE ResponseSent(c) \/ StreamDropped(c)
  <2>1. /\ refs'[c] = refs[c] \ {"request"}
        /\ \A d \in Conns \ {c} : refs'[d] = refs[d]
    BY <1>4, ReownRefs DEF ResponseSent, StreamDropped
  <2>2. OwnersAre(c)'
    BY <1>0, <1>4, <2>1
       DEF TypeOK, OwnersAre, ResponseSent, StreamDropped, Serving
  <2>3. ASSUME NEW d \in Conns \ {c}
        PROVE  OwnersAre(d)'
    BY <1>4, <2>1 DEF TypeOK, OwnersLive, OwnersAre, ResponseSent, StreamDropped
  <2> QED
    BY <2>2, <2>3 DEF OwnersLive
<1>5. CASE HandlerUpgrades(c)
  <2>1. /\ refs'[c] = (refs[c] \ {"request"}) \union {"session"}
        /\ \A d \in Conns \ {c} : refs'[d] = refs[d]
    BY <1>5, ReownRefs DEF HandlerUpgrades
  <2>2. OwnersAre(c)'
    BY <1>0, <1>5, <2>1 DEF TypeOK, OwnersAre, HandlerUpgrades, Serving
  <2>3. ASSUME NEW d \in Conns \ {c}
        PROVE  OwnersAre(d)'
    BY <1>5, <2>1 DEF TypeOK, OwnersLive, OwnersAre, HandlerUpgrades
  <2> QED
    BY <2>2, <2>3 DEF OwnersLive
<1>6. CASE ConnectionUpgraded(c)
  <2>1. /\ refs'[c] = refs[c] \ {"task"}
        /\ \A d \in Conns \ {c} : refs'[d] = refs[d]
    BY <1>6, ReownRefs DEF ConnectionUpgraded
  <2>2. OwnersAre(c)'
    BY <1>0, <1>6, <2>1 DEF TypeOK, OwnersAre, ConnectionUpgraded, Serving
  <2>3. ASSUME NEW d \in Conns \ {c}
        PROVE  OwnersAre(d)'
    BY <1>6, <2>1 DEF TypeOK, OwnersLive, OwnersAre, ConnectionUpgraded
  <2> QED
    BY <2>2, <2>3 DEF OwnersLive
<1>7. CASE SessionCancelled(c) \/ SessionEnds(c)
  <2>1. /\ refs'[c] = refs[c] \ {"session"}
        /\ \A d \in Conns \ {c} : refs'[d] = refs[d]
    BY <1>7, ReownRefs DEF SessionCancelled, SessionEnds
  <2>2. OwnersAre(c)'
    BY <1>0, <1>7, <2>1 DEF TypeOK, OwnersAre, SessionCancelled, SessionEnds
  <2>3. ASSUME NEW d \in Conns \ {c}
        PROVE  OwnersAre(d)'
    BY <1>7, <2>1 DEF TypeOK, OwnersLive, OwnersAre, SessionCancelled, SessionEnds
  <2> QED
    BY <2>2, <2>3 DEF OwnersLive
<1>8. IdleTimeout(c) => proto[c] \in {"h1", "h2"}
  BY DEF TypeOK
<1> QED
  BY <1>1, <1>2, <1>3, <1>4, <1>5, <1>6, <1>7, <1>8 DEF Connection, IdleTimeout

(* No connection step makes a task live, or touches the JoinSet.            *)
LEMMA ConnectionTasks ==
    ASSUME TypeOK, NEW c \in Conns, Connection(c)
    PROVE  /\ acceptor' = acceptor /\ tasks' = tasks
           /\ task' = task \/ task' = [task EXCEPT ![c] = "ended"]
BY DEF Connection, Opened, OpeningFails, StopOpening, StopOpen, RequestArrives,
       HandlerBlocks, HandlerYields, ResponseSent, StreamDropped,
       ConnectionFails, IdleTimeout, IdleClose, AbortLands, HandlerUpgrades,
       ConnectionUpgraded, SessionCancelled, SessionEnds, EndTask,
       acceptorVars, connVars, slotVars

(* The loop gives a slot to the task it spawns and keeps every running      *)
(* task in the JoinSet, or aborts them all when it fails.                   *)
LEMMA AcceptLoopOwners ==
    ASSUME TypeOK, OwnersLive, TasksTracked, AcceptLoop
    PROVE  OwnersLive' /\ TasksTracked'
<1> USE DEF acceptorVars, slotVars, connVars
<1>1. CASE TakeSlot \/ StopAccepting \/ AcceptBackoff \/ BackoffOver
  BY <1>1 DEF TakeSlot, StopAccepting, AcceptBackoff, BackoffOver, TypeOK,
              OwnersLive, OwnersAre, TasksTracked
<1>2. ASSUME NEW c \in Conns, Accept(c)
      PROVE  OwnersLive' /\ TasksTracked'
  <2>1. OwnersAre(c)
    BY DEF OwnersLive
  <2>2. OwnersAre(c)'
    BY <1>2, <2>1 DEF TypeOK, OwnersAre, Accept
  <2>3. ASSUME NEW d \in Conns \ {c}
        PROVE  OwnersAre(d)'
    BY <1>2 DEF TypeOK, OwnersLive, OwnersAre, Accept
  <2>4. TasksTracked'
    BY <1>2 DEF TypeOK, TasksTracked, Accept, Unfinished
  <2> QED
    BY <2>2, <2>3, <2>4 DEF OwnersLive
<1>3. ASSUME NEW c \in Conns, AcceptRetry(c)
      PROVE  OwnersLive' /\ TasksTracked'
  <2>1. OwnersAre(c)
    BY DEF OwnersLive
  <2>2. OwnersAre(c)'
    BY <1>3, <2>1 DEF TypeOK, OwnersAre, AcceptRetry
  <2>3. ASSUME NEW d \in Conns \ {c}
        PROVE  OwnersAre(d)'
    BY <1>3 DEF TypeOK, OwnersLive, OwnersAre, AcceptRetry
  <2>4. TasksTracked'
    BY <1>3 DEF TypeOK, TasksTracked, AcceptRetry
  <2> QED
    BY <2>2, <2>3, <2>4 DEF OwnersLive
<1>4. CASE AcceptFatal
  BY <1>4 DEF AcceptFatal, AbortAll, TypeOK, OwnersLive, OwnersAre, TasksTracked
<1> QED
  BY <1>1, <1>2, <1>3, <1>4 DEF AcceptLoop

(* drain_connections forgets a task only when it has ended or was told to   *)
(* stop.                                                                    *)
LEMMA DrainOwners ==
    ASSUME TypeOK, OwnersLive, TasksTracked, Drain
    PROVE  OwnersLive' /\ TasksTracked'
<1> USE DEF acceptorVars, slotVars, connVars
<1>1. CASE DrainDone
  <2>1. \A c \in Conns : task[c] \notin {"live", "aborted"}
    BY <1>1 DEF DrainDone, TasksTracked, Unfinished, TypeOK
  <2> QED
    BY <1>1, <2>1 DEF DrainDone, OwnersLive, OwnersAre, TasksTracked
<1>2. CASE DrainTimeout
  <2>1. OwnersLive'
    BY <1>2 DEF DrainTimeout, AbortAll, TypeOK, OwnersLive, OwnersAre
  <2>2. \A c \in Conns : task'[c] # "live"
    BY <1>2 DEF DrainTimeout, AbortAll, TypeOK, TasksTracked
  <2> QED
    BY <1>2, <2>1, <2>2 DEF DrainTimeout, TasksTracked
<1>3. CASE GraceDone \/ GraceTimeout
  BY <1>3 DEF GraceDone, GraceTimeout, OwnersLive, OwnersAre, TasksTracked
<1> QED
  BY <1>1, <1>2, <1>3 DEF Drain

-----------------------------------------------------------------------------
(* The inductive invariant and what follows from it.                        *)

(* What clients and the caller do alone disturbs no part of the invariant.  *)
LEMMA EnvironmentKeeps ==
    ASSUME ServerInv, Environment \/ UNCHANGED vars
    PROVE  SlotConservation' /\ OwnersLive' /\ TasksTracked'
<1> USE DEF ServerInv, acceptorVars, slotVars, connVars
<1>1. ASSUME NEW c \in Conns, Arrive(c)
      PROVE  SlotConservation' /\ OwnersLive' /\ TasksTracked'
  <2>1. \A d \in Conns : OwnersAre(d)'
    BY <1>1 DEF TypeOK, OwnersLive, OwnersAre, Arrive
  <2>2. SlotConservation' /\ TasksTracked'
    BY <1>1 DEF Arrive, SlotConservation, LoopHolds, Holders, TasksTracked
  <2> QED
    BY <2>1, <2>2 DEF OwnersLive
<1>2. ASSUME NEW c \in Conns, PeerLeaves(c)
      PROVE  SlotConservation' /\ OwnersLive' /\ TasksTracked'
  BY <1>2 DEF PeerLeaves, SlotConservation, LoopHolds, Holders, OwnersLive,
              OwnersAre, TasksTracked
<1>3. CASE RequestShutdown \/ UNCHANGED vars
  BY <1>3 DEF RequestShutdown, vars, SlotConservation, LoopHolds, Holders,
              OwnersLive, OwnersAre, TasksTracked
<1> QED
  BY <1>1, <1>2, <1>3 DEF Environment

(* drain_connections touches no permit.                                     *)
LEMMA DrainSlots ==
    ASSUME SlotConservation, Drain
    PROVE  SlotConservation'
BY DEF SlotConservation, LoopHolds, Holders, Drain, DrainDone, DrainTimeout,
       GraceDone, GraceTimeout, slotVars

(* ServerInv holds in every state of every behaviour of the server.         *)
THEOREM Invariance == Spec => []ServerInv
<1>1. Init => ServerInv
  <2> SUFFICES ASSUME Init
               PROVE  SlotConservation /\ OwnersLive /\ TasksTracked
    BY TypeInit DEF ServerInv
  <2>1. Holders = {}
    BY DEF Init, Holders
  <2>2. SlotConservation
    BY <2>1, FS_EmptySet, ServerAssumption
       DEF Init, SlotConservation, LoopHolds, ServerAssumption
  <2>3. OwnersLive /\ TasksTracked
    BY DEF Init, OwnersLive, OwnersAre, TasksTracked
  <2> QED
    BY <2>2, <2>3
<1>2. ServerInv /\ [Next]_vars => ServerInv'
  <2> SUFFICES ASSUME ServerInv, [Next]_vars
               PROVE  SlotConservation' /\ OwnersLive' /\ TasksTracked'
    BY TypeStep DEF ServerInv
  <2>1. TypeOK /\ SlotConservation /\ OwnersLive /\ TasksTracked
    BY DEF ServerInv
  <2>2. CASE Environment \/ UNCHANGED vars
    BY <2>2, EnvironmentKeeps
  <2>3. CASE AcceptLoop
    BY <2>1, <2>3, AcceptLoopSlots, AcceptLoopOwners
  <2>4. CASE Drain
    BY <2>1, <2>4, DrainSlots, DrainOwners
  <2>5. ASSUME NEW c \in Conns, Connection(c)
        PROVE  SlotConservation' /\ OwnersLive' /\ TasksTracked'
    <3>1. TasksTracked'
      BY <2>1, <2>5, ConnectionTasks DEF TypeOK, TasksTracked
    <3> QED
      BY <2>1, <2>5, <3>1, ConnectionSlots, ConnectionOwners
  <2> QED
    BY <2>2, <2>3, <2>4, <2>5 DEF Next
<1> QED
  BY <1>1, <1>2, PTL DEF Spec

(* No path loses a permit or makes one up.                                  *)
THEOREM SlotsConserved == Spec => []SlotConservation
BY Invariance, PTL DEF ServerInv

(* The server never has more than max_connections sockets open, sessions    *)
(* included.                                                                *)
THEOREM ConnectionLimit == Spec => []OpenWithinCap
<1>1. ServerInv => OpenWithinCap
  <2> SUFFICES ASSUME ServerInv
               PROVE  OpenWithinCap
    OBVIOUS
  <2>1. OpenSockets \in SUBSET Holders
    BY DEF ServerInv, OwnersLive, OwnersAre, OpenSockets, Holders
  <2>2. Cardinality(OpenSockets) <= Cardinality(Holders)
    BY <2>1, HoldersFinite, FS_Subset
  <2>3. Cardinality(Holders) <= MaxConns
    BY HoldersFinite, ServerAssumption
       DEF ServerInv, TypeOK, SlotConservation, ServerAssumption
  <2>4. Cardinality(OpenSockets) \in Nat
    BY <2>1, HoldersFinite, FS_Subset, FS_CardinalityType
  <2> QED
    BY <2>2, <2>3, <2>4, HoldersFinite, ServerAssumption
       DEF OpenWithinCap, ServerAssumption
<1> QED
  BY <1>1, Invariance, PTL

(* Every slot and every running task has someone who ends it.               *)
THEOREM OwnersKnown == Spec => []OwnersTracked
BY Invariance, PTL DEF ServerInv, OwnersTracked

-----------------------------------------------------------------------------
(* What the steps of a shutdown may do.                                     *)

(* A task is aborted only when the call is over or waits for it.            *)
AbortedAwaited ==
    \A c \in Conns :
        task[c] = "aborted" =>
            \/ acceptor \in {"returned", "failed"}
            \/ acceptor = "grace" /\ c \in tasks

(* Only abort_all aborts a task, and the grace period awaits all it         *)
(* aborts.                                                                  *)
LEMMA AbortedStep ==
    ASSUME ServerInv, AbortedAwaited, [Next]_vars
    PROVE  AbortedAwaited'
<1> USE DEF ServerInv, TypeOK
<1>1. CASE Environment \/ UNCHANGED vars
  BY <1>1 DEF Environment, Arrive, PeerLeaves, RequestShutdown, AbortedAwaited,
              vars, acceptorVars, slotVars, connVars
<1>2. CASE AcceptLoop
  <2> USE DEF acceptorVars, slotVars, connVars, AbortedAwaited
  <2>1. CASE TakeSlot \/ StopAccepting \/ AcceptBackoff \/ BackoffOver \/ AcceptFatal
    BY <2>1 DEF TakeSlot, StopAccepting, AcceptBackoff, BackoffOver, AcceptFatal
  <2>2. ASSUME NEW c \in Conns, Accept(c) \/ AcceptRetry(c)
        PROVE  AbortedAwaited'
    BY <2>2 DEF Accept, AcceptRetry
  <2> QED
    BY <1>2, <2>1, <2>2 DEF AcceptLoop
<1>3. CASE Drain
  <2> USE DEF acceptorVars, slotVars, connVars, AbortedAwaited
  <2>1. CASE DrainDone \/ GraceDone \/ GraceTimeout
    BY <2>1 DEF DrainDone, GraceDone, GraceTimeout
  <2>2. CASE DrainTimeout
    BY <2>2 DEF DrainTimeout, AbortAll, Unfinished, TasksTracked
  <2> QED
    BY <1>3, <2>1, <2>2 DEF Drain
<1>4. ASSUME NEW c \in Conns, Connection(c)
      PROVE  AbortedAwaited'
  BY <1>4, ConnectionTasks DEF AbortedAwaited
<1> QED
  BY <1>1, <1>2, <1>3, <1>4 DEF Next

(* An aborted task is awaited until drain_connections gives it up.          *)
LEMMA AbortedInvariance == Spec => []AbortedAwaited
<1>1. Init => AbortedAwaited
  BY DEF Init, AbortedAwaited
<1>2. ServerInv /\ AbortedAwaited /\ [Next]_vars => AbortedAwaited'
  BY AbortedStep
<1> QED
  BY <1>1, <1>2, Invariance, PTL DEF Spec

(* What drain_connections leaves behind does not yield.                     *)
THEOREM OnlyStuckLeftBehind == Spec => OnlyStuckLeft
<1>1. ASSUME ServerInv, AbortedAwaited, [Next]_vars,
             acceptor # "returned", acceptor' = "returned",
             NEW c \in Conns, task[c] \in {"live", "aborted"}
      PROVE  Stuck(c)
  <2> USE DEF ServerInv, TypeOK
  <2>1. Drain
    <3>1. ~(Environment \/ UNCHANGED vars)
      BY <1>1 DEF Environment, Arrive, PeerLeaves, RequestShutdown, vars,
                  acceptorVars, slotVars, connVars
    <3>2. ~AcceptLoop
      BY <1>1 DEF AcceptLoop, TakeSlot, StopAccepting, Accept, AcceptRetry, AcceptBackoff,
                  BackoffOver, AcceptFatal, acceptorVars
    <3>3. \A d \in Conns : ~Connection(d)
      BY <1>1, ConnectionTasks
    <3> QED
      BY <1>1, <3>1, <3>2, <3>3 DEF Next
  <2>2. CASE DrainDone
    BY <1>1, <2>2 DEF DrainDone, TasksTracked, Unfinished
  <2>3. CASE GraceDone \/ GraceTimeout
    BY <1>1, <2>3 DEF GraceDone, GraceTimeout, TasksTracked, AbortedAwaited, Unfinished
  <2> QED
    BY <1>1, <2>1, <2>2, <2>3 DEF Drain, DrainTimeout
<1>2. ServerInv /\ AbortedAwaited /\ [Next]_vars =>
          [(acceptor # "returned" /\ acceptor' = "returned")
             => (\A c \in Conns : task[c] \in {"live", "aborted"} => Stuck(c))]_vars
  BY <1>1
<1> QED
  BY <1>2, Invariance, AbortedInvariance, PTL DEF Spec, OnlyStuckLeft

(* Before the deadline a shutdown closes no socket under a request.         *)
THEOREM NoRequestCut == Spec => RequestsNotCut
<1>1. ASSUME ServerInv, AbortedAwaited, [Next]_vars, NEW c \in Conns,
             phase[c] = "open", phase'[c] = "closed", req[c] # "none", ~peerGone[c]
      PROVE  acceptor \in {"grace", "returned", "failed"}
  <2> USE DEF ServerInv, TypeOK, acceptorVars, slotVars, connVars
  <2>1. ~(Environment \/ UNCHANGED vars)
    BY <1>1 DEF Environment, Arrive, PeerLeaves, RequestShutdown, vars
  <2>2. ~AcceptLoop
    BY <1>1 DEF AcceptLoop, TakeSlot, StopAccepting, Accept, AcceptRetry, AcceptBackoff,
                BackoffOver, AcceptFatal
  <2>3. ~Drain
    BY <1>1 DEF Drain, DrainDone, DrainTimeout, GraceDone, GraceTimeout
  <2>4. ASSUME NEW d \in Conns, Connection(d)
        PROVE  AbortLands(c)
    <3>1. OwnersAre(c) /\ OwnersAre(d)
      BY <1>1 DEF OwnersLive
    <3>2. d = c
      BY <1>1, <2>4 DEF Connection, Opened, OpeningFails, StopOpening, StopOpen, EndTask,
         RequestArrives, HandlerBlocks, HandlerYields, ResponseSent, StreamDropped,
         ConnectionFails, IdleTimeout, IdleClose, AbortLands, HandlerUpgrades,
         ConnectionUpgraded, SessionCancelled, SessionEnds
    <3> QED
      BY <1>1, <2>4, <3>1, <3>2 DEF Connection, Opened, OpeningFails, StopOpening, StopOpen,
         RequestArrives, HandlerBlocks, HandlerYields, ResponseSent, StreamDropped,
         ConnectionFails, IdleTimeout, IdleClose, HandlerUpgrades,
         ConnectionUpgraded, SessionCancelled, SessionEnds, OwnersAre
  <2>5. AbortLands(c)
    BY <1>1, <2>1, <2>2, <2>3, <2>4 DEF Next
  <2> QED
    BY <1>1, <2>5 DEF AbortLands, AbortedAwaited
<1>2. ServerInv /\ AbortedAwaited /\ [Next]_vars =>
          [\A c \in Conns :
             /\ phase[c] = "open" /\ phase'[c] = "closed"
             /\ req[c] # "none"
             /\ ~peerGone[c]
             => acceptor \in {"grace", "returned", "failed"}]_vars
  BY <1>1
<1> QED
  BY <1>2, Invariance, AbortedInvariance, PTL DEF Spec, RequestsNotCut

-----------------------------------------------------------------------------
(* The refinement of BoundedService.                                        *)

(* A turn of the accept loop admits one connection under the cap, stops,    *)
(* gives everything up, or changes nothing the contract sees.               *)
LEMMA AcceptLoopImplements ==
    ASSUME ServerInv, AcceptLoop
    PROVE  [Contract!Next]_(Contract!vars)
<1> USE DEF ServerInv, acceptorVars, slotVars, connVars, Contract!vars
<1>1. CASE TakeSlot \/ AcceptBackoff \/ BackoffOver
  BY <1>1 DEF TakeSlot, AcceptBackoff, BackoffOver, Holders, Served, Stage
<1>2. CASE StopAccepting
  <2>1. Contract!Stop
    BY <1>2 DEF StopAccepting, Contract!Stop, Holders, Served, Stage
  <2> QED
    BY <2>1 DEF Contract!Next
<1>3. ASSUME NEW c \in Conns, Accept(c)
      PROVE  [Contract!Next]_(Contract!vars)
  <2>1. OwnersAre(c)
    BY DEF OwnersLive, OwnersAre
  <2>2. c \notin Holders
    BY <1>3, <2>1 DEF Accept, OwnersAre, Holders
  <2>3. Cardinality(Holders) < MaxConns
    BY <1>3, HoldersFinite, ServerAssumption
       DEF Accept, SlotConservation, LoopHolds, TypeOK, ServerAssumption
  <2>4. Holders' = Holders \union {c} /\ Served' = Served \union {c}
    BY <1>3 DEF Accept, TypeOK, Holders, Served
  <2>5. Stage = "serving" /\ Stage' = "serving"
    BY <1>3 DEF Accept, Stage
  <2>6. Contract!Cardinality(Holders) = Cardinality(Holders)
    BY DEF Cardinality, Contract!Cardinality
  <2>7. Contract!Admit(c)
    BY <2>2, <2>3, <2>4, <2>5, <2>6 DEF Contract!Admit
  <2> QED
    BY <2>7 DEF Contract!Next
<1>4. ASSUME NEW c \in Conns, AcceptRetry(c)
      PROVE  [Contract!Next]_(Contract!vars)
  BY <1>4 DEF AcceptRetry, Holders, Served, Stage
<1>5. CASE AcceptFatal
  <2>1. Served' = {} /\ Holders' = Holders
    BY <1>5 DEF AcceptFatal, AbortAll, TypeOK, TasksTracked, Served, Holders
  <2>2. Stage = "serving" /\ Stage' = "over"
    BY <1>5 DEF AcceptFatal, Stage
  <2> QED
    BY <2>1, <2>2 DEF Contract!GiveUp, Contract!Next
<1> QED
  BY <1>1, <1>2, <1>3, <1>4, <1>5 DEF AcceptLoop

(* drain_connections only ends the call, with nothing served any more.      *)
LEMMA DrainImplements ==
    ASSUME ServerInv, Drain
    PROVE  [Contract!Next]_(Contract!vars)
<1> USE DEF ServerInv, acceptorVars, slotVars, connVars
<1>1. Holders' = Holders
  BY DEF Drain, DrainDone, DrainTimeout, GraceDone, GraceTimeout, Holders
<1>2. Stage = "stopping" /\ Stage' \in {"stopping", "over"}
  BY DEF Drain, DrainDone, DrainTimeout, GraceDone, GraceTimeout, Stage
<1>3. Served' = {}
  <2>1. CASE DrainDone
    BY <2>1 DEF DrainDone, Unfinished, TasksTracked, TypeOK, Served
  <2>2. CASE DrainTimeout
    BY <2>2 DEF DrainTimeout, AbortAll, TasksTracked, TypeOK, Served
  <2>3. CASE GraceDone \/ GraceTimeout
    BY <2>3 DEF GraceDone, GraceTimeout, TasksTracked, Served
  <2> QED
    BY <2>1, <2>2, <2>3 DEF Drain
<1> QED
  BY <1>1, <1>2, <1>3 DEF Contract!GiveUp, Contract!Next

(* A step of a connection makes it leave, makes it give its slot back, or   *)
(* changes nothing the contract sees.                                       *)
LEMMA ConnectionImplements ==
    ASSUME ServerInv, ServerInv', NEW c \in Conns, Connection(c)
    PROVE  [Contract!Next]_(Contract!vars)
<1> USE DEF ServerInv
<1>1. Stage' = Stage
  BY ConnectionTasks DEF Stage
<1>2. Holders' \in {Holders, Holders \ {c}}
  <2>1. CASE refs' = refs
    BY <2>1 DEF Holders
  <2>2. ASSUME NEW gone, NEW new, Reown(c, gone, new), refs[c] # {}
        PROVE  Holders' \in {Holders, Holders \ {c}}
    <3>1. \A d \in Conns \ {c} : refs'[d] = refs[d]
      BY <2>2, ReownRefs
    <3> QED
      BY <2>2, <3>1 DEF Holders
  <2> QED
    BY <2>1, <2>2, ConnectionReowns
<1>3. Served' \in {Served, Served \ {c}}
  BY ConnectionTasks DEF TypeOK, Served
<1>4. CASE Served' # Served
  <2>1. c \in Served /\ Served' = Served \ {c}
    BY <1>3, <1>4
  <2>2. Contract!Leave(c)
    BY <1>1, <1>2, <2>1 DEF Contract!Leave
  <2> QED
    BY <2>2 DEF Contract!Next
<1>5. CASE Served' = Served /\ Holders' # Holders
  <2>1. c \in Holders /\ c \notin Holders'
    BY <1>2, <1>5
  <2>2. c \notin Served'
    <3>1. refs'[c] = {} /\ OwnersAre(c)'
      BY <2>1 DEF OwnersLive, Holders
    <3> QED
      BY <3>1 DEF OwnersAre, Served
  <2>3. Contract!Release(c)
    BY <1>1, <1>2, <1>5, <2>1, <2>2 DEF Contract!Release
  <2> QED
    BY <2>3 DEF Contract!Next
<1>6. CASE Served' = Served /\ Holders' = Holders
  BY <1>1, <1>6 DEF Contract!vars
<1> QED
  BY <1>4, <1>5, <1>6

(* The serve loop, its connections and its sessions do what BoundedService  *)
(* allows and nothing else.                                                 *)
THEOREM Implements == Spec => ImplementsContract
<1>1. Init => Contract!Init
  BY DEF Init, Contract!Init, Stage, Holders, Served
<1>2. ServerInv /\ ServerInv' /\ [Next]_vars => [Contract!Next]_(Contract!vars)
  <2> SUFFICES ASSUME ServerInv, ServerInv', [Next]_vars
               PROVE  [Contract!Next]_(Contract!vars)
    OBVIOUS
  <2>1. CASE Environment \/ UNCHANGED vars
    <3>1. acceptor' = acceptor /\ refs' = refs /\ task' = task
      BY <2>1 DEF Environment, Arrive, PeerLeaves, RequestShutdown, vars,
                  acceptorVars, slotVars, connVars
    <3> QED
      BY <3>1 DEF Contract!vars, Stage, Holders, Served
  <2>2. CASE AcceptLoop
    BY <2>2, AcceptLoopImplements
  <2>3. CASE Drain
    BY <2>3, DrainImplements
  <2>4. ASSUME NEW c \in Conns, Connection(c)
        PROVE  [Contract!Next]_(Contract!vars)
    BY <2>4, ConnectionImplements
  <2> QED
    BY <2>1, <2>2, <2>3, <2>4 DEF Next
<1> QED
  BY <1>1, <1>2, Invariance, PTL DEF Spec, ImplementsContract, Contract!Spec
=============================================================================
