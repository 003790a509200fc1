-------------------------- MODULE SharedConnection --------------------------
(***************************************************************************)
(* The one App Server connection that all GPT sessions share, and its      *)
(* replacement after a failure: CodexRuntimeFactory::shared_connection and *)
(* AppServerConnection::launch (adapters/outbound/codex/runtime.rs), with  *)
(* the lifetime of each connection and of its child process.               *)
(*                                                                         *)
(* A request launches at most one connection, which is named after it.     *)
(* What a session does with its connection is AppServerConnection's; here  *)
(* it holds a reference and may be the one that fails the connection.  A   *)
(* connection is an Arc: it is dropped, and its child killed, with its     *)
(* last reference, while the reader task only borrows one.                 *)
(***************************************************************************)
EXTENDS Naturals

CONSTANTS
  Requests,   \* requests that need a model session
  Nobody,     \* no request, no connection
  Reader      \* the reader task of a connection, as the one that fails it

ASSUME SharedAssumption ==
  /\ Nobody \notin Requests
  /\ Reader \notin Requests \cup {Nobody}

VARIABLES
  pc,         \* where the request is
  conn,       \* the connection it holds a reference to
  slot,       \* CodexRuntimeFactory.connection
  launcher,   \* holder of the slot's mutex across awaits
  alive,      \* alive, per connection
  process,    \* the child: "none", "running", "killed", "gone"
  reader,     \* the reader task: "none", "reading", "holding", "stopped"
  failer,     \* who is inside `fail`, past the swap of alive
  ready,      \* history: connections whose handshake is complete
  deadBefore  \* history: connections that had failed when a request arrived

requestVars    == <<pc, conn, deadBefore>>
connectionVars == <<alive, process, reader, failer, ready>>
vars == <<requestVars, slot, launcher, connectionVars>>

Labels == {"idle", "lock", "prepare", "initialize", "store", "use", "done"}

-----------------------------------------------------------------------------
(* Helpers.                                                                *)

Goto(r, label) == pc' = [pc EXCEPT ![r] = label]

Launched(n) == process[n] # "none"

\* A session or the slot owns the connection.
Owned(n) == slot = n \/ \E r \in Requests : conn[r] = n

Referenced(n) == Owned(n) \/ reader[n] = "holding"

\* Where a reference is given up: a connection without any is dropped, and its
\* child is killed (kill_on_drop).
DropUnreferenced ==
  process' = [n \in Requests |->
                IF process[n] = "running" /\ ~Referenced(n)' THEN "killed" ELSE process[n]]

-----------------------------------------------------------------------------
(* shared_connection.                                                      *)

Arrive(r) ==
  /\ pc[r] = "idle"
  /\ Goto(r, "lock")
  /\ deadBefore' = [deadBefore EXCEPT ![r] = {n \in Requests : Launched(n) /\ ~alive[n]}]
  /\ UNCHANGED <<conn, slot, launcher, connectionVars>>

SlotIsAlive == slot # Nobody /\ alive[slot]

\* Mutant: the connection in the slot is taken as it is.
ReuseAny(r) ==
  /\ pc[r] = "lock" /\ launcher = Nobody
  /\ slot # Nobody
  /\ conn' = [conn EXCEPT ![r] = slot]
  /\ Goto(r, "use")
  /\ UNCHANGED <<deadBefore, slot, launcher, connectionVars>>

Reuse(r) ==
  /\ pc[r] = "lock" /\ launcher = Nobody
  /\ SlotIsAlive
  /\ conn' = [conn EXCEPT ![r] = slot]
  /\ Goto(r, "use")
  /\ UNCHANGED <<deadBefore, slot, launcher, connectionVars>>

\* Mutant: the mutex is not held across the launch.
BeginLaunchUnlocked(r) ==
  /\ pc[r] = "lock" /\ launcher = Nobody
  /\ ~SlotIsAlive
  /\ Goto(r, "prepare")
  /\ UNCHANGED <<conn, deadBefore, slot, launcher, connectionVars>>

\* The mutex stays locked during the launch.
BeginLaunch(r) ==
  /\ pc[r] = "lock" /\ launcher = Nobody
  /\ ~SlotIsAlive
  /\ launcher' = r
  /\ Goto(r, "prepare")
  /\ UNCHANGED <<conn, deadBefore, slot, connectionVars>>

-----------------------------------------------------------------------------
(* AppServerConnection::launch.                                            *)

\* The executable, its version, the isolated home or the spawn is refused.
PrepareFails(r) ==
  /\ pc[r] = "prepare"
  /\ launcher' = Nobody
  /\ Goto(r, "done")
  /\ UNCHANGED <<conn, deadBefore, slot, connectionVars>>

Spawn(r) ==
  /\ pc[r] = "prepare"
  /\ Goto(r, "initialize")
  /\ conn' = [conn EXCEPT ![r] = r]
  /\ alive' = [alive EXCEPT ![r] = TRUE]
  /\ process' = [process EXCEPT ![r] = "running"]
  /\ reader' = [reader EXCEPT ![r] = "reading"]
  /\ UNCHANGED <<deadBefore, slot, launcher, failer, ready>>

\* The handshake has an answer and its notification is sent.
Initialize(r) ==
  /\ pc[r] = "initialize"
  /\ alive[r]
  /\ ready' = ready \cup {r}
  /\ Goto(r, "store")
  /\ UNCHANGED <<conn, deadBefore, slot, launcher, alive, process, reader, failer>>

\* The handshake is refused, or the connection has failed.
InitializeFails(r) ==
  /\ pc[r] = "initialize"
  /\ failer[r] # r
  /\ conn' = [conn EXCEPT ![r] = Nobody]
  /\ launcher' = Nobody
  /\ Goto(r, "done")
  /\ UNCHANGED <<deadBefore, slot, alive, reader, failer, ready>>
  /\ DropUnreferenced

\* Mutant: the new connection is shared before its handshake.
StoreEarly(r) ==
  /\ pc[r] \in {"initialize", "store"}
  /\ slot' = r
  /\ launcher' = Nobody
  /\ Goto(r, "use")
  /\ UNCHANGED <<conn, deadBefore, alive, reader, failer, ready>>
  /\ DropUnreferenced

\* The new connection replaces the old one, whether or not it is still alive.
Store(r) ==
  /\ pc[r] = "store"
  /\ slot' = r
  /\ launcher' = Nobody
  /\ Goto(r, "use")
  /\ UNCHANGED <<conn, deadBefore, alive, reader, failer, ready>>
  /\ DropUnreferenced

\* The session ends: its runtime and the task that unregisters it are gone.
Release(r) ==
  /\ pc[r] = "use"
  /\ failer[conn[r]] # r
  /\ conn' = [conn EXCEPT ![r] = Nobody]
  /\ Goto(r, "done")
  /\ UNCHANGED <<deadBefore, slot, launcher, alive, reader, failer, ready>>
  /\ DropUnreferenced

-----------------------------------------------------------------------------
(* fail, and the reader task.                                              *)

\* A request of this session times out or cannot be written.
SessionFails(r) ==
  /\ pc[r] \in {"initialize", "use"}
  /\ alive[conn[r]]
  /\ alive' = [alive EXCEPT ![conn[r]] = FALSE]
  /\ failer' = [failer EXCEPT ![conn[r]] = r]
  /\ UNCHANGED <<requestVars, slot, launcher, process, reader, ready>>

\* The reader has a message, or an error, and the connection still exists.
ReaderTakes(n) ==
  /\ reader[n] = "reading"
  /\ Referenced(n)
  /\ reader' = [reader EXCEPT ![n] = "holding"]
  /\ UNCHANGED <<requestVars, slot, launcher, alive, process, failer, ready>>

\* The reader finds its connection dropped.
ReaderStops(n) ==
  /\ reader[n] = "reading"
  /\ ~Referenced(n)
  /\ reader' = [reader EXCEPT ![n] = "stopped"]
  /\ UNCHANGED <<requestVars, slot, launcher, alive, process, failer, ready>>

\* A message was dispatched.  What the child wrote before it exited counts as
\* read before.
ReaderDispatches(n) ==
  /\ reader[n] = "holding"
  /\ failer[n] # Reader
  /\ process[n] # "gone"
  /\ reader' = [reader EXCEPT ![n] = "reading"]
  /\ UNCHANGED <<requestVars, slot, launcher, alive, failer, ready>>
  /\ DropUnreferenced

\* End of file, a frame that is refused, or an event of no thread.
ReaderFails(n) ==
  /\ reader[n] = "holding"
  /\ alive[n]
  /\ alive' = [alive EXCEPT ![n] = FALSE]
  /\ failer' = [failer EXCEPT ![n] = Reader]
  /\ UNCHANGED <<requestVars, slot, launcher, process, reader, ready>>

\* The same, but somebody else has failed the connection.
ReaderFailsLate(n) ==
  /\ reader[n] = "holding"
  /\ ~alive[n] /\ failer[n] # Reader
  /\ reader' = [reader EXCEPT ![n] = "stopped"]
  /\ UNCHANGED <<requestVars, slot, launcher, alive, failer, ready>>
  /\ DropUnreferenced

\* Mutant: `fail` leaves the child to the drop of the connection.
FailWithoutKill(n) ==
  /\ failer[n] # Nobody
  /\ failer' = [failer EXCEPT ![n] = Nobody]
  /\ reader' = IF failer[n] = Reader THEN [reader EXCEPT ![n] = "stopped"] ELSE reader
  /\ UNCHANGED <<requestVars, slot, launcher, alive, ready>>
  /\ DropUnreferenced

\* `fail` kills the child and is over; a reader that failed stops.
KillChild(n) ==
  /\ failer[n] # Nobody
  /\ failer' = [failer EXCEPT ![n] = Nobody]
  /\ reader' = IF failer[n] = Reader THEN [reader EXCEPT ![n] = "stopped"] ELSE reader
  /\ process' = [process EXCEPT ![n] = IF @ = "running" THEN "killed" ELSE @]
  /\ UNCHANGED <<requestVars, slot, launcher, alive, ready>>

\* The child dies, because it was killed or on its own.
ChildExits(n) ==
  /\ process[n] \in {"running", "killed"}
  /\ process' = [process EXCEPT ![n] = "gone"]
  /\ UNCHANGED <<requestVars, slot, launcher, alive, reader, failer, ready>>

-----------------------------------------------------------------------------
Init ==
  /\ pc = [r \in Requests |-> "idle"]
  /\ conn = [r \in Requests |-> Nobody]
  /\ slot = Nobody /\ launcher = Nobody
  /\ alive = [n \in Requests |-> FALSE]
  /\ process = [n \in Requests |-> "none"]
  /\ reader = [n \in Requests |-> "none"]
  /\ failer = [n \in Requests |-> Nobody]
  /\ ready = {}
  /\ deadBefore = [r \in Requests |-> {}]

LaunchStep(r) ==
  \/ Reuse(r) \/ BeginLaunch(r) \/ PrepareFails(r) \/ Spawn(r)
  \/ Initialize(r) \/ InitializeFails(r) \/ Store(r) \/ Release(r)

ReaderStep(n) ==
  ReaderTakes(n) \/ ReaderStops(n) \/ ReaderDispatches(n) \/ ReaderFails(n) \/ ReaderFailsLate(n)

\* Nothing more will happen.
Over ==
  /\ \A r \in Requests : pc[r] = "done"
  /\ UNCHANGED vars

Next ==
  \/ \E r \in Requests : Arrive(r) \/ LaunchStep(r) \/ SessionFails(r)
  \/ \E n \in Requests : ReaderStep(n) \/ KillChild(n) \/ ChildExits(n)
  \/ Over

Spec == Init /\ [][Next]_vars

\* Tasks are polled, a launch and a session end (RPC_TIMEOUT, and the sessions
\* of AppServerConnection), a killed child dies, and a reader is told of the end
\* of its child's output.
FairSpec ==
  /\ Spec
  /\ \A r \in Requests : WF_vars(LaunchStep(r))
  /\ \A n \in Requests :
       /\ WF_vars(ReaderStep(n))
       /\ WF_vars(KillChild(n))
       /\ WF_vars(process[n] = "killed" /\ ChildExits(n))

-----------------------------------------------------------------------------
(* Properties.                                                             *)

\* Every variable has its type (CodexRuntimeFactory, AppServerConnection); the
\* mutex of the slot is held by the one request that launches, and a request has
\* a connection from the spawn to the end of its session.
TypeOK ==
  /\ pc \in [Requests -> Labels]
  /\ conn \in [Requests -> Requests \cup {Nobody}]
  /\ slot \in Requests \cup {Nobody}
  /\ launcher \in Requests \cup {Nobody}
  /\ alive \in [Requests -> BOOLEAN]
  /\ process \in [Requests -> {"none", "running", "killed", "gone"}]
  /\ reader \in [Requests -> {"none", "reading", "holding", "stopped"}]
  /\ failer \in [Requests -> Requests \cup {Nobody, Reader}]
  /\ ready \subseteq Requests
  /\ deadBefore \in [Requests -> SUBSET Requests]
  /\ \A r \in Requests :
       /\ pc[r] \in {"prepare", "initialize", "store"} <=> launcher = r
       /\ pc[r] \in {"initialize", "store", "use"} <=> conn[r] # Nobody

\* At most one connection can be worked with: the old sessions that outlive a
\* replacement are all on connections that have failed.
OneConnectionAlive ==
  \A m, n \in Requests : alive[m] /\ Owned(m) /\ alive[n] /\ Owned(n) => m = n

\* A request that arrives after a failure is not given what had failed: the next
\* independent request starts a new process (REQ-014).
NextRequestIsFresh ==
  \A r \in Requests : pc[r] = "use" => conn[r] \notin deadBefore[r]

\* Nobody works on a connection whose handshake is not complete.
HandshakeComesFirst ==
  \A r \in Requests : pc[r] = "use" => conn[r] \in ready

\* The child of a connection that has failed or is dropped comes to its end, and
\* a child that ends by itself is noticed as long as anybody depends on it.
ProcessesAreReaped ==
  \A n \in Requests :
    /\ Launched(n) /\ (~alive[n] \/ ~Referenced(n)) ~> process[n] = "gone"
    /\ process[n] = "gone" ~> ~alive[n] \/ ~Owned(n)
=============================================================================
