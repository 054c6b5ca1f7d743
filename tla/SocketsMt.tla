----------------------------- MODULE SocketsMt -----------------------------
(***************************************************************************)
(* The layer that makes lwIP's sockets usable from several tasks           *)
(* (sockets_mt.c): each descriptor has a lock for receiving, one for       *)
(* sending and one for options, and close() wakes the tasks that are       *)
(* blocked in a call and waits for them before it deletes the connection.  *)
(*                                                                         *)
(* A task can be interrupted between any two steps of a call, also between *)
(* the test of a lock and the taking of it.  The functions of lwIP         *)
(* underneath (sockets.c) look up the connection of the descriptor when    *)
(* they start and use it until they return.  Data may arrive at any time,  *)
(* or never.                                                               *)
(*                                                                         *)
(* The layer has three gaps, which raced keeps track of: it holds the      *)
(* descriptors where one has been hit since they were opened.              *)
(***************************************************************************)
EXTENDS Naturals, FiniteSets, FiniteSetsExt

CONSTANTS
    Tasks,        \* tasks that use sockets
    OpsOf,        \* what each task does with them
    NumSockets,   \* NUM_SOCKETS
    MaxConns      \* bound: connections made

Ops == {"recv", "send", "bind", "ioctl", "select", "wselect", "socket", "close"}

ASSUME SocketsAssumption ==
    /\ OpsOf \in [Tasks -> SUBSET Ops]
    /\ NumSockets \in Nat \ {0} /\ MaxConns \in Nat \ {0}

Fds == 0 .. NumSockets - 1
Conns == 1 .. MaxConns
NoConn == 0

VARIABLES
    conn,      \* sockets[s].conn
    made,      \* connections made so far
    deleted,   \* connections that netconn_delete has freed
    opened, lock, select, state,  \* sockets_mt[s]
    null,      \* connections with a NULL message in recvmbox
    signalled, \* tasks whose op_completed_sem is signalled
    task,      \* each task's call: [pc, op, fd, c]
    raced      \* history: descriptors whose locks no longer tell who is in a call

mtvars == <<opened, lock, select, state>>
connvars == <<conn, made, deleted>>
vars == <<connvars, mtvars, null, signalled, task, raced>>

Resting == [pc |-> "idle", op |-> "none", fd |-> 0, c |-> NoConn]

Init ==
    /\ conn = [s \in Fds |-> NoConn] /\ made = 0 /\ deleted = {}
    /\ opened = [s \in Fds |-> FALSE] /\ lock = [s \in Fds |-> {}]
    /\ select = [s \in Fds |-> {}] /\ state = [s \in Fds |-> "SOCK"]
    /\ null = {} /\ signalled = {}
    /\ task = [t \in Tasks |-> Resting]
    /\ raced = {}

LockOf(op) ==
    CASE op \in {"recv", "select"} -> "RECV"
      [] op \in {"send", "bind", "wselect"} -> "SEND"
      [] OTHER -> "IOCTL"

Selects == {"select", "wselect"}
Uses == {"recv", "send", "bind", "ioctl"} \cup Selects

GoTo(t, pc) == task' = [task EXCEPT ![t].pc = pc]
Rest(t) == task' = [task EXCEPT ![t] = Resting]

---------------------------------------------------------------------------
(***************************************************************************)
(* A call that uses a socket.                                              *)
(***************************************************************************)

(* The descriptor is valid (tryget_socket).  lwip_select first notes that  *)
(* it is selecting.                                                        *)
Begin(t, op, s) ==
    /\ task[t].pc = "idle" /\ op \in OpsOf[t] \cap Uses
    /\ conn[s] # NoConn
    /\ task' = [task EXCEPT ![t] = [pc |-> "try", op |-> op, fd |-> s, c |-> NoConn]]
    /\ select' = [select EXCEPT ![s] = IF op \in Selects THEN @ \cup {LockOf(op)} ELSE @]
    /\ UNCHANGED <<connvars, opened, lock, state, null, signalled, raced>>

(* _sock_try_lock finds the descriptor open and the lock free.  While the  *)
(* lock is taken the task sleeps and tries again.                          *)
Try(t) ==
    LET s == task[t].fd IN
    /\ task[t].pc = "try"
    /\ opened[s] /\ LockOf(task[t].op) \notin lock[s]
    /\ GoTo(t, "take")
    /\ UNCHANGED <<connvars, mtvars, null, signalled, raced>>

(* Its protected section takes the lock and does not look again.  First    *)
(* gap: by now somebody else has the lock, or the descriptor is closed.    *)
(* Then SOCK_MT_ENTER_CHECK sets the state of a send.                      *)
Take(t) ==
    LET s == task[t].fd
        op == task[t].op IN
    /\ task[t].pc = "take"
    /\ lock' = [lock EXCEPT ![s] = @ \cup {LockOf(op)}]
    /\ state' = [state EXCEPT ![s] = IF op = "send" THEN "SEND" ELSE @]
    /\ raced' = IF opened[s] /\ LockOf(op) \notin lock[s] THEN raced ELSE raced \cup {s}
    /\ GoTo(t, "enter")
    /\ UNCHANGED <<connvars, opened, select, null, signalled>>

(* The socket has been closed: the call fails.  Second gap: on its way out *)
(* lwip_enter_mt_select releases the lock that it did not get, whoever has *)
(* it.                                                                     *)
TryClosed(t) ==
    LET s == task[t].fd
        l == {x \in {LockOf(task[t].op)} : task[t].op \in Selects} IN
    /\ task[t].pc = "try" /\ ~opened[s]
    /\ lock' = [lock EXCEPT ![s] = @ \ l]
    /\ raced' = IF l \cap lock[s] = {} THEN raced ELSE raced \cup {s}
    /\ select' = [select EXCEPT ![s] = @ \ l]
    /\ Rest(t)
    /\ UNCHANGED <<connvars, opened, state, null, signalled>>

(* The function underneath looks the connection up.                        *)
Enter(t) ==
    LET c == conn[task[t].fd] IN
    /\ task[t].pc = "enter"
    /\ task' = [task EXCEPT ![t].pc = IF c = NoConn THEN "leave" ELSE "in", ![t].c = c]
    /\ UNCHANGED <<connvars, mtvars, null, signalled, raced>>

(* It is done: data has come, has been taken, or the time of select() is   *)
(* over.                                                                   *)
Work(t) ==
    /\ task[t].pc = "in"
    /\ GoTo(t, "leave")
    /\ UNCHANGED <<connvars, mtvars, null, signalled, raced>>

(* What certainly ends it: a call that does not block, the messages of     *)
(* close(), and the time-out that the firmware gives to every select().    *)
Awake(t) ==
    \/ task[t].op \in {"bind", "ioctl"} \cup Selects
    \/ task[t].op = "recv" /\ task[t].c \in null
    \/ task[t].op = "send" /\ t \in signalled

(* SOCK_MT_EXIT_CHECK, lwip_exit_mt_select.                                *)
Leave(t) ==
    LET s == task[t].fd
        op == task[t].op IN
    /\ task[t].pc = "leave"
    /\ lock' = [lock EXCEPT ![s] = @ \ {LockOf(op)}]
    /\ select' = [select EXCEPT ![s] = IF op \in Selects THEN @ \ {LockOf(op)} ELSE @]
    /\ state' = [state EXCEPT ![s] = IF op = "send" THEN "SOCK" ELSE @]
    /\ signalled' = signalled \ {t}
    /\ Rest(t)
    /\ UNCHANGED <<connvars, opened, null, raced>>

---------------------------------------------------------------------------
(***************************************************************************)
(* socket() and close().                                                   *)
(***************************************************************************)

(* A slot that a select() is still waiting on is not given away.           *)
Free(s) ==
    /\ conn[s] = NoConn
    /\ \A t \in Tasks : ~(task[t].pc = "in" /\ task[t].op \in Selects /\ task[t].fd = s)

Socket(t) ==
    /\ task[t].pc = "idle" /\ "socket" \in OpsOf[t]
    /\ made < MaxConns /\ made' = made + 1
    /\ \E s \in Fds :
         /\ Free(s) /\ \A r \in Fds : r < s => ~Free(r)
         /\ conn' = [conn EXCEPT ![s] = made']
         /\ task' = [task EXCEPT ![t] = [pc |-> "init", op |-> "socket", fd |-> s, c |-> made']]
    /\ UNCHANGED <<deleted, mtvars, null, signalled, raced>>

(* A close() of descriptor s is under way, or a call that has locked it.   *)
Busy(s) ==
    \E t \in Tasks :
        /\ task[t].fd = s
        /\ \/ task[t].op = "close"
           \/ task[t].pc \in {"enter", "in", "leave"} /\ LockOf(task[t].op) # "IOCTL"

(* _sock_mt_init, _sock_set_open.  Third gap: the number is still in use   *)
(* for a connection that has gone, and all locks are reset.                *)
SocketReady(t) ==
    LET s == task[t].fd IN
    /\ task[t].pc = "init"
    /\ opened' = [opened EXCEPT ![s] = TRUE]
    /\ lock' = [lock EXCEPT ![s] = {}]
    /\ select' = [select EXCEPT ![s] = {}]
    /\ state' = [state EXCEPT ![s] = "SOCK"]
    /\ raced' = IF Busy(s) THEN raced \cup {s} ELSE raced \ {s}
    /\ Rest(t)
    /\ UNCHANGED <<connvars, null, signalled>>

(* The number may be a stale one: broker_is_connected closes my_socket     *)
(* without asking whether it is open.                                      *)
Close(t, s) ==
    /\ task[t].pc = "idle" /\ "close" \in OpsOf[t]
    /\ opened' = [opened EXCEPT ![s] = FALSE]
    /\ task' = [task EXCEPT ![t] = [pc |-> "SEND", op |-> "close", fd |-> s, c |-> NoConn]]
    /\ UNCHANGED <<connvars, lock, select, state, null, signalled, raced>>

(* The sender of a connection, blocked until its message is completed.     *)
Senders(c) == {u \in Tasks : task[u].pc = "in" /\ task[u].op = "send" /\ task[u].c = c}

(* Fault: only what is being sent is woken.                                *)
WakeSenders(s, l) ==
    /\ signalled' = signalled \cup Senders(conn[s])
    /\ UNCHANGED null

(* lwip_sync_mt wakes whoever has the lock.  A select() is sent an error   *)
(* event, which it only notices if it was given an exceptset; it goes on   *)
(* until its time is over.                                                 *)
WakeHolder(s, l) ==
    CASE select[s] # {} -> UNCHANGED <<null, signalled>>
      [] select[s] = {} /\ l = "SEND" ->
           /\ signalled' = signalled \cup (IF state[s] = "SEND" THEN Senders(conn[s]) ELSE {})
           /\ UNCHANGED null
      [] select[s] = {} /\ l = "RECV" ->
           /\ null' = null \cup {conn[s]}
           /\ UNCHANGED signalled

(* Fault: the locks are not waited for.                                    *)
SyncOnce(t) ==
    LET s == task[t].fd
        l == task[t].pc IN
    /\ task[t].op = "close" /\ l \in {"SEND", "RECV"}
    /\ GoTo(t, IF l = "SEND" THEN "RECV" ELSE "delete")
    /\ IF l \in lock[s] THEN WakeHolder(s, l) ELSE UNCHANGED <<null, signalled>>
    /\ UNCHANGED <<connvars, mtvars, raced>>

(* The loop of lwip_sync_mt over the locks for sending and receiving.      *)
Sync(t) ==
    LET s == task[t].fd
        l == task[t].pc IN
    /\ task[t].op = "close" /\ l \in {"SEND", "RECV"}
    /\ IF l \in lock[s]
         THEN WakeHolder(s, l) /\ UNCHANGED task
         ELSE /\ GoTo(t, IF l = "SEND" THEN "RECV" ELSE "delete")
              /\ UNCHANGED <<null, signalled>>
    /\ UNCHANGED <<connvars, mtvars, raced>>

(* lwip_close underneath: netconn_delete, then free_socket.  It fails if   *)
(* the descriptor is not valid any more.                                   *)
Delete(t) ==
    LET s == task[t].fd IN
    /\ task[t].pc = "delete"
    /\ IF conn[s] = NoConn
         THEN Rest(t) /\ UNCHANGED deleted
         ELSE GoTo(t, "free") /\ deleted' = deleted \cup {conn[s]}
    /\ UNCHANGED <<conn, made, mtvars, null, signalled, raced>>

FreeSocket(t) ==
    LET s == task[t].fd IN
    /\ task[t].pc = "free"
    /\ conn' = [conn EXCEPT ![s] = NoConn]
    /\ Rest(t)
    /\ UNCHANGED <<made, deleted, mtvars, null, signalled, raced>>

---------------------------------------------------------------------------
Use(t) == Try(t) \/ Take(t) \/ TryClosed(t) \/ Enter(t) \/ (Awake(t) /\ Work(t)) \/ Leave(t)
Manage(t) == SocketReady(t) \/ Sync(t) \/ Delete(t) \/ FreeSocket(t)

Next == \E t \in Tasks :
    \/ \E s \in Fds : Close(t, s) \/ \E op \in Uses : Begin(t, op, s)
    \/ Socket(t) \/ Work(t) \/ Use(t) \/ Manage(t)

Spec == Init /\ [][Next]_vars

(* Every task gets to run.  A task whose select() fails on the closed      *)
(* descriptor may call it again and again: it notes that it is selecting,  *)
(* for a moment, each time; the looks of lwip_sync_mt, a sleep apart, do   *)
(* not all fall into these moments.                                        *)
FairSpec == Spec /\ \A t \in Tasks : WF_vars(Use(t)) /\ SF_vars(Manage(t))

---------------------------------------------------------------------------
(***************************************************************************)
(* Properties.                                                             *)
(***************************************************************************)

(* A call that the locks protect: close() waits for those of sending and   *)
(* receiving only, and select() does not touch the connection while it     *)
(* waits.                                                                  *)
InCall(t) ==
    /\ task[t].pc = "in"
    /\ task[t].op \in {"recv", "send", "bind"} /\ task[t].fd \notin raced

(* "all function will be thread safe" (lwip/Kconfig:64), as far as it is   *)
(* true: unless one of the three gaps has been hit since the descriptor    *)
(* was opened, no call is on a connection that a close() has freed, and no *)
(* two tasks receive from, or send to, one connection at once; whatever    *)
(* the tasks do, and also when several close, or close a stale number.     *)
CallsProtected ==
    \A t \in Tasks : InCall(t) =>
        /\ task[t].c \notin deleted
        /\ \A u \in Tasks \ {t} :
              InCall(u) /\ task[u].c = task[t].c => LockOf(task[u].op) # LockOf(task[t].op)

(* close() returns, whatever the other tasks are blocked in, also before   *)
(* they get to the point where they can be woken, and no lock is left      *)
(* behind for it to wait for; again unless one of the gaps is hit.         *)
CloseReturns ==
    \A t \in Tasks :
        task[t].op = "close" ~> task[t].op # "close" \/ task[t].fd \in raced
============================================================================
