-------------------------- MODULE SocketsMtProofs --------------------------
(***************************************************************************)
(* Proofs about SocketsMt, for any number of tasks, descriptors and        *)
(* connections and any calls of the tasks.  The inductive invariant says,  *)
(* of every descriptor where no gap has been hit, who holds its locks, and *)
(* that close() gets past its wait for a lock only when nobody does.       *)
(***************************************************************************)
EXTENDS SocketsMt, TLAPS

(***************************************************************************)
(* The inductive invariant.                                                *)
(***************************************************************************)
UsePcs == {"try", "take", "enter", "in", "leave"}
ClosePcs == {"SEND", "RECV", "delete", "free"}

(* Where a task can be, and in which call.                                 *)
CallOK(k) ==
    \/ k.pc = "idle" /\ k.op = "none"
    \/ k.pc \in UsePcs /\ k.op \in Uses
    \/ k.pc = "init" /\ k.op = "socket"
    \/ k.pc \in ClosePcs /\ k.op = "close"

Calls == {k \in [pc : {"idle", "init"} \cup UsePcs \cup ClosePcs,
                 op : Ops \cup {"none"}, fd : Fds, c : Nat] : CallOK(k)}

SocketsTypeOK ==
    /\ conn \in [Fds -> Nat] /\ made \in Nat
    /\ deleted \subseteq 1 .. made
    /\ opened \in [Fds -> BOOLEAN]
    /\ lock \in [Fds -> SUBSET {"RECV", "SEND", "IOCTL"}]
    /\ task \in [Tasks -> Calls]
    /\ raced \subseteq Fds

(* A task that has taken a lock that close() waits for.                    *)
Holds(t, s) ==
    /\ task[t].fd = s
    /\ task[t].pc \in {"enter", "in", "leave"} /\ LockOf(task[t].op) # "IOCTL"

Closing(t, s) == task[t].pc \in ClosePcs /\ task[t].fd = s

(* Connections are numbered as they are made; one that is freed is still   *)
(* in the table only until a close that freed it clears the entry.         *)
ConnsKept ==
    /\ \A s \in Fds : conn[s] <= made
    /\ \A s, r \in Fds : conn[s] = conn[r] /\ conn[s] # NoConn => s = r
    /\ \A s \in Fds : conn[s] \in deleted => \E t \in Tasks : Closing(t, s) /\ task[t].pc = "free"

(* A holder's lock is taken, it works on the connection in the table, and  *)
(* no close() is past the wait for this lock.                              *)
HolderKept(t, s) ==
    /\ LockOf(task[t].op) \in lock[s]
    /\ task[t].pc = "in" => task[t].c = conn[s] /\ conn[s] # NoConn
    /\ \A u \in Tasks : Closing(u, s) => \/ task[u].pc = "SEND"
                                         \/ task[u].pc = "RECV" /\ LockOf(task[t].op) = "RECV"

(* What the locks of a descriptor are for: it is not open while somebody   *)
(* closes it, and two holders hold different locks.                        *)
Guarded(s) ==
    /\ \A t \in Tasks : Closing(t, s) => ~opened[s]
    /\ \A t \in Tasks : Holds(t, s) => HolderKept(t, s)
    /\ \A t, u \in Tasks :
          Holds(t, s) /\ Holds(u, s) /\ LockOf(task[t].op) = LockOf(task[u].op) => t = u

LocksKept == SocketsTypeOK /\ ConnsKept /\ \A s \in Fds \ raced : Guarded(s)

---------------------------------------------------------------------------
(* The locks there are.                                                    *)
LEMMA LockNames == \A op : LockOf(op) \in {"RECV", "SEND", "IOCTL"}
BY DEF LockOf

(* A task at rest is in no call.                                           *)
LEMMA RestingCall ==
    ASSUME SocketsAssumption
    PROVE  Resting \in Calls /\ Resting.pc = "idle" /\ Resting.op = "none"
<1>1. 0 \in Fds
  BY DEF Fds, SocketsAssumption
<1> QED
  BY <1>1 DEF Resting, Calls, CallOK, NoConn

(* Nobody has a socket at first.                                           *)
LEMMA InitLocksKept ==
    ASSUME SocketsAssumption, Init
    PROVE  LocksKept
<1>1. \A t \in Tasks : task[t] \in Calls /\ task[t].pc = "idle"
  BY RestingCall DEF Init
<1>2. SocketsTypeOK
  BY RestingCall DEF Init, SocketsTypeOK, NoConn
<1>3. ConnsKept
  BY DEF Init, ConnsKept, NoConn
<1>4. \A s \in Fds : Guarded(s)
  BY <1>1 DEF Guarded, Holds, Closing, ClosePcs
<1> QED
  BY <1>2, <1>3, <1>4 DEF LocksKept

(* A step of one task changes that task's call.                            *)
LEMMA OneTask ==
    ASSUME SocketsTypeOK, NEW t \in Tasks, NEW new \in Calls, task' = [task EXCEPT ![t] = new]
    PROVE  /\ task' \in [Tasks -> Calls] /\ task'[t] = new
           /\ \A u \in Tasks : u # t => task'[u] = task[u]
BY DEF SocketsTypeOK

(* The table of connections is as it was, and the task was not about to    *)
(* clear an entry.                                                         *)
LEMMA ConnsStay ==
    ASSUME ConnsKept, NEW t \in Tasks, UNCHANGED <<conn, made, deleted>>,
           \A u \in Tasks : u # t => task'[u] = task[u], task[t].pc # "free"
    PROVE  ConnsKept'
BY DEF ConnsKept, Closing

(* A descriptor that a step leaves alone, and on which its task is neither *)
(* a holder nor closing afterwards, stays guarded.                         *)
LEMMA Elsewhere ==
    ASSUME NEW t \in Tasks, NEW r \in Fds, Guarded(r),
           \A u \in Tasks : u # t => task'[u] = task[u],
           ~Closing(t, r)', ~Holds(t, r)',
           conn'[r] = conn[r], lock'[r] = lock[r], opened'[r] = opened[r]
    PROVE  Guarded(r)'
<1>1. \A u \in Tasks : Closing(u, r)' => u # t /\ Closing(u, r)
  BY DEF Closing
<1>2. \A u \in Tasks : Holds(u, r)' => u # t /\ Holds(u, r)
  BY DEF Holds
<1>3. \A u \in Tasks : Holds(u, r)' => HolderKept(u, r)'
  BY <1>1, <1>2 DEF Guarded, HolderKept
<1> QED
  BY <1>1, <1>2, <1>3 DEF Guarded

(* A step after which its task neither holds a lock nor closes, and which  *)
(* leaves the tables of connections and open descriptors alone and the     *)
(* locks of every descriptor without a gap.                                *)
LEMMA Moves ==
    ASSUME LocksKept, NEW t \in Tasks, NEW new \in Calls, task' = [task EXCEPT ![t] = new],
           UNCHANGED <<conn, made, deleted, opened>>, task[t].pc # "free",
           lock' \in [Fds -> SUBSET {"RECV", "SEND", "IOCTL"}],
           raced \subseteq raced', raced' \subseteq Fds,
           \A r \in Fds \ raced' : lock'[r] = lock[r],
           new.pc \in {"idle", "init", "try", "take"}
    PROVE  LocksKept'
<1>1. /\ task' \in [Tasks -> Calls] /\ task'[t] = new
      /\ \A u \in Tasks : u # t => task'[u] = task[u]
  BY OneTask DEF LocksKept
<1>2. SocketsTypeOK'
  BY <1>1 DEF LocksKept, SocketsTypeOK
<1>3. ConnsKept'
  BY <1>1, ConnsStay DEF LocksKept
<1>4. ASSUME NEW r \in Fds \ raced'
      PROVE  Guarded(r)'
  <2>1. ~Closing(t, r)' /\ ~Holds(t, r)'
    BY <1>1 DEF Closing, Holds, ClosePcs
  <2>2. Guarded(r) /\ conn'[r] = conn[r] /\ lock'[r] = lock[r] /\ opened'[r] = opened[r]
    BY DEF LocksKept
  <2> QED
    BY <1>1, <2>1, <2>2, Elsewhere
<1> QED
  BY <1>2, <1>3, <1>4 DEF LocksKept

---------------------------------------------------------------------------
(***************************************************************************)
(* The steps of a call that uses a socket.                                 *)
(***************************************************************************)

(* A call begins.                                                          *)
LEMMA Begins ==
    ASSUME SocketsAssumption, LocksKept, NEW t \in Tasks, NEW s \in Fds, NEW op \in Uses,
           Begin(t, op, s)
    PROVE  LocksKept'
<1>1. PICK new : new = [pc |-> "try", op |-> op, fd |-> s, c |-> NoConn]
  OBVIOUS
<1>2. new \in Calls /\ new.pc = "try"
  BY <1>1 DEF Calls, CallOK, UsePcs, Uses, Selects, Ops, NoConn
<1>3. /\ task[t].pc = "idle" /\ task' = [task EXCEPT ![t] = new]
      /\ UNCHANGED <<conn, made, deleted, opened, lock, raced>>
  BY <1>1 DEF Begin, connvars
<1> QED
  BY <1>2, <1>3, Moves DEF LocksKept, SocketsTypeOK

(* A lock is found free.                                                   *)
LEMMA Tests ==
    ASSUME SocketsAssumption, LocksKept, NEW t \in Tasks, Try(t)
    PROVE  LocksKept'
<1>1. PICK new : new = [task[t] EXCEPT !.pc = "take"]
  OBVIOUS
<1>2. task[t].pc = "try" /\ task[t] \in Calls
  BY DEF Try, LocksKept, SocketsTypeOK
<1>3. new \in Calls /\ new.pc = "take"
  BY <1>1, <1>2 DEF Calls, CallOK, UsePcs, ClosePcs
<1>4. /\ task' = [task EXCEPT ![t] = new]
      /\ UNCHANGED <<conn, made, deleted, opened, lock, raced>>
  BY <1>1 DEF Try, GoTo, connvars, mtvars, LocksKept, SocketsTypeOK
<1> QED
  BY <1>2, <1>3, <1>4, Moves DEF LocksKept, SocketsTypeOK

(* The lock is taken.  If it is no gap the descriptor is open and the lock *)
(* still free: nobody is closing it, and nobody else holds the lock.       *)
LEMMA Takes ==
    ASSUME SocketsAssumption, LocksKept, NEW t \in Tasks, Take(t)
    PROVE  LocksKept'
<1>1. PICK new : new = [task[t] EXCEPT !.pc = "enter"]
  OBVIOUS
<1>2. PICK s \in Fds : s = task[t].fd
  BY DEF LocksKept, SocketsTypeOK, Calls
<1>3. task[t].pc = "take" /\ task[t] \in Calls
  BY DEF Take, LocksKept, SocketsTypeOK
<1>4. new \in Calls /\ new.pc = "enter" /\ new.fd = s /\ new.op = task[t].op
  BY <1>1, <1>2, <1>3 DEF Calls, CallOK, UsePcs, ClosePcs
<1>5. /\ task' = [task EXCEPT ![t] = new]
      /\ UNCHANGED <<conn, made, deleted, opened>>
      /\ lock' = [lock EXCEPT ![s] = @ \cup {LockOf(task[t].op)}]
      /\ raced' = IF opened[s] /\ LockOf(task[t].op) \notin lock[s] THEN raced ELSE raced \cup {s}
  BY <1>1, <1>2 DEF Take, GoTo, connvars, LocksKept, SocketsTypeOK
<1>6. /\ lock' \in [Fds -> SUBSET {"RECV", "SEND", "IOCTL"}]
      /\ lock'[s] = lock[s] \cup {LockOf(task[t].op)}
      /\ \A r \in Fds : r # s => lock'[r] = lock[r]
  BY <1>5, LockNames DEF LocksKept, SocketsTypeOK
<1>7. /\ task' \in [Tasks -> Calls] /\ task'[t] = new
      /\ \A u \in Tasks : u # t => task'[u] = task[u]
  BY <1>4, <1>5, OneTask DEF LocksKept
<1>8. SocketsTypeOK'
  BY <1>5, <1>6, <1>7 DEF LocksKept, SocketsTypeOK
<1>9. ConnsKept'
  BY <1>3, <1>5, <1>7, ConnsStay DEF LocksKept
<1>10. ASSUME NEW r \in Fds \ raced', r # s
       PROVE  Guarded(r)'
  <2>1. ~Closing(t, r)' /\ ~Holds(t, r)'
    BY <1>4, <1>7, <1>10 DEF Closing, Holds
  <2>2. Guarded(r)
    BY <1>5, <1>10 DEF LocksKept
  <2> QED
    BY <1>5, <1>6, <1>7, <1>10, <2>1, <2>2, Elsewhere
<1>11. ASSUME s \notin raced'
       PROVE  Guarded(s)'
  <2>1. Guarded(s) /\ opened[s] /\ LockOf(task[t].op) \notin lock[s]
    BY <1>5, <1>11 DEF LocksKept
  <2>2. \A u \in Tasks : ~Closing(u, s)'
    BY <1>4, <1>7, <2>1 DEF Guarded, Closing, ClosePcs
  <2>3. \A u \in Tasks : Holds(u, s)' /\ u # t =>
           Holds(u, s) /\ task'[u] = task[u] /\ LockOf(task[u].op) \in lock[s]
    BY <1>7, <2>1 DEF Guarded, Holds, HolderKept
  <2>4. \A u \in Tasks : Holds(u, s)' => HolderKept(u, s)'
    <3>1. HolderKept(t, s)'
      BY <1>4, <1>6, <1>7, <2>2 DEF HolderKept
    <3>2. \A u \in Tasks : Holds(u, s)' /\ u # t => HolderKept(u, s)'
      BY <1>5, <1>6, <2>1, <2>2, <2>3 DEF Guarded, HolderKept
    <3> QED
      BY <3>1, <3>2
  <2>5. \A u, v \in Tasks :
           Holds(u, s)' /\ Holds(v, s)' /\ LockOf(task'[u].op) = LockOf(task'[v].op) => u = v
    BY <1>4, <1>7, <2>1, <2>3 DEF Guarded
  <2> QED
    BY <2>2, <2>4, <2>5 DEF Guarded
<1> QED
  BY <1>8, <1>9, <1>10, <1>11 DEF LocksKept

(* The call fails because the socket is closed: a select() that releases a *)
(* lock somebody has is a gap.                                             *)
LEMMA Fails ==
    ASSUME SocketsAssumption, LocksKept, NEW t \in Tasks, TryClosed(t)
    PROVE  LocksKept'
<1>1. PICK s \in Fds : s = task[t].fd
  BY DEF LocksKept, SocketsTypeOK, Calls
<1>2. PICK l : l = {x \in {LockOf(task[t].op)} : task[t].op \in Selects}
  OBVIOUS
<1>3. /\ task[t].pc = "try" /\ task' = [task EXCEPT ![t] = Resting]
      /\ UNCHANGED <<conn, made, deleted, opened>>
      /\ lock' = [lock EXCEPT ![s] = @ \ l]
      /\ raced' = IF l \cap lock[s] = {} THEN raced ELSE raced \cup {s}
  BY <1>1, <1>2 DEF TryClosed, Rest, connvars
<1>4. lock' \in [Fds -> SUBSET {"RECV", "SEND", "IOCTL"}]
  BY <1>3 DEF LocksKept, SocketsTypeOK
<1>5. raced \subseteq raced' /\ raced' \subseteq Fds
  BY <1>3 DEF LocksKept, SocketsTypeOK
<1>6. \A r \in Fds \ raced' : lock'[r] = lock[r]
  <2>1. s \notin raced' => lock[s] \ l = lock[s]
    BY <1>3
  <2> QED
    BY <1>3, <2>1 DEF LocksKept, SocketsTypeOK
<1> QED
  BY <1>3, <1>4, <1>5, <1>6, RestingCall, Moves

(* A holder goes on in its call, on the connection in the table.           *)
LEMMA HolderGoesOn ==
    ASSUME LocksKept, NEW t \in Tasks, NEW new \in Calls, task' = [task EXCEPT ![t] = new],
           UNCHANGED <<conn, made, deleted, opened, lock, raced>>,
           task[t].pc \in {"enter", "in", "leave"}, new.pc \in {"enter", "in", "leave"},
           new.fd = task[t].fd, new.op = task[t].op,
           new.pc = "in" => new.c = conn[new.fd] /\ conn[new.fd] # NoConn
    PROVE  LocksKept'
<1>1. /\ task' \in [Tasks -> Calls] /\ task'[t] = new
      /\ \A u \in Tasks : u # t => task'[u] = task[u]
  BY OneTask DEF LocksKept
<1>2. SocketsTypeOK'
  BY <1>1 DEF LocksKept, SocketsTypeOK
<1>3. ConnsKept'
  BY <1>1, ConnsStay DEF LocksKept
<1>4. ASSUME NEW r \in Fds \ raced'
      PROVE  Guarded(r)'
  <2>1. Guarded(r)
    BY <1>4 DEF LocksKept
  <2>2. \A u \in Tasks : Closing(u, r)' => Closing(u, r) /\ task'[u] = task[u]
    BY <1>1 DEF Closing, ClosePcs
  <2>3. \A u \in Tasks : Holds(u, r)' => Holds(u, r) /\ task'[u].op = task[u].op
    BY <1>1 DEF Holds
  <2>4. \A u \in Tasks : Holds(u, r)' => HolderKept(u, r)'
    <3>1. Holds(t, r)' => HolderKept(t, r)'
      BY <1>1, <2>1, <2>2, <2>3 DEF Guarded, HolderKept, Holds
    <3>2. \A u \in Tasks : Holds(u, r)' /\ u # t => HolderKept(u, r)'
      BY <1>1, <2>1, <2>2, <2>3 DEF Guarded, HolderKept
    <3> QED
      BY <3>1, <3>2
  <2> QED
    BY <2>1, <2>2, <2>3, <2>4 DEF Guarded
<1> QED
  BY <1>2, <1>3, <1>4 DEF LocksKept

(* The connection is looked up.                                            *)
LEMMA Enters ==
    ASSUME SocketsAssumption, LocksKept, NEW t \in Tasks, Enter(t)
    PROVE  LocksKept'
<1>1. PICK s \in Fds : s = task[t].fd
  BY DEF LocksKept, SocketsTypeOK, Calls
<1>2. PICK new : new = [task[t] EXCEPT !.pc = IF conn[s] = NoConn THEN "leave" ELSE "in",
                                       !.c = conn[s]]
  OBVIOUS
<1>3. /\ task[t].pc = "enter" /\ task[t] \in Calls /\ conn[s] \in Nat
      /\ UNCHANGED <<conn, made, deleted, opened, lock, raced>>
  BY DEF Enter, connvars, mtvars, LocksKept, SocketsTypeOK
<1>4. /\ new \in Calls /\ new.pc = IF conn[s] = NoConn THEN "leave" ELSE "in"
      /\ new.fd = s /\ new.op = task[t].op /\ new.c = conn[s]
  BY <1>1, <1>2, <1>3 DEF Calls, CallOK, UsePcs, ClosePcs
<1>5. task' = [task EXCEPT ![t] = new]
  BY <1>1, <1>2 DEF Enter, LocksKept, SocketsTypeOK
<1> QED
  BY <1>1, <1>3, <1>4, <1>5, HolderGoesOn

(* The work is done.                                                       *)
LEMMA Works ==
    ASSUME SocketsAssumption, LocksKept, NEW t \in Tasks, Work(t)
    PROVE  LocksKept'
<1>1. PICK new : new = [task[t] EXCEPT !.pc = "leave"]
  OBVIOUS
<1>2. /\ task[t].pc = "in" /\ task[t] \in Calls
      /\ UNCHANGED <<conn, made, deleted, opened, lock, raced>>
  BY DEF Work, connvars, mtvars, LocksKept, SocketsTypeOK
<1>3. new \in Calls /\ new.pc = "leave" /\ new.fd = task[t].fd /\ new.op = task[t].op
  BY <1>1, <1>2 DEF Calls, CallOK, UsePcs, ClosePcs
<1>4. task' = [task EXCEPT ![t] = new]
  BY <1>1 DEF Work, GoTo, LocksKept, SocketsTypeOK
<1> QED
  BY <1>2, <1>3, <1>4, HolderGoesOn

(* The call returns its lock, which nobody else holds.                     *)
LEMMA Leaves ==
    ASSUME SocketsAssumption, LocksKept, NEW t \in Tasks, Leave(t)
    PROVE  LocksKept'
<1>1. PICK s \in Fds : s = task[t].fd
  BY DEF LocksKept, SocketsTypeOK, Calls
<1>2. /\ task[t].pc = "leave" /\ task' = [task EXCEPT ![t] = Resting]
      /\ UNCHANGED <<conn, made, deleted, opened, raced>>
      /\ lock' = [lock EXCEPT ![s] = @ \ {LockOf(task[t].op)}]
  BY <1>1 DEF Leave, Rest, connvars
<1>3. /\ lock' \in [Fds -> SUBSET {"RECV", "SEND", "IOCTL"}]
      /\ lock'[s] = lock[s] \ {LockOf(task[t].op)}
      /\ \A r \in Fds : r # s => lock'[r] = lock[r]
  BY <1>2 DEF LocksKept, SocketsTypeOK
<1>4. /\ task' \in [Tasks -> Calls] /\ task'[t] = Resting
      /\ \A u \in Tasks : u # t => task'[u] = task[u]
  BY <1>2, RestingCall, OneTask DEF LocksKept
<1>5. SocketsTypeOK'
  BY <1>2, <1>3, <1>4 DEF LocksKept, SocketsTypeOK
<1>6. ConnsKept'
  BY <1>2, <1>4, ConnsStay DEF LocksKept
<1>7. ASSUME NEW r \in Fds \ raced'
      PROVE  Guarded(r)'
  <2>1. Guarded(r)
    BY <1>2, <1>7 DEF LocksKept
  <2>2. \A u \in Tasks : Closing(u, r)' => Closing(u, r) /\ task'[u] = task[u]
    BY <1>4, RestingCall DEF Closing, ClosePcs
  <2>3. \A u \in Tasks : Holds(u, r)' => Holds(u, r) /\ u # t /\ task'[u] = task[u]
    BY <1>4, RestingCall DEF Holds
  <2>4. ASSUME NEW u \in Tasks, Holds(u, r)'
        PROVE  HolderKept(u, r)'
    <3>1. HolderKept(u, r) /\ Holds(u, r) /\ u # t /\ task'[u] = task[u]
      BY <2>1, <2>3, <2>4 DEF Guarded
    <3>2. r = s => LockOf(task[u].op) # LockOf(task[t].op)
      <4>1. CASE LockOf(task[t].op) = "IOCTL"
        BY <3>1, <4>1 DEF Holds
      <4>2. CASE LockOf(task[t].op) # "IOCTL"
        BY <1>1, <1>2, <2>1, <3>1, <4>2 DEF Guarded, Holds
      <4> QED
        BY <4>1, <4>2
    <3>3. LockOf(task[u].op) \in lock'[r]
      BY <1>3, <3>1, <3>2 DEF HolderKept
    <3> QED
      BY <1>2, <2>2, <3>1, <3>3 DEF HolderKept
  <2>5. \A u, v \in Tasks :
           Holds(u, r)' /\ Holds(v, r)' /\ LockOf(task'[u].op) = LockOf(task'[v].op) => u = v
    BY <2>1, <2>3 DEF Guarded
  <2> QED
    BY <1>2, <2>1, <2>2, <2>4, <2>5 DEF Guarded
<1> QED
  BY <1>5, <1>6, <1>7 DEF LocksKept

---------------------------------------------------------------------------
(***************************************************************************)
(* socket() and close().                                                   *)
(***************************************************************************)

(* A new connection in a free entry: no call on an unbroken descriptor is  *)
(* working on a connection there.                                          *)
LEMMA Makes ==
    ASSUME SocketsAssumption, LocksKept, NEW t \in Tasks, Socket(t)
    PROVE  LocksKept'
<1>1. PICK s \in Fds :
         /\ conn[s] = NoConn /\ conn' = [conn EXCEPT ![s] = made']
         /\ task' = [task EXCEPT ![t] = [pc |-> "init", op |-> "socket", fd |-> s, c |-> made']]
  BY DEF Socket, Free
<1>2. /\ task[t].pc = "idle" /\ made \in Nat /\ made' = made + 1
      /\ UNCHANGED <<deleted, opened, lock, raced>>
  BY DEF Socket, mtvars, LocksKept, SocketsTypeOK
<1>3. PICK new : new = [pc |-> "init", op |-> "socket", fd |-> s, c |-> made']
  OBVIOUS
<1>4. new \in Calls /\ new.pc = "init"
  BY <1>2, <1>3 DEF Calls, CallOK, Ops
<1>5. /\ task' \in [Tasks -> Calls] /\ task'[t] = new
      /\ \A u \in Tasks : u # t => task'[u] = task[u]
  BY <1>1, <1>3, <1>4, OneTask DEF LocksKept
<1>6. /\ conn' \in [Fds -> Nat] /\ conn'[s] = made + 1
      /\ \A r \in Fds : r # s => conn'[r] = conn[r]
  BY <1>1, <1>2 DEF LocksKept, SocketsTypeOK
<1>7. \A r \in Fds : conn[r] \in Nat /\ conn[r] <= made
  BY DEF LocksKept, SocketsTypeOK, ConnsKept
<1>8. deleted \subseteq 1 .. made
  BY DEF LocksKept, SocketsTypeOK
<1>9. SocketsTypeOK'
  <2>1. deleted' \subseteq 1 .. made'
    BY <1>2, <1>8
  <2> QED
    BY <1>2, <1>5, <1>6, <2>1 DEF LocksKept, SocketsTypeOK
<1>10. ConnsKept'
  <2>1. \A r \in Fds : conn'[r] <= made'
    BY <1>2, <1>6, <1>7
  <2>2. \A r, q \in Fds : conn'[r] = conn'[q] /\ conn'[r] # NoConn => r = q
    <3>1. \A r \in Fds : r # s => conn'[r] # conn'[s]
      BY <1>2, <1>6, <1>7
    <3> QED
      BY <1>6, <3>1 DEF LocksKept, ConnsKept
  <2>3. made + 1 \notin deleted
    BY <1>2, <1>8
  <2>4. \A r \in Fds : conn'[r] \in deleted' =>
           \E u \in Tasks : Closing(u, r)' /\ task'[u].pc = "free"
    <3>1. \A r \in Fds : conn'[r] \in deleted' => conn[r] \in deleted
      BY <1>2, <1>6, <2>3
    <3> QED
      BY <1>2, <1>5, <3>1 DEF LocksKept, ConnsKept, Closing
  <2> QED
    BY <2>1, <2>2, <2>4 DEF ConnsKept
<1>11. ASSUME NEW r \in Fds \ raced'
       PROVE  Guarded(r)'
  <2>1. Guarded(r)
    BY <1>2, <1>11 DEF LocksKept
  <2>2. /\ \A u \in Tasks : Closing(u, r)' => Closing(u, r) /\ task'[u] = task[u]
        /\ \A u \in Tasks : Holds(u, r)' => Holds(u, r) /\ task'[u] = task[u]
    BY <1>4, <1>5 DEF Closing, Holds, ClosePcs
  <2>3. ASSUME NEW u \in Tasks, Holds(u, r)'
        PROVE  HolderKept(u, r)'
    <3>1. HolderKept(u, r) /\ task'[u] = task[u]
      BY <2>1, <2>2, <2>3 DEF Guarded
    <3>2. task'[u].pc = "in" => r # s
      BY <1>1, <3>1 DEF HolderKept
    <3> QED
      BY <1>2, <1>6, <2>2, <3>1, <3>2 DEF HolderKept
  <2> QED
    BY <1>2, <2>1, <2>2, <2>3 DEF Guarded
<1> QED
  BY <1>9, <1>10, <1>11 DEF LocksKept

(* The descriptor is opened and its locks are reset: unless it is a gap    *)
(* nobody holds one and nobody is closing.                                 *)
LEMMA Opens ==
    ASSUME SocketsAssumption, LocksKept, NEW t \in Tasks, SocketReady(t)
    PROVE  LocksKept'
<1>1. PICK s \in Fds : s = task[t].fd
  BY DEF LocksKept, SocketsTypeOK, Calls
<1>2. /\ task[t].pc = "init" /\ task' = [task EXCEPT ![t] = Resting]
      /\ UNCHANGED <<conn, made, deleted>>
      /\ opened' = [opened EXCEPT ![s] = TRUE] /\ lock' = [lock EXCEPT ![s] = {}]
      /\ raced' = IF Busy(s) THEN raced \cup {s} ELSE raced \ {s}
  BY <1>1 DEF SocketReady, Rest, connvars
<1>3. /\ task' \in [Tasks -> Calls] /\ task'[t] = Resting
      /\ \A u \in Tasks : u # t => task'[u] = task[u]
  BY <1>2, RestingCall, OneTask DEF LocksKept
<1>4. /\ opened' \in [Fds -> BOOLEAN] /\ \A r \in Fds : r # s => opened'[r] = opened[r]
      /\ lock' \in [Fds -> SUBSET {"RECV", "SEND", "IOCTL"}]
      /\ \A r \in Fds : r # s => lock'[r] = lock[r]
  BY <1>2 DEF LocksKept, SocketsTypeOK
<1>5. raced' \subseteq Fds /\ \A r \in Fds : r # s => (r \in raced' <=> r \in raced)
  BY <1>2 DEF LocksKept, SocketsTypeOK
<1>6. SocketsTypeOK'
  BY <1>2, <1>3, <1>4, <1>5 DEF LocksKept, SocketsTypeOK
<1>7. ConnsKept'
  BY <1>2, <1>3, ConnsStay DEF LocksKept
<1>8. ASSUME NEW r \in Fds \ raced', r # s
      PROVE  Guarded(r)'
  <2>1. ~Closing(t, r)' /\ ~Holds(t, r)'
    BY <1>3, RestingCall DEF Closing, Holds, ClosePcs
  <2>2. Guarded(r)
    BY <1>5, <1>8 DEF LocksKept
  <2> QED
    BY <1>2, <1>3, <1>4, <1>8, <2>1, <2>2, Elsewhere
<1>9. ASSUME s \notin raced'
      PROVE  Guarded(s)'
  <2>1. ~Busy(s)
    BY <1>2, <1>9
  <2>2. \A u \in Tasks : ~Holds(u, s)
    BY <2>1 DEF Busy, Holds
  <2>3. \A u \in Tasks : ~Closing(u, s)
    BY <2>1 DEF Busy, Closing, LocksKept, SocketsTypeOK, Calls, CallOK, ClosePcs, UsePcs
  <2>4. \A u \in Tasks : ~Holds(u, s)' /\ ~Closing(u, s)'
    BY <1>3, <2>2, <2>3, RestingCall DEF Holds, Closing, ClosePcs
  <2> QED
    BY <2>4 DEF Guarded
<1> QED
  BY <1>6, <1>7, <1>8, <1>9 DEF LocksKept

(* close() starts: from here on no lock is given.                          *)
LEMMA Closes ==
    ASSUME SocketsAssumption, LocksKept, NEW t \in Tasks, NEW s \in Fds, Close(t, s)
    PROVE  LocksKept'
<1>1. PICK new : new = [pc |-> "SEND", op |-> "close", fd |-> s, c |-> NoConn]
  OBVIOUS
<1>2. /\ task[t].pc = "idle" /\ task' = [task EXCEPT ![t] = new]
      /\ opened' = [opened EXCEPT ![s] = FALSE]
      /\ UNCHANGED <<conn, made, deleted, lock, raced>>
  BY <1>1 DEF Close, connvars
<1>3. new \in Calls /\ new.pc = "SEND" /\ new.op = "close" /\ new.fd = s
  BY <1>1 DEF Calls, CallOK, Ops, ClosePcs, NoConn
<1>4. /\ task' \in [Tasks -> Calls] /\ task'[t] = new
      /\ \A u \in Tasks : u # t => task'[u] = task[u]
  BY <1>2, <1>3, OneTask DEF LocksKept
<1>5. /\ opened' \in [Fds -> BOOLEAN] /\ ~opened'[s]
      /\ \A r \in Fds : r # s => opened'[r] = opened[r]
  BY <1>2 DEF LocksKept, SocketsTypeOK
<1>6. SocketsTypeOK'
  BY <1>2, <1>4, <1>5 DEF LocksKept, SocketsTypeOK
<1>7. ConnsKept'
  BY <1>2, <1>4, ConnsStay DEF LocksKept
<1>8. ASSUME NEW r \in Fds \ raced'
      PROVE  Guarded(r)'
  <2>1. Guarded(r)
    BY <1>2, <1>8 DEF LocksKept
  <2>2. \A u \in Tasks : Closing(u, r)' =>
           \/ u = t /\ r = s /\ task'[u].pc = "SEND"
           \/ Closing(u, r) /\ task'[u] = task[u]
    BY <1>3, <1>4 DEF Closing
  <2>3. \A u \in Tasks : Holds(u, r)' => Holds(u, r) /\ task'[u] = task[u]
    BY <1>3, <1>4 DEF Holds
  <2>4. \A u \in Tasks : Closing(u, r)' => ~opened'[r]
    BY <1>5, <2>1, <2>2 DEF Guarded
  <2>5. \A u \in Tasks : Holds(u, r)' => HolderKept(u, r)'
    BY <1>2, <2>1, <2>2, <2>3 DEF Guarded, HolderKept
  <2> QED
    BY <2>1, <2>3, <2>4, <2>5 DEF Guarded
<1> QED
  BY <1>6, <1>7, <1>8 DEF LocksKept

(* close() finds a lock free and goes on: nobody holds it, and nobody will *)
(* take it.                                                                *)
LEMMA Waits ==
    ASSUME SocketsAssumption, LocksKept, NEW t \in Tasks, Sync(t)
    PROVE  LocksKept'
<1>1. PICK s \in Fds : s = task[t].fd
  BY DEF LocksKept, SocketsTypeOK, Calls
<1>2. /\ task[t].op = "close" /\ task[t].pc \in {"SEND", "RECV"} /\ task[t] \in Calls
      /\ UNCHANGED <<conn, made, deleted, opened, lock, raced>>
  BY DEF Sync, connvars, mtvars, LocksKept, SocketsTypeOK
<1>3. PICK pc : /\ \/ pc = task[t].pc
                   \/ pc = "RECV" /\ task[t].pc = "SEND" /\ "SEND" \notin lock[s]
                   \/ pc = "delete" /\ task[t].pc = "RECV" /\ "RECV" \notin lock[s]
                /\ task' = [task EXCEPT ![t] = [task[t] EXCEPT !.pc = pc]]
  <2>1. CASE task[t].pc \in lock[s]
    <3>1. task' = [task EXCEPT ![t] = [task[t] EXCEPT !.pc = task[t].pc]]
      BY <1>1, <2>1 DEF Sync, LocksKept, SocketsTypeOK, Calls
    <3> QED
      BY <3>1
  <2>2. CASE task[t].pc \notin lock[s]
    <3>1. task' = [task EXCEPT ![t] = [task[t] EXCEPT
                      !.pc = IF task[t].pc = "SEND" THEN "RECV" ELSE "delete"]]
      BY <1>1, <2>2 DEF Sync, GoTo, LocksKept, SocketsTypeOK
    <3> QED
      BY <1>2, <2>2, <3>1
  <2> QED
    BY <2>1, <2>2
<1>4. PICK call : call = [task[t] EXCEPT !.pc = pc]
  OBVIOUS
<1>5. call \in Calls /\ call.pc = pc /\ call.fd = s /\ call.op = "close"
  BY <1>1, <1>2, <1>3, <1>4 DEF Calls, CallOK, ClosePcs, UsePcs
<1>6. /\ task' \in [Tasks -> Calls] /\ task'[t] = call
      /\ \A u \in Tasks : u # t => task'[u] = task[u]
  BY <1>3, <1>4, <1>5, OneTask DEF LocksKept
<1>7. SocketsTypeOK'
  BY <1>2, <1>6 DEF LocksKept, SocketsTypeOK
<1>8. ConnsKept'
  BY <1>2, <1>6, ConnsStay DEF LocksKept
<1>9. ASSUME NEW r \in Fds \ raced'
       PROVE  Guarded(r)'
  <2>1. Guarded(r)
    BY <1>2, <1>9 DEF LocksKept
  <2>2. \A u \in Tasks : Closing(u, r)' =>
           Closing(u, r) /\ (u # t => task'[u] = task[u]) /\ (u = t => r = s /\ task'[u].pc = pc)
    BY <1>1, <1>2, <1>5, <1>6 DEF Closing, ClosePcs
  <2>3. \A u \in Tasks : Holds(u, r)' => Holds(u, r) /\ task'[u] = task[u]
    BY <1>2, <1>3, <1>5, <1>6 DEF Holds
  <2>4. ASSUME NEW u \in Tasks, Holds(u, r)'
        PROVE  HolderKept(u, r)'
    <3>1. HolderKept(u, r) /\ task'[u] = task[u] /\ LockOf(task[u].op) \in {"SEND", "RECV"}
      BY <2>1, <2>3, <2>4, LockNames DEF Guarded, Holds
    <3>2. Closing(t, r)' => \/ task'[t].pc = "SEND"
                            \/ task'[t].pc = "RECV" /\ LockOf(task[u].op) = "RECV"
      BY <1>2, <1>3, <2>2, <3>1 DEF HolderKept
    <3>3. \A v \in Tasks : Closing(v, r)' =>
             \/ task'[v].pc = "SEND"
             \/ task'[v].pc = "RECV" /\ LockOf(task[u].op) = "RECV"
      BY <2>2, <3>1, <3>2 DEF HolderKept
    <3> QED
      BY <1>2, <3>1, <3>3 DEF HolderKept
  <2> QED
    BY <1>2, <2>1, <2>2, <2>3, <2>4 DEF Guarded
<1> QED
  BY <1>7, <1>8, <1>9 DEF LocksKept

(* netconn_delete: the waits of close() are over, nobody holds a lock.     *)
LEMMA Deletes ==
    ASSUME SocketsAssumption, LocksKept, NEW t \in Tasks, Delete(t)
    PROVE  LocksKept'
<1>1. PICK s \in Fds : s = task[t].fd
  BY DEF LocksKept, SocketsTypeOK, Calls
<1>2. /\ task[t].pc = "delete" /\ task[t] \in Calls
      /\ UNCHANGED <<conn, made, opened, lock, raced>>
  BY DEF Delete, mtvars, LocksKept, SocketsTypeOK
<1>3. CASE conn[s] = NoConn
  <2>1. task' = [task EXCEPT ![t] = Resting] /\ deleted' = deleted
    BY <1>1, <1>3 DEF Delete, Rest
  <2> QED
    BY <1>2, <2>1, RestingCall, Moves DEF LocksKept, SocketsTypeOK
<1>4. CASE conn[s] # NoConn
  <2>1. PICK new : new = [task[t] EXCEPT !.pc = "free"]
    OBVIOUS
  <2>2. task' = [task EXCEPT ![t] = new] /\ deleted' = deleted \cup {conn[s]}
    BY <1>1, <1>4, <2>1 DEF Delete, GoTo, LocksKept, SocketsTypeOK
  <2>3. new \in Calls /\ new.pc = "free" /\ new.fd = s
    BY <1>1, <1>2, <2>1 DEF Calls, CallOK, ClosePcs, UsePcs
  <2>4. /\ task' \in [Tasks -> Calls] /\ task'[t] = new
        /\ \A u \in Tasks : u # t => task'[u] = task[u]
    BY <2>2, <2>3, OneTask DEF LocksKept
  <2>5. deleted' \subseteq 1 .. made'
    <3>1. conn[s] \in Nat /\ conn[s] <= made /\ made \in Nat /\ conn[s] # 0
      BY <1>4 DEF LocksKept, SocketsTypeOK, ConnsKept, NoConn
    <3>2. conn[s] \in 1 .. made
      BY <3>1
    <3> QED
      BY <1>2, <2>2, <3>2 DEF LocksKept, SocketsTypeOK
  <2>6. SocketsTypeOK'
    BY <1>2, <2>4, <2>5 DEF LocksKept, SocketsTypeOK
  <2>7. ConnsKept'
    <3>1. Closing(t, s)' /\ task'[t].pc = "free"
      BY <2>3, <2>4 DEF Closing, ClosePcs
    <3>2. \A r \in Fds : conn[r] = conn[s] => r = s
      BY <1>4 DEF LocksKept, ConnsKept
    <3>3. \A r \in Fds : conn[r] \in deleted =>
             \E u \in Tasks : Closing(u, r)' /\ task'[u].pc = "free"
      BY <1>2, <2>4 DEF LocksKept, ConnsKept, Closing
    <3>4. \A r \in Fds : conn'[r] \in deleted' =>
             \E u \in Tasks : Closing(u, r)' /\ task'[u].pc = "free"
      BY <1>2, <2>2, <3>1, <3>2, <3>3
    <3> QED
      BY <1>2, <3>4 DEF LocksKept, ConnsKept
  <2>8. ASSUME NEW r \in Fds \ raced', r # s
        PROVE  Guarded(r)'
    <3>1. ~Closing(t, r)' /\ ~Holds(t, r)'
      BY <2>3, <2>4, <2>8 DEF Closing, Holds
    <3>2. Guarded(r)
      BY <1>2, <2>8 DEF LocksKept
    <3> QED
      BY <1>2, <2>4, <3>1, <3>2, Elsewhere
  <2>9. ASSUME s \notin raced'
        PROVE  Guarded(s)'
    <3>1. Guarded(s) /\ Closing(t, s)
      BY <1>1, <1>2, <2>9 DEF LocksKept, Closing, ClosePcs
    <3>2. \A u \in Tasks : ~Holds(u, s)
      BY <1>2, <3>1 DEF Guarded, HolderKept
    <3>3. \A u \in Tasks : ~Holds(u, s)'
      BY <2>3, <2>4, <3>2 DEF Holds
    <3>4. ~opened'[s]
      BY <1>2, <3>1 DEF Guarded
    <3> QED
      BY <3>3, <3>4 DEF Guarded
  <2> QED
    BY <2>6, <2>7, <2>8, <2>9 DEF LocksKept
<1> QED
  BY <1>3, <1>4

(* free_socket clears the entry.                                           *)
LEMMA Frees ==
    ASSUME SocketsAssumption, LocksKept, NEW t \in Tasks, FreeSocket(t)
    PROVE  LocksKept'
<1>1. PICK s \in Fds : s = task[t].fd
  BY DEF LocksKept, SocketsTypeOK, Calls
<1>2. /\ task[t].pc = "free" /\ task' = [task EXCEPT ![t] = Resting]
      /\ UNCHANGED <<made, deleted, opened, lock, raced>>
      /\ conn' = [conn EXCEPT ![s] = NoConn]
  BY <1>1 DEF FreeSocket, Rest, mtvars
<1>3. /\ conn' \in [Fds -> Nat] /\ conn'[s] = 0
      /\ \A r \in Fds : r # s => conn'[r] = conn[r]
  BY <1>2 DEF LocksKept, SocketsTypeOK, NoConn
<1>4. /\ task' \in [Tasks -> Calls] /\ task'[t] = Resting
      /\ \A u \in Tasks : u # t => task'[u] = task[u]
  BY <1>2, RestingCall, OneTask DEF LocksKept
<1>5. SocketsTypeOK'
  BY <1>2, <1>3, <1>4 DEF LocksKept, SocketsTypeOK
<1>6. ConnsKept'
  <2>1. \A r \in Fds : conn[r] \in Nat /\ conn[r] <= made /\ made \in Nat
    BY DEF LocksKept, SocketsTypeOK, ConnsKept
  <2>2. \A r \in Fds : conn'[r] <= made'
    BY <1>2, <1>3, <2>1
  <2>3. 0 \notin deleted
    BY <2>1 DEF LocksKept, SocketsTypeOK
  <2>4. \A r \in Fds : conn'[r] \in deleted' => r # s /\ conn[r] \in deleted
    BY <1>2, <1>3, <2>3
  <2>5. \A r \in Fds : conn'[r] \in deleted' =>
           \E u \in Tasks : Closing(u, r)' /\ task'[u].pc = "free"
    BY <1>1, <1>4, <2>4 DEF LocksKept, ConnsKept, Closing
  <2>6. \A r, q \in Fds : conn'[r] = conn'[q] /\ conn'[r] # NoConn => r = q
    BY <1>3 DEF LocksKept, ConnsKept, NoConn
  <2> QED
    BY <2>2, <2>5, <2>6 DEF ConnsKept
<1>7. ASSUME NEW r \in Fds \ raced', r # s
      PROVE  Guarded(r)'
  <2>1. ~Closing(t, r)' /\ ~Holds(t, r)'
    BY <1>4, RestingCall DEF Closing, Holds, ClosePcs
  <2>2. Guarded(r)
    BY <1>2, <1>7 DEF LocksKept
  <2> QED
    BY <1>2, <1>3, <1>4, <1>7, <2>1, <2>2, Elsewhere
<1>8. ASSUME s \notin raced'
      PROVE  Guarded(s)'
  <2>1. Guarded(s) /\ Closing(t, s)
    BY <1>1, <1>2, <1>8 DEF LocksKept, Closing, ClosePcs
  <2>2. \A u \in Tasks : ~Holds(u, s)
    BY <1>2, <2>1 DEF Guarded, HolderKept
  <2>3. \A u \in Tasks : ~Holds(u, s)'
    BY <1>4, <2>2, RestingCall DEF Holds
  <2>4. ~opened'[s]
    BY <1>2, <2>1 DEF Guarded
  <2> QED
    BY <2>3, <2>4 DEF Guarded
<1> QED
  BY <1>5, <1>6, <1>7, <1>8 DEF LocksKept

---------------------------------------------------------------------------
(* Every step keeps the invariant.                                         *)
LEMMA NextLocksKept ==
    ASSUME SocketsAssumption, LocksKept, [Next]_vars
    PROVE  LocksKept'
<1>1. CASE UNCHANGED vars
  <2>1. UNCHANGED <<conn, made, deleted, opened, lock, task, raced>>
    BY <1>1 DEF vars, connvars, mtvars
  <2>2. SocketsTypeOK' /\ ConnsKept'
    BY <2>1 DEF LocksKept, SocketsTypeOK, ConnsKept, Closing
  <2>3. \A s \in Fds \ raced' : Guarded(s)'
    BY <2>1 DEF LocksKept, Guarded, HolderKept, Closing, Holds
  <2> QED
    BY <2>2, <2>3 DEF LocksKept
<1>2. ASSUME NEW t \in Tasks, NEW s \in Fds, Close(t, s)
      PROVE  LocksKept'
  BY <1>2, Closes
<1>3. ASSUME NEW t \in Tasks, NEW s \in Fds, NEW op \in Uses, Begin(t, op, s)
      PROVE  LocksKept'
  BY <1>3, Begins
<1>4. ASSUME NEW t \in Tasks, Socket(t) \/ Work(t)
      PROVE  LocksKept'
  BY <1>4, Makes, Works
<1>5. ASSUME NEW t \in Tasks, Use(t)
      PROVE  LocksKept'
  BY <1>5, Tests, Takes, Fails, Enters, Works, Leaves DEF Use
<1>6. ASSUME NEW t \in Tasks, Manage(t)
      PROVE  LocksKept'
  BY <1>6, Opens, Waits, Deletes, Frees DEF Manage
<1> QED
  BY <1>1, <1>2, <1>3, <1>4, <1>5, <1>6 DEF Next

(* The invariant gives the property: two calls on one connection are on    *)
(* one descriptor, and a holder's connection is not freed.                 *)
LEMMA LocksProtect ==
    ASSUME LocksKept
    PROVE  CallsProtected
<1>1. ASSUME NEW t \in Tasks, InCall(t)
      PROVE  /\ Holds(t, task[t].fd) /\ task[t].fd \in Fds \ raced
             /\ task[t].c = conn[task[t].fd] /\ conn[task[t].fd] # NoConn
             /\ task[t].c \notin deleted
  <2>1. Holds(t, task[t].fd) /\ task[t].fd \in Fds \ raced /\ task[t].pc = "in"
    BY <1>1 DEF InCall, Holds, LockOf, LocksKept, SocketsTypeOK, Calls
  <2>2. HolderKept(t, task[t].fd)
    BY <2>1 DEF LocksKept, Guarded
  <2>3. conn[task[t].fd] \notin deleted
    BY <2>1, <2>2 DEF LocksKept, ConnsKept, HolderKept
  <2> QED
    BY <2>1, <2>2, <2>3 DEF HolderKept
<1>2. ASSUME NEW t \in Tasks, NEW u \in Tasks, InCall(t), InCall(u), task[u].c = task[t].c,
             LockOf(task[u].op) = LockOf(task[t].op)
      PROVE  t = u
  <2>1. task[t].fd = task[u].fd
    BY <1>1, <1>2 DEF LocksKept, ConnsKept
  <2> QED
    BY <1>1, <1>2, <2>1 DEF LocksKept, Guarded
<1> QED
  BY <1>1, <1>2 DEF CallsProtected

(* With any number of tasks, descriptors and connections, and whatever the *)
(* tasks call, several closers and stale numbers included: on a descriptor *)
(* where none of the three gaps of sockets_mt.c has been hit since it was  *)
(* opened, no call is on a connection that close() has freed, and no two   *)
(* tasks receive from, or send to, one connection at once.                 *)
THEOREM CallsAlwaysProtected == Spec => []CallsProtected
<1>1. Init => LocksKept
  BY SocketsAssumption, InitLocksKept
<1>2. LocksKept /\ [Next]_vars => LocksKept'
  BY SocketsAssumption, NextLocksKept
<1>3. LocksKept => CallsProtected
  BY LocksProtect
<1> QED
  BY <1>1, <1>2, <1>3, PTL DEF Spec
============================================================================
