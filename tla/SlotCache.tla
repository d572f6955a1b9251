----------------------------- MODULE SlotCache -----------------------------
(***************************************************************************)
(* Redis: the slot pool of the group buy (stock and members), the pending  *)
(* marks of the outbox, the close tasks of the delay queue and the grab    *)
(* lock.  One operator per command or Lua script of internal/dao/redis;    *)
(* Redis runs each of them alone.  The scores of the two sorted sets are   *)
(* left out: an entry may turn out to be due whenever a scanner looks.     *)
(***************************************************************************)
EXTENDS GroupBuy

CONSTANTS Requests,   \* grab requests served at the same time
          NoRequest   \* the grab lock is free

ASSUME NoRequestAssumption == NoRequest \notin Requests

VARIABLES
  stock,       \* group_buy:{id}:stock
  members,     \* group_buy:{id}:members
  pending,     \* pending:grab, the users with a mark
  closeTasks,  \* delay:order:close, the users whose order has a close task
  lock,        \* group_buy:{id}:lock, the request whose token it holds
  released     \* history: the users whose slot INCR has put back

cache == <<stock, members, pending, closeTasks, lock, released>>

CacheTypeOK ==
  /\ stock \in Int
  /\ members \subseteq Users
  /\ pending \subseteq Users
  /\ closeTasks \subseteq Users
  /\ lock \in Requests \cup {NoRequest}
  /\ released \subseteq Users

\* The state InitGroupBuyStock leaves behind.
CacheInit ==
  /\ stock = MaxMembers
  /\ members = {}
  /\ pending = {}
  /\ closeTasks = {}
  /\ lock = NoRequest
  /\ released = {}

-----------------------------------------------------------------------------
\* SET NX EX 3.
AcquireLock(r) ==
  /\ lock = NoRequest
  /\ lock' = r
  /\ UNCHANGED <<stock, members, pending, closeTasks, released>>

\* Fault model: DEL without the comparison of the token.
ReleaseLockAnyToken(r) ==
  /\ lock' = NoRequest
  /\ UNCHANGED <<stock, members, pending, closeTasks, released>>

\* Compare the token, then DEL.
ReleaseLock(r) ==
  /\ lock' = IF lock = r THEN NoRequest ELSE lock
  /\ UNCHANGED <<stock, members, pending, closeTasks, released>>

\* Fault model: the key is set without EX.
LockNeverExpires == FALSE /\ UNCHANGED cache

\* Time: the three seconds of the lock are over.
LockExpires ==
  /\ lock # NoRequest
  /\ lock' = NoRequest
  /\ UNCHANGED <<stock, members, pending, closeTasks, released>>

\* Fault model: the script compares the stock it had before DECR.
GrabLuaResultOffByOne(u) ==
  IF u \in members THEN "DUPLICATE"
  ELSE IF stock < 0 THEN "SOLD_OUT" ELSE "OK"

\* Fault model: the script does not look the user up in members.
GrabLuaResultNoMemberCheck(u) ==
  IF stock - 1 < 0 THEN "SOLD_OUT" ELSE "OK"

\* What the grab script answers.  It compares the stock after DECR with 0.
GrabLuaResult(u) ==
  IF u \in members THEN "DUPLICATE"
  ELSE IF stock - 1 < 0 THEN "SOLD_OUT" ELSE "OK"

\* Fault model: the script registers no pending mark.
ExecGrabLuaNoMark(u) ==
  IF GrabLuaResult(u) = "OK"
  THEN /\ stock' = stock - 1
       /\ members' = members \cup {u}
       /\ UNCHANGED <<pending, closeTasks, lock, released>>
  ELSE UNCHANGED cache

\* The grab script: on any other answer the DECR, if any, is undone.
ExecGrabLua(u) ==
  IF GrabLuaResult(u) = "OK"
  THEN /\ stock' = stock - 1
       /\ members' = members \cup {u}
       /\ pending' = pending \cup {u}
       /\ UNCHANGED <<closeTasks, lock, released>>
  ELSE UNCHANGED cache

\* Fault model: the release also removes the user from members.
ReleaseGroupBuySlotWithSrem(u) ==
  /\ stock' = stock + 1
  /\ members' = members \ {u}
  /\ released' = released \cup {u}
  /\ UNCHANGED <<pending, closeTasks, lock>>

\* INCR stock, and no SREM: the user stays a member for good.
ReleaseGroupBuySlot(u) ==
  /\ stock' = stock + 1
  /\ released' = released \cup {u}
  /\ UNCHANGED <<members, pending, closeTasks, lock>>

RemoveGrabPending(u) ==
  /\ pending' = pending \ {u}
  /\ UNCHANGED <<stock, members, closeTasks, lock, released>>

\* ZADD: creates the mark again when it has been removed meanwhile.
RenewGrabPending(u) ==
  /\ pending' = pending \cup {u}
  /\ UNCHANGED <<stock, members, closeTasks, lock, released>>

\* ZADD with score now + 30 min; resets the due time of a task that exists.
EnqueueOrderClose(u) ==
  /\ closeTasks' = closeTasks \cup {u}
  /\ UNCHANGED <<stock, members, pending, lock, released>>

RemoveOrderClose(u) ==
  /\ closeTasks' = closeTasks \ {u}
  /\ UNCHANGED <<stock, members, pending, lock, released>>
=============================================================================
