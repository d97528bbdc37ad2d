---------------------------- MODULE EventPoller ----------------------------
(***************************************************************************)
(* The handler tables of event_poller.cpp over epoll_poller.cpp or         *)
(* select_poller.cpp, as a record and the operations on it.  A descriptor  *)
(* is a number from 1 on, 0 stands for -1.                                 *)
(***************************************************************************)
EXTENDS Integers, FiniteSets, FiniteSetsExt

CONSTANTS
  MaxFds,     \* descriptors the process may open
  FdSetSize,  \* select() takes the descriptors below it
  None

ASSUME EventPollerAssumption == MaxFds \in Nat /\ FdSetSize \in Nat

Fds == 1 .. MaxFds
Ways == {"rd", "wr"}
Other(w) == IF w = "rd" THEN "wr" ELSE "rd"

\* watch is what the kernel was asked for: the interest list of the epoll
\* instance, or the two descriptor sets that are copied for select().
NewPoller(kind) ==
  [kind    |-> kind,                                    \* "epoll" or "select"
   handler |-> [w \in Ways |-> [fd \in Fds |-> None]],  \* mFdReadHandlers, mFdWriteHandlers
   watch   |-> [w \in Ways |-> {}],
   maxFd   |-> 0,                                       \* mMaxFd
   writes  |-> 0]                                       \* mFdWriteCount

Handled(p, w) == {fd \in Fds : p.handler[w][fd] # None}
Listed(p, fd) == \E w \in Ways : fd \in p.watch[w]

-----------------------------------------------------------------------------
\* EpollPoller::doRegister: MOD when the other table has the descriptor, which
\* the interest list must then have, ADD and DEL otherwise.
EpollTakes(p, w, fd, on) ==
  IF fd \in Handled(p, Other(w)) \/ ~on THEN Listed(p, fd) ELSE ~Listed(p, fd)
OnlyThis(p, w, fd, on) ==                 \* mutation: MOD forgets the other interest
  [p EXCEPT !.watch = [x \in Ways |-> IF x = w /\ on THEN @[x] \cup {fd} ELSE @[x] \ {fd}]]
EpollSet(p, w, fd, on) ==
  LET asked == {x \in Ways : IF x = w THEN on ELSE fd \in Handled(p, x)} IN
  [p EXCEPT !.watch = [x \in Ways |-> IF x \in asked THEN @[x] \cup {fd} ELSE @[x] \ {fd}]]

\* SelectPoller: mMaxFd is found again from the tables when its descriptor goes.
SelectTakes(p, w, fd, on) == fd < FdSetSize /\ (on <=> fd \notin p.watch[w])
RecalcMaxFD(p) == Max({0} \cup Handled(p, "rd") \cup Handled(p, "wr"))
SelectAdd(p, w, fd) ==
  [p EXCEPT !.watch[w] = @ \cup {fd}, !.maxFd = Max({@, fd}),
            !.writes = IF w = "wr" THEN @ + 1 ELSE @]
SelectRemove(p, w, fd) ==
  [p EXCEPT !.watch[w] = @ \ {fd}, !.maxFd = IF fd = @ THEN RecalcMaxFD(p) ELSE @,
            !.writes = IF w = "wr" THEN @ - 1 ELSE @]

Takes(p, w, fd, on) ==
  IF p.kind = "epoll" THEN EpollTakes(p, w, fd, on) ELSE SelectTakes(p, w, fd, on)
Set(p, w, fd, on) ==
  IF p.kind = "epoll" THEN EpollSet(p, w, fd, on)
  ELSE IF on THEN SelectAdd(p, w, fd) ELSE SelectRemove(p, w, fd)

\* registerForRead and registerForWrite, deregisterForRead and -Write.  Their
\* callers look at no result.
Register(p, w, fd, h) ==
  IF Takes(p, w, fd, TRUE)
  THEN [Set(p, w, fd, TRUE) EXCEPT !.handler[w][fd] = h]
  ELSE p
Deregister(p, w, fd) ==
  LET q == [p EXCEPT !.handler[w][fd] = None] IN
  IF Takes(q, w, fd, FALSE) THEN Set(q, w, fd, FALSE) ELSE q

\* close() takes a descriptor out of an interest list; a descriptor set keeps it.
Forget(p, fd) ==
  IF p.kind = "epoll" THEN [p EXCEPT !.watch = [w \in Ways |-> @[w] \ {fd}]] ELSE p

-----------------------------------------------------------------------------
\* What the tables say and what the kernel was asked for are the same.
Consistent(p) ==
  /\ \A w \in Ways : p.watch[w] = Handled(p, w)
  /\ p.kind = "select" => p.maxFd = RecalcMaxFD(p) /\ p.writes = Cardinality(p.watch["wr"])

=============================================================================
