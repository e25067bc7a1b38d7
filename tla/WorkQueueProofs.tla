-------------------------- MODULE WorkQueueProofs ---------------------------
(***************************************************************************)
(* Work is linked once, a flush covers what was queued before it and a     *)
(* destroyed work queue is empty, for any number of CPUs, work items and   *)
(* clients.                                                                *)
(***************************************************************************)
EXTENDS WorkQueue, QueueLemmas

\* A leaf is proved by Zenon unless it names SMT.
USE ZenonT(30)

Positions(c) == 1 .. Len(list[c])

\* The calls of the clients, and what a worker has in its hands.
Calls ==
    /\ \A c \in WqCpu : worker[c].cur = NoItem <=> worker[c].pc \in {"wait", "drain", "exit"}
    /\ \A t \in WqClient :
          /\ client[t].item = "none" <=> client[t].pc = "idle"
          /\ client[t].item \in WqClient => client[t].item = t
          /\ client[t].item \in WqWork => client[t].pc \in {"add", "post"}
          /\ client[t].pc # "idle" => client[t].cpu \in WqCpu
          /\ client[t].destroy => client[t].item = t
          /\ client[t].pc \in {"stop", "join"} => client[t].destroy

\* Nothing on CPU c is t's barrier or owed to t.
OffList(c, t) == \A i \in Positions(c) : list[c][i].item # t /\ t \notin list[c][i].owed
Clear(c, t) == OffList(c, t) /\ worker[c].cur.item # t /\ t \notin worker[c].cur.owed
NoBarrier(c, t) == worker[c].cur.item # t /\ \A i \in Positions(c) : list[c][i].item # t

\* t's barrier is on c's list behind all that is owed to t; in the worker's
\* hands with nothing owed left; or it has run.
OnList(c, t) ==
    \E i \in Positions(c) :
       /\ list[c][i].item = t /\ t \notin list[c][i].owed
       /\ \A j \in Positions(c) : (j # i => list[c][j].item # t) /\ (j > i => t \notin list[c][j].owed)
InHand(c, t) == worker[c].cur.item = t /\ t \notin worker[c].cur.owed /\ OffList(c, t)
Barrier(c, t) ==
    \/ OnList(c, t) /\ worker[c].cur.item # t /\ done[t] = 0
    \/ InHand(c, t) /\ done[t] = 0
    \/ Clear(c, t) /\ done[t] = 1

Flushing(t) == client[t].item = t /\ client[t].pc \in {"add", "post", "wait"}
FlushInv(t) ==
    IF Flushing(t)
    THEN LET k == client[t].cpu
         IN  /\ \A c \in WqCpu : (c < k => Clear(c, t)) /\ (c > k => NoBarrier(c, t))
             /\ IF client[t].pc = "add" THEN NoBarrier(k, t) /\ done[t] = 0 ELSE Barrier(k, t)
    ELSE done[t] = 0 /\ \A c \in WqCpu : Clear(c, t)

\* All that is on CPU c is t's barrier or owed to t.
Owed(c, t) ==
    /\ worker[c].cur = NoItem \/ worker[c].cur.item = t \/ t \in worker[c].cur.owed
    /\ \A i \in Positions(c) : list[c][i].item = t \/ t \in list[c][i].owed

\* A destroy is alone; it empties the lists and then stops the workers.
DestroyInv ==
    /\ \A t \in WqClient : client[t].destroy =>
          /\ \A u \in WqClient : u # t => client[u].pc = "idle"
          /\ client[t].pc \in {"add", "post", "wait"} => \A c \in WqCpu : Owed(c, t)
          /\ client[t].pc \in {"stop", "join"} =>
                \A c \in WqCpu : list[c] = <<>> /\ worker[c].cur = NoItem
          /\ client[t].pc = "join" =>
                \A c \in WqCpu : c < client[t].cpu => worker[c].pc = "exit"
    /\ \A c \in WqCpu :
          /\ stop[c] => freed \/ \E t \in WqClient : client[t].pc \in {"stop", "join"}
          /\ worker[c].pc = "exit" => stop[c]
          /\ exited[c] = 1 => worker[c].pc = "exit"
    /\ freed => /\ \A t \in WqClient : client[t].pc = "idle"
                /\ \A c \in WqCpu : worker[c].pc = "exit" /\ list[c] = <<>>

WqIInv ==
    /\ WqTypeOK /\ Calls /\ DestroyInv
    /\ \A w \in WqWork : LinkedOnce(w)
    /\ \A t \in WqClient : FlushInv(t)

-----------------------------------------------------------------------------
LEMMA WqNames ==
    /\ \A t \in WqClient : t # "none" /\ t \notin WqWork
    /\ \A w \in WqWork : w # "none" /\ w \notin WqClient
    /\ NoItem.item = "none" /\ NoItem.owed = {} /\ NoItem \notin Entry
    /\ 1 \in WqCpu /\ WqCpus \in WqCpu /\ WqCpus \in Nat
    /\ \A c \in WqCpu : c \in Nat /\ c <= WqCpus
BY WqAssumption, SMTT(30) DEF NoItem, Entry, Item, WqCpu

LEMMA EntryFacts ==
    ASSUME NEW e \in Entry
    PROVE  e.item \in Item /\ e.item # "none" /\ e.owed \subseteq WqClient /\ e # NoItem
BY WqNames DEF Entry, Item

\* What the types say of one CPU and of one client.
LEMMA CpuType ==
    ASSUME WqTypeOK, NEW c \in WqCpu
    PROVE  /\ list[c] \in Seq(Entry) /\ Len(list[c]) \in Nat
           /\ \A i \in Positions(c) : list[c][i] \in Entry
           /\ worker[c].cur \in Entry \cup {NoItem}
           /\ worker[c].pc \in {"wait", "drain", "clear", "run", "exit"}
           /\ worker[c] = [pc |-> worker[c].pc, cur |-> worker[c].cur]
           /\ work_sem[c] \in Nat /\ exited[c] \in 0 .. 1 /\ stop[c] \in BOOLEAN
<1>1. list[c] \in Seq(Entry)
    BY DEF WqTypeOK
<1>2. Len(list[c]) \in Nat /\ \A i \in 1 .. Len(list[c]) : list[c][i] \in Entry
    BY <1>1, SMTT(30)
<1>3. worker[c] \in [pc : {"wait", "drain", "clear", "run", "exit"}, cur : Entry \cup {NoItem}]
    BY DEF WqTypeOK
<1>4. QED
    BY <1>1, <1>2, <1>3 DEF WqTypeOK, Positions

CallType == [pc : {"idle", "add", "post", "wait", "stop", "join"}, cpu : 0 .. WqCpus,
             item : Item \cup {"none"}, destroy : BOOLEAN]

LEMMA ClientType ==
    ASSUME WqTypeOK, NEW t \in WqClient
    PROVE  /\ client[t] \in CallType /\ done[t] \in 0 .. 1
           /\ client[t].pc \in {"idle", "add", "post", "wait", "stop", "join"}
           /\ client[t].item \in Item \cup {"none"} /\ client[t].cpu \in 0 .. WqCpus
           /\ client[t].destroy \in BOOLEAN
BY DEF WqTypeOK, CallType

\* One client changes where it is in its call.
LEMMA CallMoves ==
    ASSUME WqTypeOK, NEW t \in WqClient, NEW pc \in {"idle", "add", "post", "wait", "stop", "join"},
           NEW k \in 0 .. WqCpus, NEW x \in Item \cup {"none"}, ClientTo(t, pc, k, x)
    PROVE  /\ client'[t].pc = pc /\ client'[t].cpu = k /\ client'[t].item = x
           /\ client'[t].destroy = client[t].destroy
           /\ \A u \in WqClient : u # t => client'[u] = client[u]
           /\ client' \in [WqClient -> CallType]
<1>1. client \in [WqClient -> CallType] /\ client[t] \in CallType
    BY DEF WqTypeOK, CallType
<1> DEFINE r == [client[t] EXCEPT !.pc = pc, !.cpu = k, !.item = x]
<1>2. client' = [client EXCEPT ![t] = r]
    BY DEF ClientTo
<1>3. /\ r.pc = pc /\ r.cpu = k /\ r.item = x /\ r.destroy = client[t].destroy
      /\ r \in CallType
    BY <1>1 DEF CallType
<1> HIDE DEF r
<1>4. QED
    BY <1>1, <1>2, <1>3

-----------------------------------------------------------------------------
(* Where an item is.                                                       *)

Listed(c, w) == \E i \in Positions(c) : list[c][i].item = w
Adding(t, w) == client[t].pc = "add" /\ client[t].item = w
Taken(c, w) == worker[c].pc = "clear" /\ worker[c].cur.item = w

\* LinkedOnce without the set of places.
InOnePlace(w) ==
    /\ pending[w] <=> \/ \E c \in WqCpu : Listed(c, w) \/ Taken(c, w)
                      \/ \E t \in WqClient : Adding(t, w)
    /\ \A c, d \in WqCpu : ~(Listed(c, w) /\ Taken(d, w))
    /\ \A c \in WqCpu, t \in WqClient : ~(Adding(t, w) /\ (Listed(c, w) \/ Taken(c, w)))
    /\ \A c, d \in WqCpu : c # d => ~(Listed(c, w) /\ Listed(d, w)) /\ ~(Taken(c, w) /\ Taken(d, w))
    /\ \A t, u \in WqClient : t # u => ~(Adding(t, w) /\ Adding(u, w))
    /\ \A c \in WqCpu : \A i, j \in Positions(c) :
          list[c][i].item = w /\ list[c][j].item = w => i = j

LEMMA OnePlace == \A w \in WqWork : LinkedOnce(w) <=> InOnePlace(w)
<1> SUFFICES ASSUME NEW w \in WqWork
             PROVE  LinkedOnce(w) <=> InOnePlace(w)
    OBVIOUS
<1>1. \A p : p \in Places(w) <=> \/ \E c \in WqCpu : Listed(c, w) /\ p = <<"list", c>>
                                 \/ \E t \in WqClient : Adding(t, w) /\ p = <<"add", t>>
                                 \/ \E c \in WqCpu : Taken(c, w) /\ p = <<"clear", c>>
    BY DEF Places, Listed, Adding, Taken, Positions
<1>2. /\ \A c \in WqCpu : Listed(c, w) => <<"list", c>> \in Places(w)
      /\ \A t \in WqClient : Adding(t, w) => <<"add", t>> \in Places(w)
      /\ \A c \in WqCpu : Taken(c, w) => <<"clear", c>> \in Places(w)
    BY <1>1
<1>3. \A x, y : /\ <<"list", x>> # <<"add", y>> /\ <<"list", x>> # <<"clear", y>>
                /\ <<"add", x>> # <<"clear", y>>
                /\ <<"list", x>> = <<"list", y>> => x = y
                /\ <<"add", x>> = <<"add", y>> => x = y
                /\ <<"clear", x>> = <<"clear", y>> => x = y
    OBVIOUS
<1>4. Places(w) # {} <=> \/ \E c \in WqCpu : Listed(c, w) \/ Taken(c, w)
                         \/ \E t \in WqClient : Adding(t, w)
    BY <1>1
<1>5. ASSUME \A p, q \in Places(w) : p = q
      PROVE  /\ \A c, d \in WqCpu : ~(Listed(c, w) /\ Taken(d, w))
             /\ \A c \in WqCpu, t \in WqClient : ~(Adding(t, w) /\ (Listed(c, w) \/ Taken(c, w)))
             /\ \A c, d \in WqCpu : c # d => ~(Listed(c, w) /\ Listed(d, w)) /\ ~(Taken(c, w) /\ Taken(d, w))
             /\ \A t, u \in WqClient : t # u => ~(Adding(t, w) /\ Adding(u, w))
    BY <1>2, <1>3, <1>5
<1>6. InOnePlace(w) => \A p, q \in Places(w) : p = q
    BY <1>1, SMTT(30) DEF InOnePlace
<1>7. QED
    BY <1>4, <1>5, <1>6 DEF LinkedOnce, InOnePlace, Positions

LEMMA OnePlaceNext == (\A w \in WqWork : LinkedOnce(w) <=> InOnePlace(w))'
BY OnePlace, PTL

\* A step that leaves item w where it is.
LEMMA PlaceKeep ==
    ASSUME NEW w \in WqWork, LinkedOnce(w), pending'[w] = pending[w],
           \A c \in WqCpu : (Listed(c, w)' <=> Listed(c, w)) /\ (Taken(c, w)' <=> Taken(c, w)),
           \A t \in WqClient : Adding(t, w)' <=> Adding(t, w),
           \A c \in WqCpu : \A i, j \in Positions(c)' :
              list'[c][i].item = w /\ list'[c][j].item = w => i = j
    PROVE  LinkedOnce(w)'
<1>1. InOnePlace(w)
    BY OnePlace
<1>2. InOnePlace(w)'
  <2>1. pending'[w] <=> \/ \E c \in WqCpu : Listed(c, w)' \/ Taken(c, w)'
                        \/ \E t \in WqClient : Adding(t, w)'
      BY <1>1 DEF InOnePlace
  <2>2. QED
      BY <1>1, <2>1 DEF InOnePlace
<1>3. QED
    BY <1>2, OnePlaceNext

\* The lists are not touched, and no worker is about to clear the item or was.
LEMMA PlaceSameLists ==
    ASSUME NEW w \in WqWork, LinkedOnce(w), pending'[w] = pending[w], list' = list,
           \A c \in WqCpu : Taken(c, w)' <=> Taken(c, w),
           \A t \in WqClient : Adding(t, w)' <=> Adding(t, w)
    PROVE  LinkedOnce(w)'
<1>1. \A c \in WqCpu : Listed(c, w)' <=> Listed(c, w)
    BY DEF Listed, Positions
<1>2. \A c \in WqCpu : \A i, j \in Positions(c)' :
         list'[c][i].item = w /\ list'[c][j].item = w => i = j
    BY SMTT(30) DEF LinkedOnce, Positions
<1>3. QED
    BY <1>1, <1>2, PlaceKeep

-----------------------------------------------------------------------------
(* What a flush waits for.                                                 *)

\* A client whose call does not move, or moves on behind its barrier, when no
\* CPU is given anything that belongs to it.
LEMMA FlushKeep ==
    ASSUME NEW t \in WqClient, FlushInv(t), Calls,
           Flushing(t)' <=> Flushing(t),
           Flushing(t) => client'[t].cpu = client[t].cpu /\ (client'[t].pc = "add" <=> client[t].pc = "add"),
           done'[t] = done[t] \/ \E c \in WqCpu : worker[c].cur.item = t,
           \A c \in WqCpu : /\ Clear(c, t) => Clear(c, t)'
                            /\ NoBarrier(c, t) => NoBarrier(c, t)',
           \A c \in WqCpu : Flushing(t) /\ client[t].cpu = c /\ Barrier(c, t) => Barrier(c, t)'
    PROVE  FlushInv(t)'
<1>1. CASE ~Flushing(t)
  <2>1. done[t] = 0 /\ \A c \in WqCpu : Clear(c, t)
      BY <1>1 DEF FlushInv
  <2>2. done'[t] = 0 /\ \A c \in WqCpu : Clear(c, t)'
      BY <2>1 DEF Clear
  <2>3. QED
      BY <1>1, <2>2 DEF FlushInv
<1>2. CASE Flushing(t)
  <2>1. PICK k \in WqCpu : k = client[t].cpu /\ k \in Nat
      BY <1>2, WqNames DEF Calls, Flushing
  <2>2. \A c \in WqCpu : (c < k => Clear(c, t)) /\ (c > k => NoBarrier(c, t))
      BY <1>2, <2>1 DEF FlushInv
  <2>3. \A c \in WqCpu : (c < k => Clear(c, t)') /\ (c > k => NoBarrier(c, t)')
      BY <2>2
  <2>4. client'[t].cpu = k
      BY <1>2, <2>1
  <2>5. CASE client[t].pc = "add"
    <3>1. NoBarrier(k, t) /\ done[t] = 0
        BY <1>2, <2>1, <2>5 DEF FlushInv
    <3>2. \A c \in WqCpu : worker[c].cur.item # t
        BY <2>1, <2>2, <3>1, WqNames, SMTT(30) DEF Clear, NoBarrier
    <3>3. done'[t] = 0 /\ NoBarrier(k, t)'
        BY <2>1, <3>1, <3>2
    <3>4. QED
        BY <1>2, <2>3, <2>4, <2>5, <3>3 DEF FlushInv
  <2>6. CASE client[t].pc # "add"
    <3>1. Barrier(k, t)'
        BY <1>2, <2>1, <2>6 DEF FlushInv
    <3>2. QED
        BY <1>2, <2>3, <2>4, <2>6, <3>1 DEF FlushInv
  <2>7. QED
      BY <2>5, <2>6
<1>3. QED
    BY <1>1, <1>2

\* Nothing changes on a CPU.
LEMMA CpuSame ==
    ASSUME NEW t \in WqClient, NEW c \in WqCpu, list'[c] = list[c],
           worker'[c].cur = worker[c].cur
    PROVE  /\ Clear(c, t)' <=> Clear(c, t)
           /\ NoBarrier(c, t)' <=> NoBarrier(c, t)
           /\ Owed(c, t)' <=> Owed(c, t)
           /\ done'[t] = done[t] => (Barrier(c, t)' <=> Barrier(c, t))
<1>1. Positions(c)' = Positions(c)
    BY DEF Positions
<1>2. OffList(c, t)' <=> OffList(c, t)
    BY <1>1 DEF OffList
<1>3. OnList(c, t)' <=> OnList(c, t)
    BY <1>1 DEF OnList
<1>4. QED
    BY <1>1, <1>2, <1>3 DEF Clear, NoBarrier, Owed, Barrier, InHand

\* The lists and the hands of the workers are as before, and so is the call.
LEMMA FlushSame ==
    ASSUME NEW t \in WqClient, FlushInv(t), Calls, list' = list,
           \A c \in WqCpu : worker'[c].cur = worker[c].cur, done'[t] = done[t],
           Flushing(t)' <=> Flushing(t),
           Flushing(t) => client'[t].cpu = client[t].cpu /\ (client'[t].pc = "add" <=> client[t].pc = "add")
    PROVE  FlushInv(t)'
<1>1. \A c \in WqCpu : /\ Clear(c, t) => Clear(c, t)'
                       /\ NoBarrier(c, t) => NoBarrier(c, t)'
                       /\ Barrier(c, t) => Barrier(c, t)'
    BY CpuSame
<1>2. Flushing(t) => client[t].cpu \in WqCpu
    BY DEF Calls, Flushing
<1>3. QED
    BY <1>1, <1>2, FlushKeep

LEMMA WqStutter == WqIInv /\ UNCHANGED wqVars => WqIInv'
<1> SUFFICES ASSUME WqIInv, UNCHANGED wqVars PROVE WqIInv'
    OBVIOUS
<1>1. UNCHANGED <<list, work_sem, pending, worker, stop, exited, client, done, freed>>
    BY DEF wqVars
<1>2. WqTypeOK' /\ Calls'
    BY <1>1 DEF WqIInv, WqTypeOK, Calls
<1>3. DestroyInv'
    BY <1>1, CpuSame, SMTT(30) DEF WqIInv, DestroyInv
<1>4. \A w \in WqWork : LinkedOnce(w)'
    BY <1>1, SMTT(30) DEF WqIInv, LinkedOnce, Places
<1>5. \A t \in WqClient : FlushInv(t)'
    BY <1>1, FlushSame DEF WqIInv, Flushing
<1>6. QED
    BY <1>2, <1>3, <1>4, <1>5 DEF WqIInv

-----------------------------------------------------------------------------
(* The workers.                                                            *)

WorkerType == [pc : {"wait", "drain", "clear", "run", "exit"}, cur : Entry \cup {NoItem}]

LEMMA WorkerMoves ==
    ASSUME WqTypeOK, NEW c \in WqCpu, NEW pc \in {"wait", "drain", "clear", "run", "exit"},
           NEW x \in Entry \cup {NoItem}, WorkerTo(c, pc, x)
    PROVE  /\ worker'[c].pc = pc /\ worker'[c].cur = x
           /\ \A d \in WqCpu : d # c => worker'[d] = worker[d]
           /\ worker' \in [WqCpu -> WorkerType]
<1>1. worker \in [WqCpu -> WorkerType]
    BY DEF WqTypeOK, WorkerType
<1>2. [pc |-> pc, cur |-> x] \in WorkerType
    BY DEF WorkerType
<1>3. QED
    BY <1>1, <1>2 DEF WorkerTo

\* A worker that has not left: a destroy sees less on its CPU, or the same.
LEMMA DestroyWorker ==
    ASSUME DestroyInv, NEW c \in WqCpu, worker[c].pc # "exit",
           \A d \in WqCpu : d # c => worker'[d] = worker[d] /\ list'[d] = list[d] /\ exited'[d] = exited[d],
           UNCHANGED <<client, stop, freed>>,
           \A t \in WqClient : Owed(c, t) => Owed(c, t)',
           list[c] = <<>> /\ worker[c].cur = NoItem => list'[c] = <<>> /\ worker'[c].cur = NoItem,
           worker'[c].pc = "exit" => stop[c], exited'[c] = 1 => worker'[c].pc = "exit"
    PROVE  DestroyInv'
<1>1. ~freed
    BY DEF DestroyInv
<1>2. \A d \in WqCpu, t \in WqClient : Owed(d, t) => Owed(d, t)'
    BY CpuSame
<1>3. \A d \in WqCpu : worker[d].pc = "exit" => worker'[d].pc = "exit"
    OBVIOUS
<1>4. \A d \in WqCpu : list[d] = <<>> /\ worker[d].cur = NoItem => list'[d] = <<>> /\ worker'[d].cur = NoItem
    OBVIOUS
<1>5. ASSUME NEW t \in WqClient, client'[t].destroy
      PROVE  /\ \A u \in WqClient : u # t => client'[u].pc = "idle"
             /\ client'[t].pc \in {"add", "post", "wait"} => \A d \in WqCpu : Owed(d, t)'
             /\ client'[t].pc \in {"stop", "join"} =>
                  \A d \in WqCpu : list'[d] = <<>> /\ worker'[d].cur = NoItem
             /\ client'[t].pc = "join" =>
                  \A d \in WqCpu : d < client'[t].cpu => worker'[d].pc = "exit"
    BY <1>2, <1>3, <1>4, <1>5, SMTT(30) DEF DestroyInv
<1>6. \A d \in WqCpu :
        /\ stop'[d] => freed' \/ \E t \in WqClient : client'[t].pc \in {"stop", "join"}
        /\ worker'[d].pc = "exit" => stop'[d]
        /\ exited'[d] = 1 => worker'[d].pc = "exit"
    BY SMTT(30) DEF DestroyInv
<1>7. ~freed'
    BY <1>1
<1>8. QED
    BY <1>5, <1>6, <1>7 DEF DestroyInv

LEMMA WorkerWaitStep ==
    ASSUME WqIInv, NEW c \in WqCpu, WorkerWait(c)
    PROVE  WqIInv'
<1>1. /\ WqTypeOK /\ Calls /\ DestroyInv
      /\ worker[c].pc = "wait" /\ worker[c].cur = NoItem /\ work_sem[c] \in Nat /\ work_sem[c] > 0
    BY CpuType DEF WqIInv, WorkerWait, Calls
<1>2. /\ work_sem' = [work_sem EXCEPT ![c] = work_sem[c] - 1] /\ WorkerTo(c, "drain", NoItem)
      /\ UNCHANGED <<list, pending, stop, exited, client, done, freed>>
    BY DEF WorkerWait
<1>3. /\ worker'[c].pc = "drain" /\ worker'[c].cur = NoItem
      /\ \A d \in WqCpu : d # c => worker'[d] = worker[d]
      /\ worker' \in [WqCpu -> WorkerType]
    BY <1>1, <1>2, WorkerMoves
<1>4. WqTypeOK'
  <2>1. work_sem' \in [WqCpu -> Nat]
      BY <1>1, <1>2, SMTT(30) DEF WqTypeOK
  <2>2. QED
      BY <1>1, <1>2, <1>3, <2>1 DEF WqTypeOK, WorkerType
<1>5. Calls'
    BY <1>1, <1>2, <1>3 DEF Calls
<1>6. \A d \in WqCpu : worker'[d].cur = worker[d].cur
    BY <1>1, <1>3
<1>7. DestroyInv'
  <2>1. \A t \in WqClient : Owed(c, t) => Owed(c, t)'
      BY <1>2, <1>6, CpuSame
  <2>2. exited[c] # 1
      BY <1>1 DEF DestroyInv
  <2>3. QED
      BY <1>1, <1>2, <1>3, <2>1, <2>2, DestroyWorker
<1>8. ASSUME NEW w \in WqWork PROVE LinkedOnce(w)'
  <2>1. \A d \in WqCpu : Taken(d, w)' <=> Taken(d, w)
      BY <1>1, <1>3 DEF Taken
  <2>2. \A t \in WqClient : Adding(t, w)' <=> Adding(t, w)
      BY <1>2 DEF Adding
  <2>3. QED
      BY <1>2, <2>1, <2>2, PlaceSameLists DEF WqIInv
<1>9. ASSUME NEW t \in WqClient PROVE FlushInv(t)'
    BY <1>1, <1>2, <1>6, FlushSame DEF WqIInv, Flushing
<1>10. QED
    BY <1>4, <1>5, <1>7, <1>8, <1>9 DEF WqIInv

\* The next item goes from the head of the list into the worker's hands.
LEMMA PopStep ==
    ASSUME WqIInv, NEW c \in WqCpu, WorkerPop(c), list[c] # <<>>
    PROVE  WqIInv'
<1> DEFINE n == Len(list[c])
           h == list[c][1]
<1>1. /\ WqTypeOK /\ Calls /\ DestroyInv
      /\ worker[c].pc = "drain" /\ worker[c].cur = NoItem
      /\ list[c] \in Seq(Entry) /\ n \in Nat /\ n > 0 /\ h \in Entry
      /\ Positions(c) = 1 .. n
      /\ \A i \in 1 .. n : list[c][i] \in Entry
  <2>1. WqTypeOK /\ Calls /\ DestroyInv /\ worker[c].pc = "drain"
      BY DEF WqIInv, WorkerPop
  <2>2. worker[c].cur = NoItem
      BY <2>1 DEF Calls
  <2>3. list[c] \in Seq(Entry) /\ n \in Nat /\ \A i \in 1 .. n : list[c][i] \in Entry
      BY <2>1, CpuType DEF Positions
  <2>4. n # 0
      BY <2>3, SMTT(30)
  <2>5. QED
      BY <2>1, <2>2, <2>3, <2>4, SMTT(30) DEF Positions
<1>2. /\ WorkerTo(c, "clear", h) /\ list' = [list EXCEPT ![c] = Tail(list[c])]
      /\ UNCHANGED <<exited, work_sem, pending, stop, client, done, freed>>
    BY <1>1, SMTT(30) DEF WorkerPop
<1>3. /\ worker'[c].pc = "clear" /\ worker'[c].cur = h
      /\ \A d \in WqCpu : d # c => worker'[d] = worker[d]
      /\ worker' \in [WqCpu -> WorkerType]
    BY <1>1, <1>2, WorkerMoves
<1>4. /\ Tail(list[c]) \in Seq(Entry) /\ Len(Tail(list[c])) = n - 1
      /\ \A i \in 1 .. n - 1 : Tail(list[c])[i] = list[c][i + 1]
    BY <1>1, SMTT(30)
<1>5. /\ list'[c] = Tail(list[c]) /\ \A d \in WqCpu : d # c => list'[d] = list[d]
      /\ list' \in [WqCpu -> Seq(Entry)]
    BY <1>1, <1>2, <1>4 DEF WqTypeOK
<1>6. /\ Positions(c)' = 1 .. n - 1
      /\ \A i \in 1 .. n - 1 : i + 1 \in 1 .. n /\ list'[c][i] = list[c][i + 1]
    BY <1>1, <1>4, <1>5, SMTT(30) DEF Positions
<1> HIDE DEF n, h
<1>7. h = list[c][1] /\ 1 \in 1 .. n
    BY <1>1, SMTT(30) DEF h
<1>8. WqTypeOK'
    BY <1>1, <1>2, <1>3, <1>5 DEF WqTypeOK, WorkerType
<1>9. Calls'
    BY <1>1, <1>2, <1>3, EntryFacts, SMTT(30) DEF Calls
<1>10. DestroyInv'
  <2>1. ASSUME NEW t \in WqClient, Owed(c, t) PROVE Owed(c, t)'
    <3>1. \A i \in 1 .. n : list[c][i].item = t \/ t \in list[c][i].owed
        BY <1>1, <2>1 DEF Owed
    <3>2. \A i \in 1 .. n - 1 : list'[c][i].item = t \/ t \in list'[c][i].owed
        BY <1>6, <3>1
    <3>3. QED
        BY <1>3, <1>6, <1>7, <3>1, <3>2, SMTT(30) DEF Owed
  <2>2. exited[c] # 1
      BY <1>1 DEF DestroyInv
  <2>3. QED
      BY <1>1, <1>2, <1>3, <1>5, <2>1, <2>2, DestroyWorker
<1>11. ASSUME NEW w \in WqWork PROVE LinkedOnce(w)'
  <2>1. LinkedOnce(w) /\ InOnePlace(w)
      BY OnePlace DEF WqIInv
  <2>2. \A i, j \in 1 .. n : list[c][i].item = w /\ list[c][j].item = w => i = j
      BY <1>1, <2>1 DEF InOnePlace
  <2>3. \A d \in WqCpu : d # c => (Listed(d, w)' <=> Listed(d, w)) /\ (Taken(d, w)' <=> Taken(d, w))
      BY <1>3, <1>5 DEF Listed, Taken, Positions
  <2>4. \A t \in WqClient : Adding(t, w)' <=> Adding(t, w)
      BY <1>2 DEF Adding
  <2>5. \A d \in WqCpu : \A i, j \in Positions(d)' :
           list'[d][i].item = w /\ list'[d][j].item = w => i = j
    <3> SUFFICES ASSUME NEW d \in WqCpu, NEW i \in Positions(d)', NEW j \in Positions(d)',
                        list'[d][i].item = w, list'[d][j].item = w
                 PROVE  i = j
        OBVIOUS
    <3>1. CASE d = c
      <4>1. i \in 1 .. n - 1 /\ j \in 1 .. n - 1
          BY <1>6, <3>1
      <4>2. i + 1 = j + 1
          BY <1>6, <2>2, <3>1, <4>1
      <4>3. QED
          BY <1>1, <4>1, <4>2, SMTT(30)
    <3>2. CASE d # c
        BY <1>5, <2>1, <3>2, SMTT(30) DEF InOnePlace, Positions
    <3>3. QED
        BY <3>1, <3>2
  <2>6. CASE h.item = w
    <3>1. Listed(c, w)
        BY <1>1, <1>7, <2>6 DEF Listed
    <3>2. ~Listed(c, w)'
      <4>1. ASSUME NEW i \in 1 .. n - 1, list'[c][i].item = w PROVE FALSE
          BY <1>1, <1>6, <1>7, <2>2, <2>6, <4>1, SMTT(30)
      <4>2. QED
          BY <1>6, <4>1 DEF Listed
    <3>3. Taken(c, w)' /\ ~Taken(c, w)
        BY <1>1, <1>3, <2>6 DEF Taken
    <3>4. /\ pending'[w] /\ \A d \in WqCpu : ~Listed(d, w)' /\ (Taken(d, w)' <=> d = c)
          /\ \A t \in WqClient : ~Adding(t, w)'
        BY <1>2, <2>1, <2>3, <2>4, <3>1, <3>2, <3>3 DEF InOnePlace
    <3>5. InOnePlace(w)'
        BY <2>5, <3>4 DEF InOnePlace
    <3>6. QED
        BY <3>5, OnePlaceNext
  <2>7. CASE h.item # w
    <3>1. Listed(c, w)' <=> Listed(c, w)
      <4>1. ASSUME NEW i \in 1 .. n, list[c][i].item = w
            PROVE  \E j \in 1 .. n - 1 : list'[c][j].item = w
        <5>1. i # 1 /\ i - 1 \in 1 .. n - 1 /\ list'[c][i - 1] = list[c][i]
            BY <1>1, <1>6, <1>7, <2>7, <4>1, SMTT(30)
        <5>2. QED
            BY <4>1, <5>1
      <4>2. QED
          BY <1>1, <1>6, <4>1 DEF Listed
    <3>2. Taken(c, w)' <=> Taken(c, w)
        BY <1>1, <1>3, <2>7 DEF Taken
    <3>3. QED
        BY <1>2, <2>1, <2>3, <2>4, <2>5, <3>1, <3>2, PlaceKeep
  <2>8. QED
      BY <2>6, <2>7
<1>12. ASSUME NEW t \in WqClient PROVE FlushInv(t)'
  <2>1. OffList(c, t) => OffList(c, t)' /\ h.item # t /\ t \notin h.owed
      BY <1>1, <1>6, <1>7 DEF OffList
  <2>2. Clear(c, t) => Clear(c, t)'
      BY <1>3, <2>1 DEF Clear
  <2>3. NoBarrier(c, t) => NoBarrier(c, t)'
    <3> SUFFICES ASSUME NoBarrier(c, t) PROVE NoBarrier(c, t)'
        OBVIOUS
    <3>1. \A i \in 1 .. n : list[c][i].item # t
        BY <1>1 DEF NoBarrier
    <3>2. \A i \in 1 .. n - 1 : list'[c][i].item # t
        BY <1>6, <3>1
    <3>3. QED
        BY <1>3, <1>6, <1>7, <3>1, <3>2 DEF NoBarrier
  <2>4. worker[c].cur.item # t
      BY <1>1, WqNames
  <2>5. Barrier(c, t) => Barrier(c, t)'
    <3>1. ASSUME OnList(c, t), done[t] = 0 PROVE Barrier(c, t)'
      <4>1. PICK i \in 1 .. n :
               /\ list[c][i].item = t /\ t \notin list[c][i].owed
               /\ \A j \in 1 .. n : (j # i => list[c][j].item # t) /\ (j > i => t \notin list[c][j].owed)
          BY <1>1, <3>1 DEF OnList
      <4>2. CASE i = 1
        <5>1. \A j \in 1 .. n - 1 : list'[c][j].item # t /\ t \notin list'[c][j].owed
          <6>1. \A j \in 1 .. n - 1 : j + 1 # i /\ j + 1 > i
              BY <1>1, <4>2, SMTT(30)
          <6>2. QED
              BY <1>6, <4>1, <6>1
        <5>2. InHand(c, t)'
            BY <1>3, <1>6, <1>7, <4>1, <4>2, <5>1 DEF InHand, OffList
        <5>3. QED
            BY <1>2, <3>1, <5>2 DEF Barrier
      <4>3. CASE i # 1
        <5>1. i - 1 \in 1 .. n - 1 /\ list'[c][i - 1] = list[c][i]
            BY <1>1, <1>6, <4>3, SMTT(30)
        <5>2. \A j \in 1 .. n - 1 : /\ j # i - 1 => list'[c][j].item # t
                                    /\ j > i - 1 => t \notin list'[c][j].owed
          <6>1. \A j \in 1 .. n - 1 : /\ j # i - 1 => j + 1 # i
                                      /\ j > i - 1 => j + 1 > i
              BY <1>1, SMTT(30)
          <6>2. QED
              BY <1>6, <4>1, <6>1
        <5>3. OnList(c, t)'
            BY <1>6, <4>1, <5>1, <5>2 DEF OnList
        <5>4. h.item # t
            BY <1>7, <4>1, <4>3
        <5>5. QED
            BY <1>2, <1>3, <3>1, <5>3, <5>4 DEF Barrier
      <4>4. QED
          BY <4>2, <4>3
    <3>2. Clear(c, t) /\ done[t] = 1 => Barrier(c, t)'
        BY <1>2, <2>2 DEF Barrier
    <3>3. QED
        BY <2>4, <3>1, <3>2 DEF Barrier, InHand
  <2>6. \A d \in WqCpu : d # c => /\ Clear(d, t) => Clear(d, t)'
                                  /\ NoBarrier(d, t) => NoBarrier(d, t)'
                                  /\ Barrier(d, t) => Barrier(d, t)'
      BY <1>2, <1>3, <1>5, CpuSame
  <2>7. QED
      BY <1>1, <1>2, <2>2, <2>3, <2>5, <2>6, FlushKeep DEF WqIInv, Flushing
<1>13. QED
    BY <1>8, <1>9, <1>10, <1>11, <1>12 DEF WqIInv

\* The list is empty: the worker waits again, or leaves when it is told to.
LEMMA PopNothingStep ==
    ASSUME WqIInv, NEW c \in WqCpu, WorkerPop(c), list[c] = <<>>
    PROVE  WqIInv'
<1>1. /\ WqTypeOK /\ Calls /\ DestroyInv /\ worker[c].pc = "drain" /\ worker[c].cur = NoItem
    BY DEF WqIInv, WorkerPop, Calls
<1>2. /\ UNCHANGED <<list, work_sem, pending, stop, client, done, freed>>
      /\ \/ stop[c] /\ WorkerTo(c, "exit", NoItem) /\ exited' = [exited EXCEPT ![c] = 1]
         \/ ~stop[c] /\ WorkerTo(c, "wait", NoItem) /\ exited' = exited
    BY DEF WorkerPop
<1>3. /\ worker'[c].pc \in {"wait", "exit"} /\ worker'[c].cur = NoItem
      /\ worker'[c].pc = "exit" <=> stop[c]
      /\ \A d \in WqCpu : d # c => worker'[d] = worker[d]
      /\ worker' \in [WqCpu -> WorkerType]
    BY <1>1, <1>2, WorkerMoves, SMTT(30)
<1>4. /\ exited' \in [WqCpu -> 0 .. 1] /\ \A d \in WqCpu : d # c => exited'[d] = exited[d]
      /\ exited'[c] = 1 => stop[c]
  <2>1. exited[c] # 1 /\ exited \in [WqCpu -> 0 .. 1]
      BY <1>1 DEF DestroyInv, WqTypeOK
  <2>2. QED
      BY <1>2, <2>1, SMTT(30)
<1>5. WqTypeOK'
    BY <1>1, <1>2, <1>3, <1>4 DEF WqTypeOK, WorkerType
<1>6. Calls'
    BY <1>1, <1>2, <1>3, SMTT(30) DEF Calls
<1>7. \A d \in WqCpu : worker'[d].cur = worker[d].cur
    BY <1>1, <1>3
<1>8. DestroyInv'
  <2>1. \A t \in WqClient : Owed(c, t) => Owed(c, t)'
      BY <1>2, <1>7, CpuSame
  <2>2. QED
      BY <1>1, <1>2, <1>3, <1>4, <2>1, DestroyWorker
<1>9. ASSUME NEW w \in WqWork PROVE LinkedOnce(w)'
  <2>1. \A d \in WqCpu : Taken(d, w)' <=> Taken(d, w)
      BY <1>1, <1>3 DEF Taken
  <2>2. \A t \in WqClient : Adding(t, w)' <=> Adding(t, w)
      BY <1>2 DEF Adding
  <2>3. QED
      BY <1>2, <2>1, <2>2, PlaceSameLists DEF WqIInv
<1>10. ASSUME NEW t \in WqClient PROVE FlushInv(t)'
    BY <1>1, <1>2, <1>7, FlushSame DEF WqIInv, Flushing
<1>11. QED
    BY <1>5, <1>6, <1>8, <1>9, <1>10 DEF WqIInv

\* The flag is cleared when the item is on no list any more.
LEMMA ClearStep ==
    ASSUME WqIInv, NEW c \in WqCpu, WorkerClear(c)
    PROVE  WqIInv'
<1> DEFINE x == worker[c].cur
<1>1. /\ WqTypeOK /\ Calls /\ DestroyInv /\ worker[c].pc = "clear" /\ x \in Entry /\ x # NoItem
    BY CpuType DEF WqIInv, WorkerClear, Calls
<1>2. /\ pending' = [w \in WqWork |-> pending[w] /\ w # x.item] /\ WorkerTo(c, "run", x)
      /\ UNCHANGED <<list, work_sem, stop, exited, client, done, freed>>
    BY DEF WorkerClear
<1>3. /\ worker'[c].pc = "run" /\ worker'[c].cur = x
      /\ \A d \in WqCpu : d # c => worker'[d] = worker[d]
      /\ worker' \in [WqCpu -> WorkerType]
    BY <1>1, <1>2, WorkerMoves
<1>4. WqTypeOK'
  <2>1. pending' \in [WqWork -> BOOLEAN]
      BY <1>2
  <2>2. QED
      BY <1>1, <1>2, <1>3, <2>1 DEF WqTypeOK, WorkerType
<1>5. Calls'
    BY <1>1, <1>2, <1>3, SMTT(30) DEF Calls
<1>6. \A d \in WqCpu : worker'[d].cur = worker[d].cur
    BY <1>1, <1>3
<1>7. DestroyInv'
  <2>1. \A t \in WqClient : Owed(c, t) => Owed(c, t)'
      BY <1>2, <1>6, CpuSame
  <2>2. exited[c] # 1
      BY <1>1 DEF DestroyInv
  <2>3. QED
      BY <1>1, <1>2, <1>3, <2>1, <2>2, DestroyWorker
<1>8. ASSUME NEW w \in WqWork PROVE LinkedOnce(w)'
  <2>1. LinkedOnce(w) /\ InOnePlace(w)
      BY OnePlace DEF WqIInv
  <2>2. \A t \in WqClient : Adding(t, w)' <=> Adding(t, w)
      BY <1>2 DEF Adding
  <2>3. CASE x.item = w
    <3>1. Taken(c, w) /\ ~pending'[w]
        BY <1>1, <1>2, <2>3 DEF Taken
    <3>2. /\ \A d \in WqCpu : ~Listed(d, w) /\ (d # c => ~Taken(d, w))
          /\ \A t \in WqClient : ~Adding(t, w)
        BY <2>1, <3>1 DEF InOnePlace
    <3>3. \A d \in WqCpu : ~Listed(d, w)'
        BY <1>2, <3>2 DEF Listed, Positions
    <3>4. \A d \in WqCpu : ~Taken(d, w)'
        BY <1>3, <3>2 DEF Taken
    <3>5. \A d \in WqCpu : \A i, j \in Positions(d)' :
             list'[d][i].item = w /\ list'[d][j].item = w => i = j
        BY <3>3 DEF Listed
    <3>6. InOnePlace(w)'
        BY <2>2, <3>1, <3>2, <3>3, <3>4, <3>5 DEF InOnePlace
    <3>7. QED
        BY <3>6, OnePlaceNext
  <2>4. CASE x.item # w
    <3>1. \A d \in WqCpu : Taken(d, w)' <=> Taken(d, w)
        BY <1>1, <1>3, <2>4 DEF Taken
    <3>2. pending'[w] = pending[w]
        BY <1>1, <1>2, <2>4 DEF WqTypeOK
    <3>3. QED
        BY <1>2, <2>1, <2>2, <3>1, <3>2, PlaceSameLists
  <2>5. QED
      BY <2>3, <2>4
<1>9. ASSUME NEW t \in WqClient PROVE FlushInv(t)'
    BY <1>1, <1>2, <1>6, FlushSame DEF WqIInv, Flushing
<1>10. QED
    BY <1>4, <1>5, <1>7, <1>8, <1>9 DEF WqIInv

\* The item has run; when it was a barrier its flush may go on.
LEMMA RunStep ==
    ASSUME WqIInv, NEW c \in WqCpu, WorkerRun(c)
    PROVE  WqIInv'
<1> DEFINE x == worker[c].cur
<1>1. /\ WqTypeOK /\ Calls /\ DestroyInv /\ worker[c].pc = "run" /\ x \in Entry /\ x # NoItem
    BY CpuType DEF WqIInv, WorkerRun, Calls
<1>2. /\ done' = [t \in WqClient |-> IF t = x.item THEN 1 ELSE done[t]] /\ WorkerTo(c, "drain", NoItem)
      /\ UNCHANGED <<list, work_sem, pending, stop, exited, client, freed>>
    BY DEF WorkerRun
<1>3. /\ worker'[c].pc = "drain" /\ worker'[c].cur = NoItem
      /\ \A d \in WqCpu : d # c => worker'[d] = worker[d]
      /\ worker' \in [WqCpu -> WorkerType]
    BY <1>1, <1>2, WorkerMoves
<1>4. WqTypeOK'
  <2>1. done' \in [WqClient -> 0 .. 1]
      BY <1>1, <1>2, SMTT(30) DEF WqTypeOK
  <2>2. QED
      BY <1>1, <1>2, <1>3, <2>1 DEF WqTypeOK, WorkerType
<1>5. Calls'
    BY <1>1, <1>2, <1>3, SMTT(30) DEF Calls
<1>6. DestroyInv'
  <2>1. \A t \in WqClient : Owed(c, t) => Owed(c, t)'
      BY <1>2, <1>3 DEF Owed, Positions
  <2>2. exited[c] # 1
      BY <1>1 DEF DestroyInv
  <2>3. QED
      BY <1>1, <1>2, <1>3, <2>1, <2>2, DestroyWorker
<1>7. ASSUME NEW w \in WqWork PROVE LinkedOnce(w)'
  <2>1. \A d \in WqCpu : Taken(d, w)' <=> Taken(d, w)
      BY <1>1, <1>3 DEF Taken
  <2>2. \A t \in WqClient : Adding(t, w)' <=> Adding(t, w)
      BY <1>2 DEF Adding
  <2>3. QED
      BY <1>2, <2>1, <2>2, PlaceSameLists DEF WqIInv
<1>8. ASSUME NEW t \in WqClient PROVE FlushInv(t)'
  <2>1. OffList(c, t)' <=> OffList(c, t)
      BY <1>2 DEF OffList, Positions
  <2>2. worker'[c].cur.item # t /\ t \notin worker'[c].cur.owed
      BY <1>3, WqNames
  <2>3. /\ Clear(c, t) => Clear(c, t)'
        /\ NoBarrier(c, t) => NoBarrier(c, t)'
      BY <1>2, <2>1, <2>2 DEF Clear, NoBarrier, Positions
  <2>4. CASE x.item = t
    <3>1. done'[t] = 1
        BY <1>2, <2>4
    <3>2. Barrier(c, t) => Barrier(c, t)'
        BY <2>1, <2>2, <2>4, <3>1 DEF Barrier, InHand, Clear
    <3>3. \A d \in WqCpu : d # c => /\ Clear(d, t) => Clear(d, t)'
                                    /\ NoBarrier(d, t) => NoBarrier(d, t)'
        BY <1>2, <1>3, CpuSame
    <3>4. Flushing(t) => client[t].cpu = c
      <4> SUFFICES ASSUME Flushing(t) PROVE client[t].cpu = c
          OBVIOUS
      <4>1. ~Clear(c, t) /\ ~NoBarrier(c, t)
          BY <2>4 DEF Clear, NoBarrier
      <4>2. FlushInv(t) /\ client[t].cpu \in WqCpu
          BY <1>1 DEF WqIInv, Calls, Flushing
      <4>3. ~(c < client[t].cpu) /\ ~(c > client[t].cpu)
          BY <4>1, <4>2 DEF FlushInv
      <4>4. c \in Nat /\ client[t].cpu \in Nat
          BY <4>2, WqNames
      <4>5. QED
          BY <4>3, <4>4, SMTT(30)
    <3>5. QED
        BY <1>1, <1>2, <2>3, <2>4, <3>2, <3>3, <3>4, FlushKeep DEF WqIInv, Flushing
  <2>5. CASE x.item # t
    <3>1. done'[t] = done[t]
        BY <1>2, <2>5
    <3>2. OnList(c, t)' <=> OnList(c, t)
        BY <1>2 DEF OnList, Positions
    <3>3. Barrier(c, t) => Barrier(c, t)'
        BY <2>2, <2>3, <2>5, <3>1, <3>2 DEF Barrier, InHand
    <3>4. \A d \in WqCpu : d # c => /\ Clear(d, t) => Clear(d, t)'
                                    /\ NoBarrier(d, t) => NoBarrier(d, t)'
                                    /\ Barrier(d, t) => Barrier(d, t)'
        BY <1>2, <1>3, <3>1, CpuSame
    <3>5. QED
        BY <1>1, <1>2, <2>3, <3>1, <3>3, <3>4, FlushKeep DEF WqIInv, Flushing
  <2>6. QED
      BY <2>4, <2>5
<1>9. QED
    BY <1>4, <1>5, <1>6, <1>7, <1>8 DEF WqIInv

-----------------------------------------------------------------------------
(* The clients.                                                            *)

\* A client moves; the CPUs are as they were.
LEMMA CallTypes ==
    ASSUME WqTypeOK, client' \in [WqClient -> CallType],
           UNCHANGED <<list, pending, worker, exited, freed>>,
           work_sem' \in [WqCpu -> Nat], done' \in [WqClient -> 0 .. 1], stop' \in [WqCpu -> BOOLEAN]
    PROVE  WqTypeOK'
BY DEF WqTypeOK, CallType

\* A client outside a destroy moves, nobody is destroying, and the CPUs are as
\* they were.
LEMMA DestroyClient ==
    ASSUME DestroyInv, Calls, UNCHANGED <<list, worker, stop, exited, freed>>, ~freed,
           \A u \in WqClient : ~client[u].destroy /\ ~client'[u].destroy
    PROVE  DestroyInv'
<1>1. \A c \in WqCpu : ~stop[c]
    BY DEF DestroyInv, Calls
<1>2. QED
    BY <1>1 DEF DestroyInv

\* The item is marked; one that is marked already is left alone.
LEMMA MarkStep ==
    ASSUME WqIInv, NEW t \in WqClient, NEW c \in WqCpu, NEW w \in WqWork, QueueMark(t, c, w)
    PROVE  WqIInv'
<1>1. /\ WqTypeOK /\ Calls /\ DestroyInv /\ client[t].pc = "idle" /\ ~freed
      /\ \A u \in WqClient : ~client[u].destroy
      /\ pending' = [pending EXCEPT ![w] = TRUE] /\ pending \in [WqWork -> BOOLEAN]
      /\ UNCHANGED <<list, work_sem, worker, stop, exited, done, freed>>
    BY DEF WqIInv, QueueMark, Destroying, WqTypeOK
<1>2. w \in Item /\ c \in 0 .. WqCpus /\ w # t
    BY WqNames, SMTT(30) DEF Item, WqCpu
<1>3. CASE pending[w]
  <2>1. client' = client /\ pending' = pending
      BY <1>1, <1>3 DEF QueueMark
  <2>2. UNCHANGED wqVars
      BY <1>1, <2>1 DEF wqVars
  <2>3. QED
      BY <2>2, WqStutter
<1>4. CASE ~pending[w]
  <2>1. ClientTo(t, "add", c, w)
      BY <1>4 DEF QueueMark
  <2>2. /\ client'[t].pc = "add" /\ client'[t].cpu = c /\ client'[t].item = w
        /\ client'[t].destroy = client[t].destroy
        /\ \A u \in WqClient : u # t => client'[u] = client[u]
        /\ client' \in [WqClient -> CallType]
      BY <1>1, <1>2, <2>1, CallMoves
  <2>3. WqTypeOK'
      BY <1>1, <2>2 DEF WqTypeOK, CallType
  <2>4. Calls'
      BY <1>1, <1>2, <2>2, WqNames, SMTT(30) DEF Calls
  <2>5. DestroyInv'
      BY <1>1, <2>2, DestroyClient
  <2>6. ASSUME NEW v \in WqWork PROVE LinkedOnce(v)'
    <3>1. LinkedOnce(v) /\ InOnePlace(v)
        BY OnePlace DEF WqIInv
    <3>2. \A d \in WqCpu : (Listed(d, v)' <=> Listed(d, v)) /\ (Taken(d, v)' <=> Taken(d, v))
        BY <1>1 DEF Listed, Taken, Positions
    <3>3. CASE v = w
      <4>1. /\ \A d \in WqCpu : ~Listed(d, v) /\ ~Taken(d, v)
            /\ \A u \in WqClient : ~Adding(u, v)
          BY <1>4, <3>1, <3>3 DEF InOnePlace
      <4>2. pending'[v] /\ \A u \in WqClient : Adding(u, v)' <=> u = t
          BY <1>1, <2>2, <3>3, <4>1 DEF Adding
      <4>3. \A d \in WqCpu : \A i, j \in Positions(d)' :
               list'[d][i].item = v /\ list'[d][j].item = v => i = j
          BY <1>1, <3>1, SMTT(30) DEF InOnePlace, Positions
      <4>4. InOnePlace(v)'
          BY <3>2, <4>1, <4>2, <4>3 DEF InOnePlace
      <4>5. QED
          BY <4>4, OnePlaceNext
    <3>4. CASE v # w
      <4>1. \A u \in WqClient : Adding(u, v)' <=> Adding(u, v)
          BY <1>1, <2>2, <3>4 DEF Adding
      <4>2. pending'[v] = pending[v]
          BY <1>1, <3>4
      <4>3. QED
          BY <1>1, <3>1, <3>2, <4>1, <4>2, PlaceSameLists
    <3>5. QED
        BY <3>3, <3>4
  <2>7. ASSUME NEW u \in WqClient PROVE FlushInv(u)'
    <3>1. Flushing(u)' <=> Flushing(u)
        BY <1>1, <1>2, <2>2, WqNames DEF Flushing, Calls
    <3>2. Flushing(u) => u # t
        BY <1>1 DEF Flushing
    <3>3. QED
        BY <1>1, <2>2, <3>1, <3>2, FlushSame DEF WqIInv
  <2>8. QED
      BY <2>3, <2>4, <2>5, <2>6, <2>7 DEF WqIInv
<1>5. QED
    BY <1>3, <1>4

\* An entry at the tail of a list.
LEMMA Appended ==
    ASSUME WqTypeOK, NEW c \in WqCpu, NEW e \in Entry,
           list' = [list EXCEPT ![c] = Append(@, e)]
    PROVE  /\ list' \in [WqCpu -> Seq(Entry)]
           /\ \A d \in WqCpu : d # c => list'[d] = list[d]
           /\ \E n \in Nat : /\ Positions(c)' = Positions(c) \cup {n} /\ list'[c][n] = e
                             /\ n \notin Positions(c)
                             /\ \A i \in Positions(c) : i \in Nat /\ i < n /\ list'[c][i] = list[c][i]
<1>1. list \in [WqCpu -> Seq(Entry)] /\ list[c] \in Seq(Entry) /\ Len(list[c]) \in Nat
    BY CpuType DEF WqTypeOK
<1>2. list'[c] = Append(list[c], e) /\ \A d \in WqCpu : d # c => list'[d] = list[d]
    BY <1>1
<1>3. Append(list[c], e) \in Seq(Entry)
    BY <1>1, SMTT(30)
<1>4. list' \in [WqCpu -> Seq(Entry)]
    BY <1>1, <1>3
<1> DEFINE n == Len(list[c]) + 1
<1>5. /\ Len(list'[c]) = n /\ list'[c][n] = e
      /\ \A i \in 1 .. Len(list[c]) : list'[c][i] = list[c][i]
    BY <1>1, <1>2, SMTT(30)
<1>6. 1 .. n = (1 .. Len(list[c])) \cup {n} /\ n \notin 1 .. Len(list[c]) /\ n \in Nat
    BY <1>1, SMTT(30)
<1>7. \A i \in 1 .. Len(list[c]) : i \in Nat /\ i < n
    BY <1>1, SMTT(30)
<1> HIDE DEF n
<1>8. Positions(c)' = Positions(c) \cup {n}
    BY <1>5, <1>6 DEF Positions
<1>9. QED
    BY <1>2, <1>4, <1>5, <1>6, <1>7, <1>8 DEF Positions

\* An entry that is neither u's barrier nor owed to u means nothing to u.
LEMMA AppendOther ==
    ASSUME WqTypeOK, NEW c \in WqCpu, NEW e \in Entry, NEW u \in WqClient,
           list' = [list EXCEPT ![c] = Append(@, e)], worker' = worker, done' = done,
           e.item # u, u \notin e.owed, NEW d \in WqCpu
    PROVE  /\ Clear(d, u) => Clear(d, u)'
           /\ NoBarrier(d, u) => NoBarrier(d, u)'
           /\ Barrier(d, u) => Barrier(d, u)'
<1>1. CASE d # c
    BY <1>1, Appended, CpuSame
<1>2. CASE d = c
  <2>1. PICK n \in Nat :
           /\ Positions(c)' = Positions(c) \cup {n} /\ list'[c][n] = e
           /\ n \notin Positions(c)
           /\ \A i \in Positions(c) : i \in Nat /\ i < n /\ list'[c][i] = list[c][i]
      BY Appended
  <2>2. OffList(c, u) => OffList(c, u)'
      BY <2>1 DEF OffList
  <2>3. NoBarrier(c, u) => NoBarrier(c, u)'
      BY <2>1 DEF NoBarrier
  <2>4. OnList(c, u) => OnList(c, u)'
    <3>1. SUFFICES ASSUME OnList(c, u) PROVE OnList(c, u)'
        OBVIOUS
    <3>2. PICK i \in Positions(c) :
             /\ list[c][i].item = u /\ u \notin list[c][i].owed
             /\ \A j \in Positions(c) : (j # i => list[c][j].item # u) /\ (j > i => u \notin list[c][j].owed)
        BY <3>1 DEF OnList
    <3>3. i \in Positions(c)' /\ list'[c][i] = list[c][i]
        BY <2>1
    <3>4. \A j \in Positions(c)' : (j # i => list'[c][j].item # u) /\ (j > i => u \notin list'[c][j].owed)
        BY <2>1, <3>2
    <3>5. QED
        BY <3>2, <3>3, <3>4 DEF OnList
  <2>5. QED
      BY <1>2, <2>2, <2>3, <2>4 DEF Clear, Barrier, InHand
<1>3. QED
    BY <1>1, <1>2

\* A call that is queueing: the work queue is there and nobody is stopping it.
LEMMA Queueing ==
    ASSUME WqIInv, NEW t \in WqClient, client[t].pc \in {"add", "post", "wait"}
    PROVE  /\ ~freed /\ \A c \in WqCpu : ~stop[c] /\ worker[c].pc # "exit" /\ exited[c] = 0
           /\ client[t].cpu \in WqCpu
           /\ client[t].item = t \/ client[t].item \in WqWork
           /\ client[t].pc = "wait" => client[t].item = t
           /\ \A u \in WqClient : client[u].destroy => u = t
<1>1. WqTypeOK /\ Calls /\ DestroyInv
    BY DEF WqIInv
<1>2. \A u \in WqClient : client[u].destroy => u = t
    BY <1>1 DEF DestroyInv
<1>3. ~freed /\ \A u \in WqClient : client[u].pc \notin {"stop", "join"}
    BY <1>1, <1>2 DEF DestroyInv, Calls
<1>4. \A c \in WqCpu : ~stop[c] /\ worker[c].pc # "exit"
    BY <1>1, <1>3 DEF DestroyInv
<1>5. \A c \in WqCpu : exited[c] = 0
  <2>1. TAKE c \in WqCpu
  <2>2. exited[c] \in 0 .. 1 /\ exited[c] # 1
      BY <1>1, <1>4, CpuType DEF DestroyInv
  <2>3. QED
      BY <2>2, SMTT(30)
<1>6. client[t].item \in Item \cup {"none"}
    BY <1>1, ClientType
<1>7. client[t].item = t \/ client[t].item \in WqWork
    BY <1>1, <1>6 DEF Calls, Item
<1>8. QED
    BY <1>1, <1>2, <1>3, <1>4, <1>5, <1>7 DEF Calls

\* The item, or the barrier of a flush, is linked at the tail.
LEMMA AddStep ==
    ASSUME WqIInv, NEW t \in WqClient, QueueAdd(t)
    PROVE  WqIInv'
<1>0. PICK c \in WqCpu, x \in Item :
         c = client[t].cpu /\ x = client[t].item /\ (x = t \/ x \in WqWork)
    BY Queueing DEF QueueAdd, Item
<1> DEFINE e == [item |-> x, owed |-> {}]
<1>1. /\ WqTypeOK /\ Calls /\ DestroyInv /\ client[t].pc = "add"
      /\ list' = [list EXCEPT ![c] = Append(@, e)] /\ ClientTo(t, "post", c, x)
      /\ UNCHANGED <<work_sem, pending, worker, stop, exited, done, freed>>
    BY <1>0 DEF WqIInv, QueueAdd
<1>2. /\ ~freed /\ c \in WqCpu /\ (x = t \/ x \in WqWork)
      /\ \A d \in WqCpu : ~stop[d] /\ worker[d].pc # "exit" /\ exited[d] = 0
      /\ \A u \in WqClient : client[u].destroy => u = t
    BY <1>0, <1>1, Queueing
<1>3. x \in Item /\ c \in 0 .. WqCpus /\ e \in Entry /\ e.item = x /\ e.owed = {}
    BY <1>2, SMTT(30) DEF Item, WqCpu, Entry
<1> HIDE DEF e
<1>4. /\ client'[t].pc = "post" /\ client'[t].cpu = c /\ client'[t].item = x
      /\ client'[t].destroy = client[t].destroy
      /\ \A u \in WqClient : u # t => client'[u] = client[u]
      /\ client' \in [WqClient -> CallType]
    BY <1>1, <1>3, CallMoves, SMTT(30)
<1>5. PICK n \in Nat :
         /\ Positions(c)' = Positions(c) \cup {n} /\ list'[c][n] = e
         /\ n \notin Positions(c)
         /\ \A i \in Positions(c) : i \in Nat /\ i < n /\ list'[c][i] = list[c][i]
    BY <1>1, <1>2, <1>3, Appended
<1>6. list' \in [WqCpu -> Seq(Entry)] /\ \A d \in WqCpu : d # c => list'[d] = list[d]
    BY <1>1, <1>2, <1>3, Appended
<1>7. \A d \in WqCpu : d # c => Positions(d)' = Positions(d)
    BY <1>6 DEF Positions
<1>8. WqTypeOK'
    BY <1>1, <1>4, <1>6 DEF WqTypeOK, CallType
<1>9. Calls'
    BY <1>0, <1>1, <1>4, <1>2, SMTT(30) DEF Calls
<1>10. DestroyInv'
  <2>1. ASSUME client[t].destroy PROVE \A d \in WqCpu : Owed(d, t)'
    <3>1. \A d \in WqCpu : Owed(d, t)
        BY <1>1, <2>1 DEF DestroyInv
    <3>2. x = t
        BY <1>0, <1>1, <2>1 DEF Calls
    <3>3. Owed(c, t)'
        BY <1>1, <1>2, <1>3, <1>5, <3>1, <3>2 DEF Owed
    <3>4. \A d \in WqCpu : d # c => Owed(d, t)'
        BY <1>1, <1>6, <3>1, CpuSame
    <3>5. QED
        BY <3>3, <3>4
  <2>2. \A u \in WqClient : client'[u].destroy => u = t /\ client[u].destroy
      BY <1>2, <1>4
  <2>3. \A u \in WqClient : u # t /\ client[t].destroy => client'[u].pc = "idle"
      BY <1>1, <1>4, SMTT(30) DEF DestroyInv
  <2>4. QED
      BY <1>1, <1>2, <1>4, <2>1, <2>2, <2>3, SMTT(30) DEF DestroyInv
<1>11. ASSUME NEW v \in WqWork PROVE LinkedOnce(v)'
  <2>1. LinkedOnce(v) /\ InOnePlace(v)
      BY OnePlace DEF WqIInv
  <2>2. \A d \in WqCpu : Taken(d, v)' <=> Taken(d, v)
      BY <1>1 DEF Taken
  <2>3. \A d \in WqCpu : d # c => (Listed(d, v)' <=> Listed(d, v))
      BY <1>6, <1>7 DEF Listed
  <2>4. \A u \in WqClient : Adding(u, v)' <=> Adding(u, v) /\ u # t
      BY <1>4 DEF Adding
  <2>5. CASE v = x
    <3>1. Adding(t, v)
        BY <1>0, <1>1, <2>5 DEF Adding
    <3>2. /\ pending'[v] /\ \A d \in WqCpu : ~Listed(d, v) /\ ~Taken(d, v)
          /\ \A u \in WqClient : u # t => ~Adding(u, v)
        BY <1>1, <2>1, <3>1 DEF InOnePlace
    <3>3. Listed(c, v)' /\ \A i \in Positions(c) : list[c][i].item # v
        BY <1>2, <1>3, <1>5, <2>5, <3>2 DEF Listed
    <3>4. \A d \in WqCpu : \A i, j \in Positions(d)' :
             list'[d][i].item = v /\ list'[d][j].item = v => i = j
      <4>1. \A i \in Positions(c)' : list'[c][i].item = v => i = n
          BY <1>5, <3>3
      <4>2. \A d \in WqCpu : d # c => \A i \in Positions(d)' : list'[d][i].item # v
          BY <1>6, <1>7, <3>2, SMTT(30) DEF Listed
      <4>3. QED
          BY <4>1, <4>2
    <3>5. InOnePlace(v)'
      <4>1. \A d \in WqCpu : ~Taken(d, v)' /\ (Listed(d, v)' <=> d = c)
          BY <2>2, <2>3, <3>2, <3>3
      <4>2. \A u \in WqClient : ~Adding(u, v)'
          BY <2>4, <3>2
      <4>3. QED
          BY <1>2, <3>2, <3>4, <4>1, <4>2 DEF InOnePlace
    <3>6. QED
        BY <3>5, OnePlaceNext
  <2>6. CASE v # x
    <3>1. \A u \in WqClient : Adding(u, v)' <=> Adding(u, v)
        BY <1>0, <1>1, <2>4, <2>6 DEF Adding
    <3>2. Listed(c, v)' <=> Listed(c, v)
        BY <1>3, <1>5, <2>6 DEF Listed
    <3>3. \A d \in WqCpu : \A i, j \in Positions(d)' :
             list'[d][i].item = v /\ list'[d][j].item = v => i = j
      <4>1. \A i, j \in Positions(c)' : list'[c][i].item = v /\ list'[c][j].item = v => i = j
          BY <1>2, <1>3, <1>5, <2>1, <2>6 DEF InOnePlace
      <4>2. \A d \in WqCpu : d # c => \A i, j \in Positions(d)' :
               list'[d][i].item = v /\ list'[d][j].item = v => i = j
          BY <1>6, <1>7, <2>1, SMTT(30) DEF InOnePlace
      <4>3. QED
          BY <4>1, <4>2
    <3>4. \A d \in WqCpu : (Listed(d, v)' <=> Listed(d, v)) /\ (Taken(d, v)' <=> Taken(d, v))
        BY <2>2, <2>3, <3>2
    <3>5. QED
        BY <1>1, <2>1, <3>1, <3>3, <3>4, PlaceKeep
  <2>7. QED
      BY <2>5, <2>6
<1>12. ASSUME NEW u \in WqClient PROVE FlushInv(u)'
  <2>1. FlushInv(u)
      BY DEF WqIInv
  <2>2. CASE x = u
    <3>1. u = t /\ x = t
        BY <1>2, <2>2, WqNames
    <3>2. /\ Flushing(t) /\ Flushing(t)' /\ c \in Nat
          /\ \A d \in WqCpu : d \in Nat /\ (d < c => Clear(d, t)) /\ (d > c => NoBarrier(d, t))
          /\ NoBarrier(c, t) /\ done[t] = 0
        BY <1>0, <1>1, <1>2, <1>4, <2>1, <3>1, WqNames DEF FlushInv, Flushing
    <3>3. OnList(c, t)'
      <4>1. n \in Positions(c)' /\ list'[c][n].item = t /\ t \notin list'[c][n].owed
          BY <1>3, <1>5, <3>1
      <4>2. \A j \in Positions(c)' : (j # n => list'[c][j].item # t) /\ (j > n => t \notin list'[c][j].owed)
          BY <1>5, <3>2, SMTT(30) DEF NoBarrier
      <4>3. QED
          BY <4>1, <4>2 DEF OnList
    <3>4. Barrier(c, t)'
        BY <1>1, <3>2, <3>3 DEF Barrier, NoBarrier
    <3>5. \A d \in WqCpu : (d < c => Clear(d, t)') /\ (d > c => NoBarrier(d, t)')
      <4>1. \A d \in WqCpu : d # c => /\ Clear(d, t)' <=> Clear(d, t)
                                      /\ NoBarrier(d, t)' <=> NoBarrier(d, t)
          BY <1>1, <1>6, CpuSame
      <4>2. QED
          BY <3>2, <4>1, SMTT(30)
    <3>6. QED
        BY <1>4, <3>1, <3>2, <3>4, <3>5 DEF FlushInv
  <2>3. CASE x # u
    <3>1. \A d \in WqCpu : /\ Clear(d, u) => Clear(d, u)'
                           /\ NoBarrier(d, u) => NoBarrier(d, u)'
                           /\ Barrier(d, u) => Barrier(d, u)'
        BY <1>1, <1>2, <1>3, <2>3, AppendOther
    <3>2. Flushing(u)' <=> Flushing(u)
        BY <1>0, <1>4, <2>3 DEF Flushing
    <3>3. Flushing(u) => client'[u].cpu = client[u].cpu /\ (client'[u].pc = "add" <=> client[u].pc = "add")
        BY <1>0, <1>4, <2>3 DEF Flushing
    <3>4. QED
        BY <1>1, <2>1, <3>1, <3>2, <3>3, FlushKeep
  <2>4. QED
      BY <2>2, <2>3
<1>13. QED
    BY <1>8, <1>9, <1>10, <1>11, <1>12 DEF WqIInv

\* The token is posted; a flush goes on to wait, a queueing call returns.
LEMMA PostStep ==
    ASSUME WqIInv, NEW t \in WqClient, QueuePost(t)
    PROVE  WqIInv'
<1>0. PICK c \in WqCpu, x \in Item :
         c = client[t].cpu /\ x = client[t].item /\ (x = t \/ x \in WqWork)
    BY Queueing DEF QueuePost, Item
<1>1. /\ WqTypeOK /\ Calls /\ DestroyInv /\ client[t].pc = "post"
      /\ work_sem' = [work_sem EXCEPT ![c] = @ + 1]
      /\ UNCHANGED <<list, pending, worker, stop, exited, done, freed>>
    BY <1>0 DEF WqIInv, QueuePost
<1>2. /\ ~freed /\ \A d \in WqCpu : ~stop[d] /\ worker[d].pc # "exit" /\ exited[d] = 0
      /\ \A u \in WqClient : client[u].destroy => u = t
    BY <1>1, Queueing
<1>3. work_sem' \in [WqCpu -> Nat]
    BY <1>1, SMTT(30) DEF WqTypeOK
<1>4. /\ client' \in [WqClient -> CallType] /\ client'[t].destroy = client[t].destroy
      /\ \A u \in WqClient : u # t => client'[u] = client[u]
      /\ x = t => client'[t].pc = "wait" /\ client'[t].cpu = c /\ client'[t].item = t
      /\ x # t => client'[t].pc = "idle" /\ client'[t].item = "none"
  <2>1. c \in 0 .. WqCpus /\ 0 \in 0 .. WqCpus /\ t \in Item
      BY WqNames, SMTT(30) DEF WqCpu, Item
  <2>2. CASE x = t
      BY <1>0, <1>1, <2>1, <2>2, CallMoves, SMTT(30) DEF QueuePost
  <2>3. CASE x # t
      BY <1>0, <1>1, <2>1, <2>3, CallMoves, SMTT(30) DEF QueuePost
  <2>4. QED
      BY <2>2, <2>3
<1>5. WqTypeOK'
    BY <1>1, <1>3, <1>4 DEF WqTypeOK, CallType
<1>6. Calls'
    BY <1>0, <1>1, <1>4, WqNames, SMTT(30) DEF Calls
<1>7. DestroyInv'
  <2>1. \A u \in WqClient, d \in WqCpu : Owed(d, u)' <=> Owed(d, u)
      BY <1>1, CpuSame
  <2>2. \A u \in WqClient : client'[u].destroy => u = t /\ client[u].destroy
      BY <1>2, <1>4
  <2>3. client[t].destroy => client'[t].pc = "wait"
      BY <1>0, <1>1, <1>4 DEF Calls
  <2>4. \A u \in WqClient : u # t /\ client[t].destroy => client'[u].pc = "idle"
      BY <1>1, <1>4, SMTT(30) DEF DestroyInv
  <2>5. QED
      BY <1>1, <1>2, <2>1, <2>2, <2>3, <2>4, SMTT(30) DEF DestroyInv
<1>8. ASSUME NEW v \in WqWork PROVE LinkedOnce(v)'
  <2>1. \A u \in WqClient : Adding(u, v)' <=> Adding(u, v)
      BY <1>1, <1>4 DEF Adding
  <2>2. \A d \in WqCpu : Taken(d, v)' <=> Taken(d, v)
      BY <1>1 DEF Taken
  <2>3. QED
      BY <1>1, <2>1, <2>2, PlaceSameLists DEF WqIInv
<1>9. ASSUME NEW u \in WqClient PROVE FlushInv(u)'
  <2>1. Flushing(u)' <=> Flushing(u)
      BY <1>0, <1>1, <1>4, WqNames DEF Flushing
  <2>2. Flushing(u) => client'[u].cpu = client[u].cpu /\ (client'[u].pc = "add" <=> client[u].pc = "add")
      BY <1>0, <1>1, <1>4 DEF Flushing
  <2>3. QED
      BY <1>1, <2>1, <2>2, FlushSame DEF WqIInv
<1>10. QED
    BY <1>5, <1>6, <1>7, <1>8, <1>9 DEF WqIInv

\* What a flush marks: every entry keeps its item and is owed to t too.
LEMMA OweMarks ==
    ASSUME WqTypeOK, NEW t \in WqClient, Owe(t)
    PROVE  /\ list' \in [WqCpu -> Seq(Entry)] /\ worker' \in [WqCpu -> WorkerType]
           /\ \A c \in WqCpu :
                 /\ Positions(c)' = Positions(c) /\ Len(list'[c]) = Len(list[c])
                 /\ \A i \in Positions(c) : /\ list'[c][i].item = list[c][i].item
                                            /\ list'[c][i].owed = list[c][i].owed \cup {t}
                 /\ worker'[c].pc = worker[c].pc
                 /\ worker[c].cur = NoItem => worker'[c].cur = NoItem
                 /\ worker[c].cur # NoItem => /\ worker'[c].cur \in Entry
                                              /\ worker'[c].cur.item = worker[c].cur.item
                                              /\ worker'[c].cur.owed = worker[c].cur.owed \cup {t}
<1> DEFINE mark(e) == [e EXCEPT !.owed = @ \cup {t}]
           seq(c) == [i \in 1 .. Len(list[c]) |-> mark(list[c][i])]
           hand(c) == IF worker[c].cur = NoItem THEN worker[c] ELSE [worker[c] EXCEPT !.cur = mark(@)]
<1>1. list' = [c \in WqCpu |-> seq(c)] /\ worker' = [c \in WqCpu |-> hand(c)]
    BY DEF Owe
<1>2. \A e \in Entry : mark(e) \in Entry /\ mark(e).item = e.item /\ mark(e).owed = e.owed \cup {t}
    BY DEF Entry
<1>3. ASSUME NEW c \in WqCpu
      PROVE  /\ seq(c) \in Seq(Entry) /\ Len(seq(c)) = Len(list[c])
             /\ \A i \in 1 .. Len(list[c]) : seq(c)[i] = mark(list[c][i]) /\ list[c][i] \in Entry
    <2>1. Len(list[c]) \in Nat /\ \A i \in 1 .. Len(list[c]) : list[c][i] \in Entry
        BY CpuType DEF Positions
    <2>2. \A i \in 1 .. Len(list[c]) : mark(list[c][i]) \in Entry
        BY <1>2, <2>1
    <2> HIDE DEF mark
    <2>3. seq(c) \in Seq(Entry) /\ Len(seq(c)) = Len(list[c])
        BY <2>1, <2>2, SMTT(30)
    <2>4. QED
        BY <2>1, <2>3
<1>4. ASSUME NEW c \in WqCpu
      PROVE  /\ hand(c) \in WorkerType /\ hand(c).pc = worker[c].pc
             /\ worker[c].cur = NoItem => hand(c).cur = NoItem
             /\ worker[c].cur # NoItem => hand(c).cur = mark(worker[c].cur) /\ worker[c].cur \in Entry
    <2>1. worker[c] \in WorkerType /\ (worker[c].cur # NoItem => worker[c].cur \in Entry)
        BY CpuType DEF WqTypeOK, WorkerType
    <2>2. worker[c].cur # NoItem => mark(worker[c].cur) \in Entry
        BY <1>2, <2>1
    <2> HIDE DEF mark
    <2>3. QED
        BY <2>1, <2>2 DEF WorkerType
<1> HIDE DEF mark, seq, hand
<1>5. list' \in [WqCpu -> Seq(Entry)] /\ worker' \in [WqCpu -> WorkerType]
    BY <1>1, <1>3, <1>4
<1>6. ASSUME NEW c \in WqCpu
      PROVE  /\ Positions(c)' = Positions(c) /\ Len(list'[c]) = Len(list[c])
             /\ \A i \in Positions(c) : /\ list'[c][i].item = list[c][i].item
                                        /\ list'[c][i].owed = list[c][i].owed \cup {t}
    <2>1. list'[c] = seq(c)
        BY <1>1
    <2>2. QED
        BY <1>2, <1>3, <2>1, SMTT(30) DEF Positions
<1>7. ASSUME NEW c \in WqCpu
      PROVE  /\ worker'[c].pc = worker[c].pc
             /\ worker[c].cur = NoItem => worker'[c].cur = NoItem
             /\ worker[c].cur # NoItem => /\ worker'[c].cur \in Entry
                                          /\ worker'[c].cur.item = worker[c].cur.item
                                          /\ worker'[c].cur.owed = worker[c].cur.owed \cup {t}
    BY <1>1, <1>2, <1>4
<1>8. QED
    BY <1>5, <1>6, <1>7

\* The mark of t's flush means nothing to another client.
LEMMA OweOther ==
    ASSUME WqTypeOK, NEW t \in WqClient, NEW u \in WqClient, u # t, Owe(t), done' = done,
           NEW c \in WqCpu
    PROVE  /\ Clear(c, u) => Clear(c, u)'
           /\ NoBarrier(c, u) => NoBarrier(c, u)'
           /\ Barrier(c, u) => Barrier(c, u)'
<1>1. /\ Positions(c)' = Positions(c)
      /\ \A i \in Positions(c) : /\ list'[c][i].item = list[c][i].item
                                 /\ list'[c][i].owed = list[c][i].owed \cup {t}
    BY OweMarks
<1>2. worker'[c].cur.item = worker[c].cur.item /\ (u \in worker'[c].cur.owed <=> u \in worker[c].cur.owed)
    BY OweMarks, SMTT(30)
<1>3. \A i \in Positions(c) : u \in list'[c][i].owed <=> u \in list[c][i].owed
    BY <1>1
<1>4. OffList(c, u) => OffList(c, u)'
    BY <1>1, <1>3 DEF OffList
<1>5. NoBarrier(c, u) => NoBarrier(c, u)'
    BY <1>1, <1>2 DEF NoBarrier
<1>6. OnList(c, u) => OnList(c, u)'
    BY <1>1, <1>3, SMTT(30) DEF OnList
<1>7. QED
    BY <1>2, <1>4, <1>5, <1>6 DEF Clear, Barrier, InHand

\* A flush, or the flush of a destroy, begins.
LEMMA FlushStep ==
    ASSUME WqIInv, NEW t \in WqClient, NEW destroy \in BOOLEAN, jlos_flush_workqueue(t, destroy)
    PROVE  WqIInv'
<1>1. /\ WqTypeOK /\ Calls /\ DestroyInv /\ client[t].pc = "idle" /\ ~freed
      /\ \A u \in WqClient : ~client[u].destroy
      /\ destroy => \A u \in WqClient \ {t} : client[u].pc = "idle"
      /\ Owe(t) /\ UNCHANGED <<work_sem, pending, stop, exited, done, freed>>
      /\ client' = [client EXCEPT ![t] = [pc |-> "add", cpu |-> 1, item |-> t, destroy |-> destroy]]
    BY DEF WqIInv, jlos_flush_workqueue, Destroying
<1>2. /\ client'[t].pc = "add" /\ client'[t].cpu = 1 /\ client'[t].item = t /\ client'[t].destroy = destroy
      /\ \A u \in WqClient : u # t => client'[u] = client[u]
      /\ client' \in [WqClient -> CallType]
  <2>1. client \in [WqClient -> CallType] /\ 1 \in 0 .. WqCpus /\ t \in Item
      BY <1>1, WqNames, SMTT(30) DEF WqTypeOK, CallType, Item
  <2>2. [pc |-> "add", cpu |-> 1, item |-> t, destroy |-> destroy] \in CallType
      BY <2>1 DEF CallType
  <2>3. QED
      BY <1>1, <2>1, <2>2
<1>3. /\ list' \in [WqCpu -> Seq(Entry)] /\ worker' \in [WqCpu -> WorkerType]
      /\ \A c \in WqCpu :
            /\ Positions(c)' = Positions(c)
            /\ \A i \in Positions(c) : /\ list'[c][i].item = list[c][i].item
                                       /\ list'[c][i].owed = list[c][i].owed \cup {t}
            /\ worker'[c].pc = worker[c].pc
            /\ worker[c].cur = NoItem => worker'[c].cur = NoItem
            /\ worker[c].cur # NoItem => /\ worker'[c].cur \in Entry
                                         /\ worker'[c].cur.item = worker[c].cur.item
                                         /\ worker'[c].cur.owed = worker[c].cur.owed \cup {t}
    BY <1>1, OweMarks
<1>4. /\ \A c \in WqCpu : /\ worker'[c].cur = NoItem <=> worker[c].cur = NoItem
                          /\ worker'[c].cur.item = worker[c].cur.item
    BY <1>3, WqNames
<1>5. \A c \in WqCpu : /\ Positions(c)' = Positions(c)
                        /\ \A i \in Positions(c) : list'[c][i].item = list[c][i].item
    BY <1>3
<1>6. \A c \in WqCpu : worker'[c].pc = worker[c].pc
    BY <1>3
<1>7. WqTypeOK'
    BY <1>1, <1>2, <1>3 DEF WqTypeOK, CallType, WorkerType
<1>8. Calls'
    BY <1>1, <1>2, <1>4, <1>6, WqNames, SMTT(30) DEF Calls
<1>9. DestroyInv'
  <2>1. \A c \in WqCpu : Owed(c, t)'
      BY <1>3, SMTT(30) DEF Owed
  <2>2. \A c \in WqCpu : ~stop[c]
      BY <1>1 DEF DestroyInv, Calls
  <2>3. \A u \in WqClient : client'[u].destroy => u = t /\ destroy
      BY <1>1, <1>2
  <2>4. \A u \in WqClient : u # t /\ destroy => client'[u].pc = "idle"
      BY <1>1, <1>2
  <2>5. \A c \in WqCpu : worker'[c].pc # "exit" /\ exited'[c] # 1
      BY <1>1, <1>6, <2>2 DEF DestroyInv
  <2>6. QED
      BY <1>1, <1>2, <2>1, <2>2, <2>3, <2>4, <2>5, SMTT(30) DEF DestroyInv
<1>10. ASSUME NEW v \in WqWork PROVE LinkedOnce(v)'
  <2>1. \A u \in WqClient : Adding(u, v)' <=> Adding(u, v)
      BY <1>1, <1>2, WqNames DEF Adding
  <2>2. \A d \in WqCpu : (Listed(d, v)' <=> Listed(d, v)) /\ (Taken(d, v)' <=> Taken(d, v))
      BY <1>4, <1>5, <1>6 DEF Taken, Listed
  <2>3. LinkedOnce(v) /\ InOnePlace(v)
      BY OnePlace DEF WqIInv
  <2>4. \A d \in WqCpu : \A i, j \in Positions(d)' :
             list'[d][i].item = v /\ list'[d][j].item = v => i = j
      BY <1>5, <2>3 DEF InOnePlace
  <2>5. QED
      BY <1>1, <2>1, <2>2, <2>3, <2>4, PlaceKeep
<1>11. ASSUME NEW u \in WqClient PROVE FlushInv(u)'
  <2>1. FlushInv(u)
      BY DEF WqIInv
  <2>2. CASE u = t
    <3>1. ~Flushing(t) /\ Flushing(t)'
        BY <1>1, <1>2 DEF Flushing
    <3>2. done[t] = 0 /\ \A c \in WqCpu : Clear(c, t)
        BY <2>1, <2>2, <3>1 DEF FlushInv
    <3>3. \A c \in WqCpu : NoBarrier(c, t)'
        BY <1>4, <1>5, <3>2, SMTT(30) DEF NoBarrier, Clear, OffList
    <3>4. \A c \in WqCpu : ~(c < 1)
        BY SMTT(30) DEF WqCpu
    <3>5. QED
        BY <1>1, <1>2, <2>2, <3>1, <3>2, <3>3, <3>4, WqNames DEF FlushInv
  <2>3. CASE u # t
    <3>1. \A d \in WqCpu : /\ Clear(d, u) => Clear(d, u)'
                           /\ NoBarrier(d, u) => NoBarrier(d, u)'
                           /\ Barrier(d, u) => Barrier(d, u)'
        BY <1>1, <2>3, OweOther
    <3>2. (Flushing(u)' <=> Flushing(u)) /\ client'[u] = client[u]
        BY <1>2, <2>3 DEF Flushing
    <3>3. QED
        BY <1>1, <2>1, <3>1, <3>2, FlushKeep
  <2>4. QED
      BY <2>2, <2>3
<1>12. QED
    BY <1>7, <1>8, <1>9, <1>10, <1>11 DEF WqIInv

\* A call moves that is neither on its way to a list nor waiting for a barrier,
\* before or after, and the lists and the hands of the workers are as they were.
LEMMA CallAside ==
    ASSUME WqIInv, NEW t \in WqClient, list' = list, pending' = pending, done' = done,
           \A c \in WqCpu : /\ worker'[c].cur = worker[c].cur
                            /\ worker'[c].pc = "clear" <=> worker[c].pc = "clear",
           client[t].pc \notin {"add", "post", "wait"}, client'[t].pc \notin {"add", "post", "wait"},
           \A u \in WqClient : u # t => client'[u] = client[u]
    PROVE  (\A w \in WqWork : LinkedOnce(w)') /\ (\A u \in WqClient : FlushInv(u)')
<1>1. ASSUME NEW w \in WqWork PROVE LinkedOnce(w)'
  <2>1. \A u \in WqClient : Adding(u, w)' <=> Adding(u, w)
      BY DEF Adding
  <2>2. \A c \in WqCpu : Taken(c, w)' <=> Taken(c, w)
      BY DEF Taken
  <2>3. QED
      BY <2>1, <2>2, PlaceSameLists DEF WqIInv
<1>2. ASSUME NEW u \in WqClient PROVE FlushInv(u)'
  <2>1. Flushing(u)' <=> Flushing(u)
      BY DEF Flushing
  <2>2. Flushing(u) => client'[u] = client[u]
      BY DEF Flushing
  <2>3. QED
      BY <2>1, <2>2, FlushSame DEF WqIInv
<1>3. QED
    BY <1>1, <1>2

\* The barrier of a CPU has run: nothing owed is left there.
LEMMA WaitStep ==
    ASSUME WqIInv, NEW t \in WqClient, FlushWait(t)
    PROVE  WqIInv'
<1>0. PICK c \in WqCpu : c = client[t].cpu /\ c \in Nat /\ c <= WqCpus
    BY Queueing, WqNames DEF FlushWait
<1>1. /\ WqTypeOK /\ Calls /\ DestroyInv /\ client[t].pc = "wait" /\ done[t] = 1
      /\ done' = [done EXCEPT ![t] = 0]
      /\ UNCHANGED <<list, work_sem, pending, worker, stop, exited, freed>>
    BY DEF WqIInv, FlushWait
<1>2. /\ ~freed /\ client[t].item = t
      /\ \A d \in WqCpu : ~stop[d] /\ worker[d].pc # "exit" /\ exited[d] = 0
      /\ \A u \in WqClient : client[u].destroy => u = t
    BY <1>1, Queueing
<1>3. /\ \A d \in WqCpu : (d <= c => Clear(d, t)) /\ (d > c => NoBarrier(d, t))
  <2>1. /\ \A d \in WqCpu : (d < c => Clear(d, t)) /\ (d > c => NoBarrier(d, t))
        /\ Barrier(c, t)
      BY <1>0, <1>1, <1>2 DEF WqIInv, FlushInv, Flushing
  <2>2. Clear(c, t)
      BY <1>1, <2>1, SMTT(30) DEF Barrier
  <2>3. \A d \in WqCpu : d <= c => d < c \/ d = c
      BY <1>0, WqNames, SMTT(30)
  <2>4. QED
      BY <2>1, <2>2, <2>3
<1>4. done' \in [WqClient -> 0 .. 1] /\ done'[t] = 0 /\ \A u \in WqClient : u # t => done'[u] = done[u]
    BY <1>1, SMTT(30) DEF WqTypeOK
<1>5. \A u \in WqClient, d \in WqCpu : /\ Clear(d, u)' <=> Clear(d, u)
                                       /\ NoBarrier(d, u)' <=> NoBarrier(d, u)
                                       /\ Owed(d, u)' <=> Owed(d, u)
    BY <1>1, CpuSame
<1>6. t \in Item /\ 1 \in 0 .. WqCpus /\ 0 \in 0 .. WqCpus /\ 1 \in WqCpu
    BY WqNames, SMTT(30) DEF Item
<1>7. /\ client' \in [WqClient -> CallType] /\ client'[t].destroy = client[t].destroy
      /\ \A u \in WqClient : u # t => client'[u] = client[u]
      /\ \/ /\ c < WqCpus /\ client'[t].pc = "add" /\ client'[t].cpu = c + 1 /\ client'[t].item = t
         \/ /\ c = WqCpus /\ client[t].destroy
            /\ client'[t].pc = "stop" /\ client'[t].cpu = 1 /\ client'[t].item = t
         \/ /\ c = WqCpus /\ ~client[t].destroy /\ client'[t].pc = "idle" /\ client'[t].item = "none"
  <2>1. CASE c < WqCpus
    <3>1. c + 1 \in 0 .. WqCpus /\ ClientTo(t, "add", c + 1, t)
        BY <1>0, <2>1, WqNames, SMTT(30) DEF FlushWait
    <3>2. QED
        BY <1>1, <1>6, <2>1, <3>1, CallMoves, SMTT(30)
  <2>2. CASE ~(c < WqCpus) /\ client[t].destroy
    <3>1. ClientTo(t, "stop", 1, t) /\ c = WqCpus
        BY <1>0, <2>2, WqNames, SMTT(30) DEF FlushWait
    <3>2. QED
        BY <1>1, <1>6, <2>2, <3>1, CallMoves
  <2>3. CASE ~(c < WqCpus) /\ ~client[t].destroy
    <3>1. ClientTo(t, "idle", 0, "none") /\ c = WqCpus
        BY <1>0, <2>3, WqNames, SMTT(30) DEF FlushWait
    <3>2. QED
        BY <1>1, <1>6, <2>3, <3>1, CallMoves, SMTT(30)
  <2>4. QED
      BY <2>1, <2>2, <2>3
<1>8. WqTypeOK'
    BY <1>1, <1>4, <1>7 DEF WqTypeOK, CallType
<1>9. c < WqCpus => c + 1 \in WqCpu
    BY <1>0, WqNames, SMTT(30) DEF WqCpu
<1>10. Calls'
    BY <1>1, <1>2, <1>6, <1>7, <1>9, WqNames, SMTT(30) DEF Calls
<1>11. ASSUME client[t].destroy, c = WqCpus, NEW d \in WqCpu
       PROVE  list[d] = <<>> /\ worker[d].cur = NoItem
  <2>1. Clear(d, t) /\ Owed(d, t)
      BY <1>1, <1>3, <1>11, WqNames DEF DestroyInv
  <2>2. worker[d].cur = NoItem /\ Positions(d) = {}
      BY <2>1 DEF Clear, Owed, OffList
  <2>3. list[d] \in Seq(Entry) /\ Len(list[d]) \in Nat
      BY <1>1, CpuType
  <2>4. Len(list[d]) > 0 => 1 \in Positions(d)
      BY <2>3, SMTT(30) DEF Positions
  <2>5. Len(list[d]) = 0
      BY <2>2, <2>3, <2>4, SMTT(30)
  <2>6. QED
      BY <2>2, <2>3, <2>5, SMTT(30)
<1>12. DestroyInv'
  <2>1. \A u \in WqClient : client'[u].destroy => u = t /\ client[u].destroy
      BY <1>2, <1>7
  <2>2. \A u \in WqClient : u # t /\ client[t].destroy => client'[u].pc = "idle"
      BY <1>1, <1>7, SMTT(30) DEF DestroyInv
  <2>3. client[t].destroy /\ client'[t].pc = "add" => \A d \in WqCpu : Owed(d, t)'
      BY <1>1, <1>5 DEF DestroyInv
  <2>4. client[t].destroy /\ client'[t].pc = "stop" =>
           \A d \in WqCpu : list'[d] = <<>> /\ worker'[d].cur = NoItem
      BY <1>1, <1>7, <1>11
  <2>5. client'[t].pc # "join" /\ client'[t].pc # "post" /\ client'[t].pc # "wait"
      BY <1>7
  <2>6. QED
      BY <1>1, <1>2, <2>1, <2>2, <2>3, <2>4, <2>5, SMTT(30) DEF DestroyInv
<1>13. ASSUME NEW v \in WqWork PROVE LinkedOnce(v)'
  <2>1. \A u \in WqClient : Adding(u, v)' <=> Adding(u, v)
      BY <1>1, <1>7, WqNames DEF Adding
  <2>2. \A d \in WqCpu : Taken(d, v)' <=> Taken(d, v)
      BY <1>1 DEF Taken
  <2>3. QED
      BY <1>1, <2>1, <2>2, PlaceSameLists DEF WqIInv
<1>14. ASSUME NEW u \in WqClient PROVE FlushInv(u)'
  <2>1. CASE u # t
    <3>1. (Flushing(u)' <=> Flushing(u)) /\ client'[u] = client[u] /\ done'[u] = done[u]
        BY <1>4, <1>7, <2>1 DEF Flushing
    <3>2. QED
        BY <1>1, <3>1, FlushSame DEF WqIInv
  <2>2. CASE u = t /\ c < WqCpus
    <3>1. client'[t].pc = "add" /\ client'[t].cpu = c + 1 /\ client'[t].item = t
        BY <1>0, <1>7, <2>2, WqNames, SMTT(30)
    <3>2. \A d \in WqCpu : (d < c + 1 => d <= c) /\ (d > c + 1 => d > c) /\ c + 1 > c
        BY <1>0, WqNames, SMTT(30)
    <3>3. \A d \in WqCpu : (d < c + 1 => Clear(d, t)') /\ (d > c + 1 => NoBarrier(d, t)')
        BY <1>3, <1>5, <3>2
    <3>4. NoBarrier(c + 1, t)'
        BY <1>3, <1>5, <1>9, <2>2, <3>2
    <3>5. QED
        BY <1>4, <2>2, <3>1, <3>3, <3>4 DEF FlushInv, Flushing
  <2>3. CASE u = t /\ ~(c < WqCpus)
    <3>1. c = WqCpus /\ client'[t].pc \in {"idle", "stop"}
        BY <1>0, <1>7, <2>3, WqNames
    <3>2. \A d \in WqCpu : Clear(d, t)'
        BY <1>3, <1>5, <3>1, WqNames
    <3>3. QED
        BY <1>4, <2>3, <3>1, <3>2 DEF FlushInv, Flushing
  <2>4. QED
      BY <2>1, <2>2, <2>3
<1>15. QED
    BY <1>8, <1>10, <1>12, <1>13, <1>14 DEF WqIInv

\* A worker is told to stop.
LEMMA StopStep ==
    ASSUME WqIInv, NEW t \in WqClient, DestroyStop(t)
    PROVE  WqIInv'
<1>1. /\ WqTypeOK /\ Calls /\ DestroyInv /\ client[t].pc = "stop"
      /\ UNCHANGED <<list, pending, worker, exited, done, freed>>
    BY DEF WqIInv, DestroyStop
<1>2. PICK c \in WqCpu : c = client[t].cpu /\ c \in Nat /\ c <= WqCpus
    BY <1>1, WqNames DEF Calls
<1>3. /\ ~freed /\ client[t].destroy /\ client[t].item = t
      /\ \A u \in WqClient : u # t => client[u].pc = "idle" /\ ~client[u].destroy
      /\ \A d \in WqCpu : list[d] = <<>> /\ worker[d].cur = NoItem
    BY <1>1, WqNames, SMTT(30) DEF Calls, DestroyInv
<1>4. /\ stop' = [stop EXCEPT ![c] = TRUE] /\ stop' \in [WqCpu -> BOOLEAN]
      /\ work_sem' = [work_sem EXCEPT ![c] = @ + 1] /\ work_sem' \in [WqCpu -> Nat]
    BY <1>1, <1>2, SMTT(30) DEF DestroyStop, WqTypeOK
<1>5. /\ client' \in [WqClient -> CallType] /\ client'[t].destroy
      /\ client'[t].item = t /\ client'[t].cpu \in WqCpu
      /\ client'[t].pc = "stop" \/ (client'[t].pc = "join" /\ client'[t].cpu = 1)
      /\ \A u \in WqClient : u # t => client'[u] = client[u]
  <2>1. t \in Item /\ 1 \in 0 .. WqCpus /\ 1 \in WqCpu
      BY WqNames, SMTT(30) DEF Item
  <2>2. CASE c < WqCpus
    <3>1. c + 1 \in 0 .. WqCpus /\ c + 1 \in WqCpu /\ ClientTo(t, "stop", c + 1, t)
        BY <1>2, <2>2, WqNames, SMTT(30) DEF DestroyStop, WqCpu
    <3>2. /\ client'[t].pc = "stop" /\ client'[t].cpu = c + 1 /\ client'[t].item = t
          /\ client'[t].destroy = client[t].destroy
          /\ \A u \in WqClient : u # t => client'[u] = client[u]
          /\ client' \in [WqClient -> CallType]
        BY <1>1, <2>1, <3>1, CallMoves
    <3>3. QED
        BY <1>3, <3>1, <3>2
  <2>3. CASE ~(c < WqCpus)
    <3>1. ClientTo(t, "join", 1, t)
        BY <1>2, <2>3 DEF DestroyStop
    <3>2. QED
        BY <1>1, <1>3, <2>1, <3>1, CallMoves, SMTT(30)
  <2>4. QED
      BY <2>2, <2>3
<1>6. WqTypeOK'
    BY <1>1, <1>4, <1>5 DEF WqTypeOK, CallType
<1>7. Calls'
    BY <1>1, <1>5, WqNames, SMTT(30) DEF Calls
<1>8. DestroyInv'
  <2>1. \A d \in WqCpu : ~(d < 1) /\ (stop[d] => stop'[d])
      BY <1>1, <1>4, SMTT(30) DEF WqCpu, WqTypeOK
  <2>2. \A u \in WqClient : client'[u].destroy => u = t
      BY <1>3, <1>5
  <2>3. QED
      BY <1>1, <1>3, <1>5, <2>1, <2>2, SMTT(30) DEF DestroyInv
<1>9. (\A w \in WqWork : LinkedOnce(w)') /\ (\A u \in WqClient : FlushInv(u)')
    BY <1>1, <1>5, CallAside
<1>10. QED
    BY <1>6, <1>7, <1>8, <1>9 DEF WqIInv

\* A worker has left; after the last one the work queue is freed.
LEMMA JoinStep ==
    ASSUME WqIInv, NEW t \in WqClient, DestroyJoin(t)
    PROVE  WqIInv'
<1>1. /\ WqTypeOK /\ Calls /\ DestroyInv /\ client[t].pc = "join"
      /\ UNCHANGED <<list, work_sem, pending, worker, stop, done>>
    BY DEF WqIInv, DestroyJoin
<1>2. PICK c \in WqCpu : c = client[t].cpu /\ c \in Nat /\ c <= WqCpus
    BY <1>1, WqNames DEF Calls
<1>3. /\ ~freed /\ client[t].destroy /\ client[t].item = t
      /\ \A u \in WqClient : u # t => client[u].pc = "idle" /\ ~client[u].destroy
      /\ \A d \in WqCpu : list[d] = <<>> /\ worker[d].cur = NoItem
    BY <1>1, WqNames, SMTT(30) DEF Calls, DestroyInv
<1>4. /\ exited[c] = 1 /\ exited' = [exited EXCEPT ![c] = 0] /\ exited' \in [WqCpu -> 0 .. 1]
      /\ \A d \in WqCpu : exited'[d] = 1 => exited[d] = 1
    BY <1>1, <1>2, SMTT(30) DEF DestroyJoin, WqTypeOK
<1>5. \A d \in WqCpu : d <= c => worker[d].pc = "exit"
  <2>1. \A d \in WqCpu : d < c => worker[d].pc = "exit"
      BY <1>1, <1>2, <1>3 DEF DestroyInv
  <2>2. worker[c].pc = "exit"
      BY <1>1, <1>4 DEF DestroyInv
  <2>3. \A d \in WqCpu : d <= c => d < c \/ d = c
      BY <1>2, WqNames, SMTT(30)
  <2>4. QED
      BY <2>1, <2>2, <2>3
<1>6. CASE c < WqCpus
  <2>1. c + 1 \in 0 .. WqCpus /\ c + 1 \in WqCpu /\ t \in Item /\ ClientTo(t, "join", c + 1, t)
      BY <1>2, <1>6, WqNames, SMTT(30) DEF DestroyJoin, WqCpu, Item
  <2>2. /\ client' \in [WqClient -> CallType] /\ client'[t].destroy = client[t].destroy
        /\ client'[t].item = t /\ client'[t].cpu = c + 1 /\ client'[t].pc = "join"
        /\ \A u \in WqClient : u # t => client'[u] = client[u]
      BY <1>1, <2>1, CallMoves, SMTT(30)
  <2>3. freed' = freed
      BY <1>2, <1>6 DEF DestroyJoin
  <2>4. WqTypeOK'
      BY <1>1, <1>4, <2>2, <2>3 DEF WqTypeOK, CallType
  <2>5. Calls'
    <3>1. t \in WqClient /\ t \notin WqWork /\ t # "none"
        BY WqNames
    <3>2. /\ client'[t].item # "none" /\ client'[t].pc # "idle" /\ client'[t].item \notin WqWork
          /\ client'[t].cpu \in WqCpu /\ client'[t].destroy
        BY <1>3, <2>1, <2>2, <3>1
    <3>3. QED
        BY <1>1, <2>2, <3>2, SMTT(30) DEF Calls
  <2>6. DestroyInv'
    <3>1. \A d \in WqCpu : d < c + 1 => worker'[d].pc = "exit"
      <4>1. \A d \in WqCpu : d < c + 1 => d <= c
          BY <1>2, WqNames, SMTT(30)
      <4>2. QED
          BY <1>1, <1>5, <4>1
    <3>2. \A u \in WqClient : client'[u].destroy => u = t
        BY <1>3, <2>2
    <3>3. QED
        BY <1>1, <1>3, <1>4, <2>2, <2>3, <3>1, <3>2, SMTT(30) DEF DestroyInv
  <2>7. (\A w \in WqWork : LinkedOnce(w)') /\ (\A u \in WqClient : FlushInv(u)')
      BY <1>1, <2>2, CallAside
  <2>8. QED
      BY <2>4, <2>5, <2>6, <2>7 DEF WqIInv
<1>7. CASE ~(c < WqCpus)
  <2>1. client' = [client EXCEPT ![t] = NoCall] /\ freed' = TRUE
      BY <1>2, <1>7 DEF DestroyJoin
  <2>2. /\ client' \in [WqClient -> CallType] /\ client'[t] = NoCall
        /\ \A u \in WqClient : u # t => client'[u] = client[u]
    <3>1. NoCall \in CallType /\ client \in [WqClient -> CallType]
        BY <1>1, WqNames, SMTT(30) DEF NoCall, CallType, WqTypeOK
    <3>2. QED
        BY <2>1, <3>1
  <2>3. WqTypeOK'
      BY <1>1, <1>4, <2>1, <2>2 DEF WqTypeOK, CallType
  <2>4. Calls'
      BY <1>1, <2>2, WqNames, SMTT(30) DEF Calls, NoCall
  <2>5. DestroyInv'
    <3>1. \A d \in WqCpu : d <= c
        BY <1>2, <1>7, WqNames, SMTT(30)
    <3>2. \A d \in WqCpu : worker[d].pc = "exit"
        BY <1>5, <3>1
    <3>3. \A u \in WqClient : client'[u].pc = "idle" /\ ~client'[u].destroy
        BY <1>3, <2>2, SMTT(30) DEF NoCall
    <3>4. QED
        BY <1>1, <1>3, <1>4, <2>1, <3>2, <3>3 DEF DestroyInv
  <2>6. (\A w \in WqWork : LinkedOnce(w)') /\ (\A u \in WqClient : FlushInv(u)')
      BY <1>1, <2>2, CallAside, SMTT(30) DEF NoCall
  <2>7. QED
      BY <2>3, <2>4, <2>5, <2>6 DEF WqIInv
<1>8. QED
    BY <1>6, <1>7

\* A work queue is created where one was destroyed.
LEMMA CreateStep ==
    ASSUME WqIInv, jlos_workqueue_create
    PROVE  WqIInv'
<1>1. /\ WqTypeOK /\ Calls /\ DestroyInv /\ freed
      /\ UNCHANGED <<pending, client, done>>
      /\ worker' = [c \in WqCpu |-> [pc |-> "wait", cur |-> NoItem]] /\ freed' = FALSE
      /\ work_sem' = [c \in WqCpu |-> 0] /\ stop' = [c \in WqCpu |-> FALSE]
      /\ list' = [c \in WqCpu |-> <<>>] /\ exited' = [c \in WqCpu |-> 0]
    BY DEF WqIInv, jlos_workqueue_create
<1>2. /\ \A t \in WqClient : client[t].pc = "idle" /\ ~client[t].destroy
      /\ \A c \in WqCpu : worker[c].pc = "exit" /\ list[c] = <<>> /\ worker[c].cur = NoItem
    BY <1>1, WqNames, SMTT(30) DEF DestroyInv, Calls
<1>3. \A c \in WqCpu : /\ worker'[c].pc = "wait" /\ worker'[c].cur = NoItem /\ list'[c] = list[c]
                       /\ exited'[c] = 0 /\ ~stop'[c]
    BY <1>1, <1>2
<1>4. WqTypeOK'
  <2>1. list' \in [WqCpu -> Seq(Entry)] /\ work_sem' \in [WqCpu -> Nat]
      BY <1>1, SMTT(30)
  <2>2. /\ exited' \in [WqCpu -> 0 .. 1] /\ stop' \in [WqCpu -> BOOLEAN]
        /\ worker' \in [WqCpu -> [pc : {"wait", "drain", "clear", "run", "exit"},
                                  cur : Entry \cup {NoItem}]]
      BY <1>1, SMTT(30)
  <2>3. QED
      BY <1>1, <2>1, <2>2 DEF WqTypeOK
<1>5. Calls'
    BY <1>1, <1>2, <1>3, SMTT(30) DEF Calls
<1>6. DestroyInv'
    BY <1>1, <1>2, <1>3, SMTT(30) DEF DestroyInv
<1>7. list' = list
    BY <1>1, <1>2, SMTT(30) DEF WqTypeOK
<1>8. ASSUME NEW w \in WqWork PROVE LinkedOnce(w)'
  <2>1. \A c \in WqCpu : Taken(c, w)' <=> Taken(c, w)
      BY <1>2, <1>3 DEF Taken
  <2>2. \A t \in WqClient : Adding(t, w)' <=> Adding(t, w)
      BY <1>1 DEF Adding
  <2>3. QED
      BY <1>1, <1>7, <2>1, <2>2, PlaceSameLists DEF WqIInv
<1>9. ASSUME NEW t \in WqClient PROVE FlushInv(t)'
  <2>1. Flushing(t)' <=> Flushing(t)
      BY <1>1 DEF Flushing
  <2>2. QED
      BY <1>1, <1>2, <1>3, <1>7, <2>1, FlushSame DEF WqIInv
<1>10. QED
    BY <1>4, <1>5, <1>6, <1>8, <1>9 DEF WqIInv

-----------------------------------------------------------------------------
LEMMA WqInitInv == WqInit => WqIInv
<1> SUFFICES ASSUME WqInit PROVE WqIInv
    OBVIOUS
<1>1. /\ \A c \in WqCpu : /\ list[c] = <<>> /\ worker[c].pc = "wait" /\ worker[c].cur = NoItem
                          /\ ~stop[c] /\ exited[c] = 0 /\ Positions(c) = {}
      /\ \A t \in WqClient : client[t] = NoCall /\ done[t] = 0
      /\ \A w \in WqWork : ~pending[w]
      /\ ~freed
    BY SMTT(30) DEF WqInit, Positions
<1>2. WqTypeOK
  <2>1. list \in [WqCpu -> Seq(Entry)] /\ work_sem \in [WqCpu -> Nat]
      BY SMTT(30) DEF WqInit
  <2>2. client \in [WqClient -> CallType]
      BY WqNames, SMTT(30) DEF WqInit, NoCall, CallType
  <2>3. worker \in [WqCpu -> WorkerType]
      BY DEF WqInit, WorkerType
  <2>4. exited \in [WqCpu -> 0 .. 1] /\ done \in [WqClient -> 0 .. 1]
      BY SMTT(30) DEF WqInit
  <2>5. freed \in BOOLEAN /\ pending \in [WqWork -> BOOLEAN] /\ stop \in [WqCpu -> BOOLEAN]
      BY DEF WqInit
  <2>6. QED
      BY <2>1, <2>2, <2>3, <2>4, <2>5 DEF WqTypeOK, CallType, WorkerType
<1>3. Calls
    BY <1>1, WqNames, SMTT(30) DEF Calls, NoCall
<1>4. DestroyInv
    BY <1>1, SMTT(30) DEF DestroyInv, NoCall
<1>5. \A w \in WqWork : InOnePlace(w)
    BY <1>1, SMTT(30) DEF InOnePlace, Listed, Adding, Taken, NoCall
<1>6. \A t \in WqClient : FlushInv(t)
    BY <1>1, WqNames, SMTT(30) DEF FlushInv, Flushing, NoCall, Clear, OffList
<1>7. QED
    BY <1>2, <1>3, <1>4, <1>5, <1>6, OnePlace DEF WqIInv

LEMMA WqStepInv == WqIInv /\ [WqNext]_wqVars => WqIInv'
<1> SUFFICES ASSUME WqIInv, WqNext PROVE WqIInv'
    BY WqStutter
<1>1. ASSUME NEW c \in WqCpu, Worker(c) PROVE WqIInv'
  <2>1. CASE WorkerPop(c)
      BY <2>1, PopStep, PopNothingStep
  <2>2. QED
      BY <1>1, <2>1, WorkerWaitStep, ClearStep, RunStep DEF Worker
<1>2. ASSUME NEW t \in WqClient, Client(t) PROVE WqIInv'
    BY <1>2, AddStep, PostStep, WaitStep, StopStep, JoinStep DEF Client
<1>3. QED
    BY <1>1, <1>2, MarkStep, FlushStep, CreateStep DEF WqNext

\* What a client of the work queue relies on follows.
LEMMA WqInvSafe == WqIInv => WorkAccounted
<1> SUFFICES ASSUME WqIInv PROVE WorkAccounted
    OBVIOUS
<1>1. FlushCovers
  <2>1. SUFFICES ASSUME NEW t \in WqClient, client[t].item # t \/ client[t].pc \in {"stop", "join"},
                        NEW c \in WqCpu, NEW e \in Entries(c)
                 PROVE  e.item # t /\ t \notin e.owed
      BY DEF FlushCovers
  <2>2. Clear(c, t)
      BY <2>1 DEF WqIInv, FlushInv, Flushing
  <2>3. QED
      BY <2>1, <2>2 DEF Clear, OffList, Entries, Positions
<1>2. WqTypeOK /\ WorkLinkedOnce /\ DestroyedQuiet
    BY DEF WqIInv, WorkLinkedOnce, DestroyedQuiet, DestroyInv
<1>3. QED
    BY <1>1, <1>2 DEF WorkAccounted

\* Whatever the numbers of CPUs, items and clients, and however their calls
\* interleave with the workers: an item is on at most one list, a flush
\* returns only when all that was queued or running at its call has run, and
\* destroy frees the work queue only when every worker has left it.
THEOREM WorkIsAccounted == WqSpec => []WorkAccounted
<1>1. WqInit => WqIInv
    BY WqInitInv
<1>2. WqIInv /\ [WqNext]_wqVars => WqIInv'
    BY WqStepInv
<1>3. WqIInv => WorkAccounted
    BY WqInvSafe
<1>4. QED
    BY <1>1, <1>2, <1>3, PTL DEF WqSpec
=============================================================================
