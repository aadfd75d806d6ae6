--------------------------- MODULE RegistryProofs ---------------------------
(***************************************************************************)
(* Proofs about Registry, for any number of threads, sessions and Confs:   *)
(* a server is never deleted while a thread has a pointer to it, no two    *)
(* threads are in one server, and nobody waits for a mutex for ever.  They *)
(* rest on the key of a server being the session and the thread: whatever  *)
(* a thread inserts or deletes is its own, or that of a thread that has    *)
(* ended and so has no pointers.                                           *)
(***************************************************************************)
EXTENDS Registry, SequenceTheorems, TLAPS

Places == {"idle", "find", "lock", "run", "connecting", "command", "stopped",
           "loading", "dialog", "new dialog"}
Ops == {"none", "get", "put", "mkdir", "renmov", "open", "properties", "new"}

(* What the pointers of the threads are part of.                           *)
ThreadTypes ==
  /\ thread \in [Threads -> {"running", "ended", "gone"}]
  /\ pc \in [Threads -> Places]
  /\ op \in [Threads -> Ops]
  /\ using \in [Threads -> Seq(Key)]
  /\ at \in [Threads -> {1, 2}]
  /\ locked \in [Threads -> Nat]

(* A thread that is in a function runs; outside, it has no pointers.       *)
Away(t) == pc[t] \in {"idle", "new dialog"}

OwnPointers(t) ==
  \A i \in 1 .. Len(using[t]) : using[t][i] \in servers /\ using[t][i][2] = t

ThreadInv(t) ==
  /\ pc[t] # "idle" => thread[t] = "running"
  /\ Away(t) => using[t] = <<>>
  /\ Away(t) \/ pc[t] = "find" => at[t] = 1 /\ locked[t] = 0
  /\ pc[t] = "find" => Len(using[t]) = 1
  /\ ~Away(t) => at[t] <= Len(using[t])
  /\ pc[t] = "lock" => locked[t] < Len(using[t])
  /\ locked[t] <= Len(using[t]) /\ Len(using[t]) <= 2
  /\ op[t] = "renmov" /\ pc[t] \notin {"idle", "find"} => Len(using[t]) = 2
  /\ pc[t] = "new dialog" => op[t] = "new"
  /\ OwnPointers(t)

IInv == ThreadTypes /\ \A t \in Threads : ThreadInv(t)

-----------------------------------------------------------------------------
(* What an action of thread t does to the others.                          *)
OthersStay(t) ==
  \A u \in Threads \ {t} :
    /\ thread'[u] = thread[u] /\ pc'[u] = pc[u] /\ op'[u] = op[u]
    /\ using'[u] = using[u] /\ at'[u] = at[u] /\ locked'[u] = locked[u]

(* The servers of other threads that run are left in place.                *)
KeepsServers(t) ==
  \A k \in servers :
    k[2] \in Threads \ {t} /\ thread[k[2]] = "running" => k \in servers'

LEMMA OtherThreads ==
  ASSUME NEW t \in Threads, NEW u \in Threads, u # t,
         ThreadTypes, ThreadInv(u), OthersStay(t), KeepsServers(t)
  PROVE  ThreadInv(u)'
<1>1. /\ thread'[u] = thread[u] /\ pc'[u] = pc[u] /\ op'[u] = op[u]
      /\ using'[u] = using[u] /\ at'[u] = at[u] /\ locked'[u] = locked[u]
  BY DEF OthersStay
<1>2. OwnPointers(u)'
  <2> SUFFICES ASSUME NEW i \in 1 .. Len(using[u])
               PROVE  using[u][i] \in servers' /\ using[u][i][2] = u
    BY <1>1 DEF OwnPointers
  <2>1. using[u][i] \in servers /\ using[u][i][2] = u
    BY DEF ThreadInv, OwnPointers
  <2>2. using[u] # <<>>
    OBVIOUS
  <2>3. thread[u] = "running"
    BY <2>2 DEF ThreadInv, Away
  <2>. QED BY <2>1, <2>3 DEF KeepsServers
<1>. QED BY <1>1, <1>2 DEF ThreadInv, Away

(* An action of thread t that keeps its types and its own part keeps the   *)
(* invariant.                                                              *)
LEMMA OneThread ==
  ASSUME NEW t \in Threads, IInv, ThreadTypes', OthersStay(t), KeepsServers(t),
         ThreadInv(t)'
  PROVE  IInv'
<1>1. ASSUME NEW u \in Threads PROVE ThreadInv(u)'
  <2>1. CASE u = t
    BY <2>1
  <2>2. CASE u # t
    BY <2>2, OtherThreads DEF IInv
  <2>. QED BY <2>1, <2>2
<1>. QED BY <1>1 DEF IInv

(* Outside, or about to begin, a thread has no pointers. *)
LEMMA NoPointers ==
  ASSUME NEW t \in Threads, using[t] = <<>>
  PROVE  Len(using[t]) = 0 /\ OwnPointers(t)
BY DEF OwnPointers

LEMMA ThreadIds == Main \in Threads /\ Background \subseteq Threads /\ Temp[2] \notin Threads
BY RegistryAssumption DEF Threads, Temp, Null

LEMMA InitIInv == Init => IInv
<1> SUFFICES ASSUME Init PROVE IInv
  OBVIOUS
<1>1. ThreadTypes
  BY DEF Init, ThreadTypes, Places, Ops
<1>2. ASSUME NEW t \in Threads PROVE ThreadInv(t)
  BY DEF Init, ThreadInv, Away, OwnPointers
<1>. QED BY <1>1, <1>2 DEF IInv

(* A thread that returns gives its pointers up. *)
LEMMA ReleaseKeeps ==
  ASSUME NEW t \in Threads, IInv, Release(t), KeepsServers(t)
  PROVE  IInv'
<1>1. ThreadTypes'
  <2>1. <<>> \in Seq(Key)
    OBVIOUS
  <2>2. using' \in [Threads -> Seq(Key)]
    BY <2>1 DEF IInv, ThreadTypes, Release
  <2>3. at' \in [Threads -> {1, 2}] /\ locked' \in [Threads -> Nat]
    BY DEF IInv, ThreadTypes, Release
  <2>4. op' \in [Threads -> Ops] /\ pc' \in [Threads -> Places]
    BY DEF Ops, Places, IInv, ThreadTypes, Release, Goto
  <2>. QED BY <2>2, <2>3, <2>4 DEF IInv, ThreadTypes, Release
<1>2. OthersStay(t)
  BY DEF IInv, ThreadTypes, Release, Goto, OthersStay
<1>3. ThreadInv(t)'
  <2>1. /\ pc'[t] = "idle" /\ using'[t] = <<>> /\ at'[t] = 1 /\ locked'[t] = 0
        /\ op'[t] = "none"
    BY DEF IInv, ThreadTypes, Release, Goto
  <2>. QED BY <2>1 DEF ThreadInv, Away, OwnPointers
<1>. QED BY <1>1, <1>2, <1>3, OneThread

(* The pointers of a thread that goes on with the same ones stay good.     *)
LEMMA SameServers ==
  ASSUME NEW t \in Threads, servers \subseteq servers', using'[t] = using[t],
         OwnPointers(t)
  PROVE  OwnPointers(t)'
BY DEF OwnPointers

LEMMA AllKept ==
  ASSUME NEW t \in Threads, servers \subseteq servers'
  PROVE  KeepsServers(t)
BY DEF KeepsServers

(* findServer deletes only servers of threads that have ended.             *)
LEMMA FindServerKeeps ==
  ASSUME NEW t \in Threads, NEW n \in Sessions, IInv, thread[t] = "running",
         FindServer(ServerName(n, t), n, t)
  PROVE  /\ ServerName(n, t) \in servers' /\ ServerName(n, t)[2] = t
         /\ ServerName(n, t) \in Key
         /\ KeepsServers(t)
         /\ \A k \in servers : k[2] = t => k \in servers'
<1>1. PICK dead \in Reapable :
        servers' = (servers \ dead) \cup {ServerName(n, t)}
  BY Zenon DEF FindServer
<1>2. ASSUME NEW k \in dead PROVE thread[k[2]] = "ended"
  BY <1>1 DEF Reapable, HasEnded
<1>. QED BY <1>1, <1>2 DEF KeepsServers, ServerName, Key

-----------------------------------------------------------------------------
(* Threads begin and end with nothing in hand.                             *)
LEMMA ThreadsKeep ==
  ASSUME NEW t \in Background, IInv,
         ThreadStarts(t) \/ ThreadEnds(t) \/ ThreadIsGone(t)
  PROVE  IInv'
<1>1. t \in Threads
  BY ThreadIds
<1>2. ThreadTypes'
  BY <1>1 DEF IInv, ThreadTypes, ThreadStarts, ThreadEnds, ThreadIsGone
<1>3. OthersStay(t) /\ KeepsServers(t)
  BY <1>1 DEF IInv, ThreadTypes, ThreadStarts, ThreadEnds, ThreadIsGone, OthersStay,
              KeepsServers, registry
<1>4. pc[t] = "idle" /\ ThreadInv(t)
  BY <1>1 DEF IInv, ThreadInv, ThreadStarts, ThreadEnds, ThreadIsGone
<1>5. ThreadInv(t)'
  BY <1>4 DEF ThreadInv, Away, OwnPointers, ThreadStarts, ThreadEnds, ThreadIsGone,
              registry
<1>. QED BY <1>1, <1>2, <1>3, <1>5, OneThread

LEMMA CallKeeps ==
  ASSUME NEW t \in Threads, NEW n \in Sessions, NEW f \in Functions(t), IInv,
         Call(t, n, f)
  PROVE  IInv'
<1> DEFINE k == ServerName(n, t)
           l == IF f = "renmov" THEN "find" ELSE IF f = "mkdir" THEN "run" ELSE "lock"
<1>1. /\ thread[t] = "running" /\ pc[t] = "idle" /\ FindServer(k, n, t)
      /\ op' = [op EXCEPT ![t] = f] /\ using' = [using EXCEPT ![t] = <<k>>]
      /\ at' = [at EXCEPT ![t] = 1] /\ pc' = [pc EXCEPT ![t] = l]
      /\ thread' = thread /\ locked' = locked
  BY Zenon DEF Call, Idle, Goto
<1>2. k \in servers' /\ k[2] = t /\ k \in Key /\ KeepsServers(t)
  BY <1>1, FindServerKeeps
<1>3. f \in Ops /\ l \in Places
  BY DEF Functions, Ops, Places
<1>4. <<k>> \in Seq(Key) /\ Len(<<k>>) = 1 /\ <<k>>[1] = k
  BY <1>2
<1> HIDE DEF k, l
<1>5. ThreadTypes'
  BY <1>1, <1>3, <1>4 DEF IInv, ThreadTypes
<1>6. OthersStay(t)
  BY <1>1 DEF IInv, ThreadTypes, OthersStay
<1>7. /\ pc'[t] = l /\ using'[t] = <<k>> /\ at'[t] = 1 /\ locked'[t] = 0
      /\ op'[t] = f /\ thread'[t] = "running"
  BY <1>1 DEF IInv, ThreadTypes, ThreadInv, Away
<1>8. OwnPointers(t)'
  BY <1>2, <1>4, <1>7 DEF OwnPointers
<1>9. l \in {"find", "run", "lock"} /\ (f = "renmov" => l = "find")
  BY DEF l
<1>10. ThreadInv(t)'
  <2>1. ~Away(t)' /\ pc'[t] \in {"find", "run", "lock"} /\ Len(using'[t]) = 1
    BY <1>4, <1>7, <1>9 DEF Away
  <2>2. op'[t] = "renmov" => pc'[t] = "find"
    BY <1>7, <1>9
  <2>3. at'[t] <= Len(using'[t]) /\ locked'[t] < Len(using'[t]) /\ locked'[t] <= 2
    BY <1>7, <2>1
  <2>4. pc'[t] # "new dialog" /\ at'[t] = 1 /\ locked'[t] = 0 /\ thread'[t] = "running"
    BY <1>7, <2>1
  <2>5. Len(using'[t]) <= 2 /\ locked'[t] <= Len(using'[t])
    BY <1>7, <2>1
  <2>. QED BY <1>8, <2>1, <2>2, <2>3, <2>4, <2>5 DEF ThreadInv
<1>. QED BY <1>2, <1>5, <1>6, <1>10, OneThread

LEMMA FindSecondKeeps ==
  ASSUME NEW t \in Threads, NEW n \in Sessions, IInv, FindSecond(t, n)
  PROVE  IInv'
<1> DEFINE k == ServerName(n, t)
<1>1. /\ pc[t] = "find" /\ FindServer(k, n, t)
      /\ using' = [using EXCEPT ![t] = Append(@, k)]
      /\ pc' = [pc EXCEPT ![t] = "lock"]
      /\ UNCHANGED <<thread, op, at, locked>>
  BY Zenon DEF FindSecond, Goto
<1>2. /\ thread[t] = "running" /\ ThreadInv(t) /\ using[t] \in Seq(Key)
      /\ Len(using[t]) = 1 /\ at[t] = 1 /\ locked[t] = 0
  BY <1>1 DEF IInv, ThreadTypes, ThreadInv
<1>3. /\ k \in servers' /\ k[2] = t /\ k \in Key /\ KeepsServers(t)
      /\ \A j \in servers : j[2] = t => j \in servers'
  BY <1>1, <1>2, FindServerKeeps
<1> HIDE DEF k
<1>4. /\ Append(using[t], k) \in Seq(Key) /\ Len(Append(using[t], k)) = 2
      /\ Append(using[t], k)[1] = using[t][1] /\ Append(using[t], k)[2] = k
  BY <1>2, <1>3, AppendProperties
<1>5. ThreadTypes'
  BY <1>1, <1>4 DEF IInv, ThreadTypes, Places
<1>6. OthersStay(t)
  BY <1>1 DEF IInv, ThreadTypes, OthersStay
<1>7. /\ pc'[t] = "lock" /\ using'[t] = Append(using[t], k) /\ at'[t] = 1
      /\ locked'[t] = 0 /\ thread'[t] = "running"
  BY <1>1, <1>2 DEF IInv, ThreadTypes
<1>8. using[t][1] \in servers /\ using[t][1][2] = t
  <2>1. 1 \in 1 .. Len(using[t])
    BY <1>2
  <2>. QED BY <1>2, <2>1 DEF ThreadInv, OwnPointers
<1>9. OwnPointers(t)'
  BY <1>3, <1>4, <1>7, <1>8 DEF OwnPointers
<1>10. ThreadInv(t)'
  BY <1>4, <1>7, <1>9 DEF ThreadInv, Away
<1>. QED BY <1>3, <1>5, <1>6, <1>10, OneThread

LEMMA LockKeeps ==
  ASSUME NEW t \in Threads, IInv, Lock(t)
  PROVE  IInv'
<1> DEFINE l == IF locked[t] + 1 < Len(using[t]) THEN "lock" ELSE "run"
<1>1. /\ pc[t] = "lock" /\ locked' = [locked EXCEPT ![t] = @ + 1]
      /\ pc' = [pc EXCEPT ![t] = l]
      /\ UNCHANGED <<thread, servers, op, using, at>>
  BY DEF Lock, Goto, registry
<1>2. /\ ThreadInv(t) /\ locked[t] \in Nat /\ using[t] \in Seq(Key)
  BY DEF IInv, ThreadTypes
<1>3. l \in {"lock", "run"} /\ (l = "lock" => locked[t] + 1 < Len(using[t]))
  OBVIOUS
<1> HIDE DEF l
<1>4. ThreadTypes'
  <2>1. pc' \in [Threads -> Places]
    BY <1>1, <1>3 DEF IInv, ThreadTypes, Places
  <2>2. locked' \in [Threads -> Nat]
    BY <1>1, <1>2 DEF IInv, ThreadTypes
  <2>. QED BY <1>1, <2>1, <2>2 DEF IInv, ThreadTypes
<1>5. OthersStay(t) /\ KeepsServers(t)
  BY <1>1 DEF IInv, ThreadTypes, OthersStay, KeepsServers
<1>6. pc'[t] = l /\ locked'[t] = locked[t] + 1
  BY <1>1 DEF IInv, ThreadTypes
<1>7. OwnPointers(t)'
  BY <1>1, <1>2 DEF ThreadInv, OwnPointers
<1>8. ThreadInv(t)'
  <2>1. Len(using[t]) \in Nat
    BY <1>2
  <2>2. ~Away(t) /\ ~Away(t)' /\ pc'[t] # "new dialog" /\ pc'[t] # "find"
    BY <1>1, <1>3, <1>6 DEF Away
  <2>3. /\ at[t] <= Len(using[t]) /\ locked[t] < Len(using[t]) /\ Len(using[t]) <= 2
        /\ op[t] = "renmov" => Len(using[t]) = 2
        /\ thread[t] = "running"
    BY <1>1, <1>2, <2>2 DEF ThreadInv
  <2>4. locked'[t] <= Len(using[t]) /\ (pc'[t] = "lock" => locked'[t] < Len(using[t]))
    BY <1>2, <1>3, <1>6, <2>1, <2>3
  <2>. QED BY <1>1, <1>7, <2>2, <2>3, <2>4 DEF ThreadInv
<1>. QED BY <1>4, <1>5, <1>8, OneThread

-----------------------------------------------------------------------------
(* The server a thread works on is one of its own. *)
LEMMA CurrentIsOwn ==
  ASSUME NEW t \in Threads, IInv, ~Away(t)
  PROVE  Current(t) \in servers /\ Current(t)[2] = t /\ Current(t) \in Key
<1>1. at[t] \in {1, 2} /\ using[t] \in Seq(Key) /\ ThreadInv(t)
  BY DEF IInv, ThreadTypes
<1>2. at[t] \in 1 .. Len(using[t])
  <2>1. at[t] <= Len(using[t])
    BY <1>1 DEF ThreadInv
  <2>2. Len(using[t]) \in Nat
    BY <1>1
  <2>. QED BY <1>1, <2>1, <2>2
<1>3. using[t][at[t]] \in Key
  BY <1>1, <1>2
<1>. QED BY <1>1, <1>2, <1>3 DEF ThreadInv, OwnPointers, Current

(* Where a thread is when it is not about to take a lock.                  *)
Inside == {"run", "connecting", "command", "stopped", "loading", "dialog"}

(* A thread goes on in its function with the same servers and locks.       *)
LEMMA GoesOn ==
  ASSUME NEW t \in Threads, NEW l \in Inside, IInv, pc[t] \in Inside, Goto(t, l),
         UNCHANGED <<thread, servers, op, using, at, locked>>
  PROVE  IInv'
<1>1. ThreadTypes'
  <2>1. pc' \in [Threads -> Places]
    BY DEF IInv, ThreadTypes, Goto, Places, Inside
  <2>. QED BY <2>1 DEF IInv, ThreadTypes
<1>2. OthersStay(t) /\ KeepsServers(t)
  BY DEF IInv, ThreadTypes, Goto, OthersStay, KeepsServers
<1>3. pc'[t] = l
  BY DEF IInv, ThreadTypes, Goto
<1>4. /\ ~Away(t) /\ pc[t] # "find" /\ pc[t] # "idle"
      /\ ~Away(t)' /\ pc'[t] # "find" /\ pc'[t] # "lock" /\ pc'[t] # "new dialog"
  BY <1>3 DEF Away, Inside
<1>5. ThreadInv(t) /\ OwnPointers(t)'
  BY DEF IInv, ThreadInv, OwnPointers
<1>6. ThreadInv(t)'
  BY <1>4, <1>5 DEF ThreadInv
<1>. QED BY <1>1, <1>2, <1>6, OneThread

LEMMA NothingMoves ==
  ASSUME IInv, UNCHANGED <<thread, servers, pc, op, using, at, locked>>
  PROVE  IInv'
<1>1. ThreadTypes'
  BY DEF IInv, ThreadTypes
<1>2. ASSUME NEW t \in Threads PROVE ThreadInv(t)'
  <2>1. ThreadInv(t)
    BY DEF IInv
  <2>. QED BY <2>1, Zenon DEF ThreadInv, Away, OwnPointers
<1>. QED BY <1>1, <1>2 DEF IInv

LEMMA ConnectionKeeps ==
  ASSUME NEW t \in Threads, IInv,
         \/ IsConnected(t) \/ Connect(t) \/ Connected(t) \/ NotConnected(t)
         \/ LoseConnection(t)
  PROVE  IInv'
<1>1. CASE IsConnected(t)
  <2>1. /\ pc[t] \in Inside /\ Goto(t, "command")
        /\ UNCHANGED <<thread, servers, op, using, at, locked>>
    BY <1>1 DEF IsConnected, Inside, registry
  <2>. QED BY <2>1, GoesOn DEF Inside
<1>2. CASE Connect(t)
  <2>1. /\ pc[t] \in Inside /\ Goto(t, "connecting")
        /\ UNCHANGED <<thread, servers, op, using, at, locked>>
    BY <1>2 DEF Connect, Inside
  <2>. QED BY <2>1, GoesOn DEF Inside
<1>3. CASE Connected(t)
  <2>1. /\ pc[t] \in Inside /\ Goto(t, "command")
        /\ UNCHANGED <<thread, servers, op, using, at, locked>>
    BY <1>3 DEF Connected, Inside
  <2>. QED BY <2>1, GoesOn DEF Inside
<1>4. CASE NotConnected(t)
  <2>1. pc[t] \in Inside /\ servers' = servers
    BY <1>4 DEF NotConnected, Inside
  <2>2. CASE Release(t)
    BY <2>1, <2>2, AllKept, ReleaseKeeps
  <2>3. CASE Goto(t, "run") /\ UNCHANGED <<thread, op, using, at, locked>>
    BY <2>1, <2>3, GoesOn DEF Inside
  <2>. QED BY <1>4, <2>2, <2>3 DEF NotConnected
<1>5. CASE LoseConnection(t)
  <2>1. /\ pc[t] \in Inside /\ Goto(t, "run")
        /\ UNCHANGED <<thread, servers, op, using, at, locked>>
    BY <1>5 DEF LoseConnection, Inside
  <2>. QED BY <2>1, GoesOn DEF Inside
<1>. QED BY <1>1, <1>2, <1>3, <1>4, <1>5

LEMMA SecondHalfKeeps ==
  ASSUME NEW t \in Threads, IInv, SecondHalf(t)
  PROVE  IInv'
<1>1. /\ pc[t] = "command" /\ op[t] = "renmov" /\ at' = [at EXCEPT ![t] = 2]
      /\ pc' = [pc EXCEPT ![t] = "run"]
      /\ UNCHANGED <<thread, servers, op, using, locked>>
  BY DEF SecondHalf, Goto, registry
<1>2. ThreadTypes'
  <2>1. pc' \in [Threads -> Places]
    BY <1>1 DEF IInv, ThreadTypes, Places
  <2>2. at' \in [Threads -> {1, 2}]
    BY <1>1 DEF IInv, ThreadTypes
  <2>. QED BY <1>1, <2>1, <2>2 DEF IInv, ThreadTypes
<1>3. OthersStay(t) /\ KeepsServers(t)
  BY <1>1 DEF IInv, ThreadTypes, OthersStay, KeepsServers
<1>4. pc'[t] = "run" /\ at'[t] = 2 /\ ThreadInv(t)
  BY <1>1 DEF IInv, ThreadTypes
<1>5. Len(using[t]) = 2 /\ locked[t] <= Len(using[t]) /\ thread[t] = "running"
  BY <1>1, <1>4 DEF ThreadInv
<1>6. OwnPointers(t)'
  BY <1>1, <1>4 DEF ThreadInv, OwnPointers
<1>7. ThreadInv(t)'
  <2>1. ~Away(t)' /\ pc'[t] # "find" /\ pc'[t] # "lock" /\ pc'[t] # "new dialog"
    BY <1>4 DEF Away
  <2>2. at'[t] <= Len(using'[t]) /\ Len(using'[t]) <= 2
    BY <1>1, <1>4, <1>5
  <2>. QED BY <1>1, <1>5, <1>6, <2>1, <2>2 DEF ThreadInv
<1>. QED BY <1>2, <1>3, <1>7, OneThread

LEMMA CommandKeeps ==
  ASSUME NEW t \in Threads, IInv, AskOn(t) \/ Succeed(t) \/ Fail(t)
  PROVE  IInv'
<1>1. CASE AskOn(t)
  <2>1. /\ pc[t] \in Inside
        /\ UNCHANGED <<thread, servers, op, using, at, locked>>
        /\ Goto(t, "stopped") \/ UNCHANGED pc
    BY <1>1 DEF AskOn, Inside, registry
  <2>2. CASE Goto(t, "stopped")
    BY <2>1, <2>2, GoesOn DEF Inside
  <2>3. CASE UNCHANGED pc
    BY <2>1, <2>3, NothingMoves
  <2>. QED BY <2>1, <2>2, <2>3
<1>2. CASE Succeed(t)
  <2>1. Release(t) /\ (servers' = servers \ {Temp} \/ servers' = servers)
    BY <1>2 DEF Succeed, Finish, DropServers, registry
  <2>2. KeepsServers(t)
    BY <2>1, ThreadIds DEF KeepsServers
  <2>. QED BY <2>1, <2>2, ReleaseKeeps
<1>3. CASE Fail(t)
  <2>1. Release(t) /\ servers' = servers
    BY <1>3 DEF Fail, Finish, registry
  <2>. QED BY <2>1, AllKept, ReleaseKeeps
<1>. QED BY <1>1, <1>2, <1>3

LEMMA DialogKeeps ==
  ASSUME NEW t \in Threads, IInv,
         \/ LoadConfig(t) \/ ConfigLoaded(t)
         \/ OpenDialog(t) \/ ConfirmDialog(t) \/ CancelDialog(t)
  PROVE  IInv'
<1>1. CASE LoadConfig(t)
  <2>1. /\ pc[t] \in Inside /\ Goto(t, "loading")
        /\ UNCHANGED <<thread, servers, op, using, at, locked>>
    BY <1>1 DEF LoadConfig, Inside
  <2>. QED BY <2>1, GoesOn DEF Inside
<1>2. CASE OpenDialog(t)
  <2>1. /\ pc[t] \in Inside /\ Goto(t, "dialog")
        /\ UNCHANGED <<thread, servers, op, using, at, locked>>
    BY <1>2 DEF OpenDialog, Inside
  <2>. QED BY <2>1, GoesOn DEF Inside
<1>3. CASE ConfigLoaded(t) \/ ConfirmDialog(t) \/ CancelDialog(t)
  <2>1. Release(t) /\ servers' = servers
    BY <1>3 DEF ConfigLoaded, ConfirmDialog, CancelDialog
  <2>. QED BY <2>1, AllKept, ReleaseKeeps
<1>. QED BY <1>1, <1>2, <1>3

(* "<edit connections>": the dialog has no server in the map. *)
LEMMA NewConnectionKeeps ==
  ASSUME IInv, NewConnection
  PROVE  IInv'
<1>1. Main \in Threads
  BY ThreadIds
<1>2. /\ thread[Main] = "running" /\ pc[Main] = "idle"
      /\ op' = [op EXCEPT ![Main] = "new"]
      /\ pc' = [pc EXCEPT ![Main] = "new dialog"]
      /\ UNCHANGED <<thread, servers, using, at, locked>>
  BY DEF NewConnection, Idle, Goto
<1>3. ThreadTypes'
  <2>1. pc' \in [Threads -> Places]
    BY <1>2 DEF IInv, ThreadTypes, Places
  <2>2. op' \in [Threads -> Ops]
    BY <1>2 DEF IInv, ThreadTypes, Ops
  <2>. QED BY <1>2, <2>1, <2>2 DEF IInv, ThreadTypes
<1>4. OthersStay(Main) /\ KeepsServers(Main)
  BY <1>2 DEF IInv, ThreadTypes, OthersStay, KeepsServers
<1>5. pc'[Main] = "new dialog" /\ op'[Main] = "new" /\ ThreadInv(Main)
  BY <1>1, <1>2 DEF IInv, ThreadTypes
<1>6. OwnPointers(Main)'
  BY <1>2, <1>5 DEF ThreadInv, OwnPointers
<1>7. ThreadInv(Main)'
  <2>1. using[Main] = <<>> /\ at[Main] = 1 /\ locked[Main] = 0
    BY <1>2, <1>5 DEF ThreadInv, Away
  <2>. QED BY <1>2, <1>5, <1>6, <2>1 DEF ThreadInv, Away
<1>. QED BY <1>1, <1>3, <1>4, <1>7, OneThread

LEMMA OpenNewKeeps ==
  ASSUME NEW n \in Sessions, IInv, OpenNew(n)
  PROVE  IInv'
<1> DEFINE k == ServerName(n, Main)
<1>1. Main \in Threads
  BY ThreadIds
<1>2. /\ pc[Main] = "new dialog" /\ servers' = servers \cup {k}
      /\ using' = [using EXCEPT ![Main] = <<k>>]
      /\ pc' = [pc EXCEPT ![Main] = "run"]
      /\ UNCHANGED <<thread, op, at, locked>>
  BY Zenon DEF OpenNew, Goto
<1>3. k \in Key /\ k[2] = Main
  BY <1>1 DEF ServerName, Key
<1> HIDE DEF k
<1>4. <<k>> \in Seq(Key) /\ Len(<<k>>) = 1 /\ <<k>>[1] = k
  BY <1>3
<1>5. ThreadTypes'
  <2>1. pc' \in [Threads -> Places]
    BY <1>2 DEF IInv, ThreadTypes, Places
  <2>2. using' \in [Threads -> Seq(Key)]
    BY <1>2, <1>4 DEF IInv, ThreadTypes
  <2>. QED BY <1>2, <2>1, <2>2 DEF IInv, ThreadTypes
<1>6. OthersStay(Main) /\ KeepsServers(Main)
  BY <1>2 DEF IInv, ThreadTypes, OthersStay, KeepsServers
<1>7. /\ pc'[Main] = "run" /\ using'[Main] = <<k>> /\ k \in servers'
  BY <1>1, <1>2 DEF IInv, ThreadTypes
<1>8. /\ thread'[Main] = "running" /\ op'[Main] = "new" /\ at'[Main] = 1
      /\ locked'[Main] = 0
  BY <1>1, <1>2 DEF IInv, ThreadInv, Away
<1>9. OwnPointers(Main)'
  BY <1>3, <1>4, <1>7 DEF OwnPointers
<1>10. ThreadInv(Main)'
  <2>1. ~Away(Main)' /\ pc'[Main] # "find" /\ pc'[Main] # "lock"
        /\ pc'[Main] # "new dialog" /\ op'[Main] # "renmov"
    BY <1>7, <1>8 DEF Away
  <2>2. /\ at'[Main] <= Len(using'[Main]) /\ Len(using'[Main]) <= 2
        /\ locked'[Main] <= Len(using'[Main]) /\ thread'[Main] = "running"
    BY <1>4, <1>7, <1>8
  <2>. QED BY <1>9, <2>1, <2>2 DEF ThreadInv
<1>. QED BY <1>1, <1>5, <1>6, <1>10, OneThread

(* The main thread closes only its own sessions, between two functions.    *)
LEMMA CloseKeeps ==
  ASSUME IInv, CancelNew \/ NewNotConnected \/ \E n \in Sessions : Disconnect(n)
  PROVE  IInv'
<1>1. Main \in Threads
  BY ThreadIds
<1>2. CASE CancelNew
  <2>1. Release(Main) /\ servers' = servers \ {Temp}
    BY <1>2 DEF CancelNew, DropServers
  <2>2. KeepsServers(Main)
    BY <2>1, ThreadIds DEF KeepsServers
  <2>. QED BY <1>1, <2>1, <2>2, ReleaseKeeps
<1>3. CASE NewNotConnected
  <2>1. Release(Main) /\ servers' = servers \ {Current(Main), Temp}
    BY <1>3 DEF NewNotConnected, DropServers, Finish
  <2>2. Current(Main)[2] = Main
    BY <1>1, <1>3, CurrentIsOwn DEF NewNotConnected, Away
  <2>3. KeepsServers(Main)
    BY <2>1, <2>2, ThreadIds DEF KeepsServers
  <2>. QED BY <1>1, <2>1, <2>3, ReleaseKeeps
<1>4. ASSUME NEW n \in Sessions, Disconnect(n) PROVE IInv'
  <2>1. /\ pc[Main] = "idle" /\ servers' = servers \ {<<n, Main>>}
        /\ UNCHANGED <<thread, pc, op, using, at, locked>>
    BY <1>4 DEF Disconnect, DropServers, Idle
  <2>2. ThreadTypes' /\ OthersStay(Main)
    BY <2>1 DEF IInv, ThreadTypes, OthersStay
  <2>3. KeepsServers(Main)
    BY <2>1 DEF KeepsServers
  <2>4. ThreadInv(Main) /\ using[Main] = <<>>
    BY <1>1, <2>1 DEF IInv, ThreadInv, Away
  <2>5. OwnPointers(Main)'
    BY <2>1, <2>4 DEF OwnPointers
  <2>6. ThreadInv(Main)'
    BY <2>1, <2>4, <2>5 DEF ThreadInv, Away
  <2>. QED BY <1>1, <2>2, <2>3, <2>6, OneThread
<1>. QED BY <1>2, <1>3, <1>4

LEMMA NextIInv == IInv /\ [Next]_vars => IInv'
<1> SUFFICES ASSUME IInv, [Next]_vars PROVE IInv'
  OBVIOUS
<1>1. ASSUME NEW t \in Threads, Step(t) PROVE IInv'
  BY <1>1, FindSecondKeeps, LockKeeps, ConnectionKeeps, SecondHalfKeeps, CommandKeeps,
     DialogKeeps DEF Step, ProgressOfGet, ProgressOfPut
<1>2. ASSUME NEW t \in Threads, NEW n \in Sessions, NEW f \in Functions(t),
             Call(t, n, f)
      PROVE  IInv'
  BY <1>2, CallKeeps
<1>3. ASSUME NEW t \in Background, ThreadStarts(t) \/ ThreadEnds(t) \/ ThreadIsGone(t)
      PROVE  IInv'
  BY <1>3, ThreadsKeep
<1>4. CASE NewConnection \/ CancelNew \/ NewNotConnected
  BY <1>4, NewConnectionKeeps, CloseKeeps
<1>5. ASSUME NEW n \in Sessions, OpenNew(n) \/ Disconnect(n) PROVE IInv'
  BY <1>5, OpenNewKeeps, CloseKeeps
<1>6. CASE UNCHANGED vars
  BY <1>6, NothingMoves DEF vars, registry
<1>. QED BY <1>1, <1>2, <1>3, <1>4, <1>5, <1>6 DEF Next

-----------------------------------------------------------------------------
(* Threads, places, locks and pointers agree in every reachable state.     *)
THEOREM PointersInOrder == Spec => []IInv
BY InitIInv, NextIInv, PTL DEF Spec

LEMMA UsesAreOwn ==
  ASSUME IInv, NEW t \in Threads, NEW k \in Uses(t)
  PROVE  k \in servers /\ k[2] = t
<1>1. using[t] \in Seq(Key) /\ OwnPointers(t)
  BY DEF IInv, ThreadTypes, ThreadInv
<1>2. DOMAIN using[t] = 1 .. Len(using[t])
  BY <1>1
<1>. QED BY <1>1, <1>2 DEF Uses, OwnPointers

(* A server that a thread has a pointer to is not deleted, neither when    *)
(* findServer reaps nor when a session is closed or replaced.              *)
THEOREM ServersOutliveTheirUse == Spec => []NoUseAfterDelete
<1>1. IInv => NoUseAfterDelete
  BY UsesAreOwn DEF NoUseAfterDelete
<1>. QED BY <1>1, PointersInOrder, PTL

(* No two threads are in the same server, so that commands that run        *)
(* without its lock need none.                                             *)
THEOREM ServersAreNotShared == Spec => []OneThreadPerServer
<1>1. IInv => OneThreadPerServer
  BY UsesAreOwn DEF OneThreadPerServer
<1>. QED BY <1>1, PointersInOrder, PTL

(* No thread ever waits for a mutex that another one holds, whatever the   *)
(* order in which a copy between servers takes its two locks.              *)
THEOREM NobodyEverWaits == Spec => []NobodyWaits
<1>1. ASSUME IInv, NEW t \in Threads, NEW u \in Threads, WaitsFor(t, u) PROVE FALSE
  <2>1. t # u /\ pc[t] = "lock" /\ Wants(t) \in Held(u)
    BY <1>1 DEF WaitsFor
  <2>2. ThreadInv(t) /\ ThreadInv(u) /\ locked[t] \in Nat /\ locked[u] \in Nat
        /\ using[t] \in Seq(Key) /\ using[u] \in Seq(Key)
    BY <1>1 DEF IInv, ThreadTypes
  <2>3. Len(using[t]) \in Nat /\ Len(using[u]) \in Nat
    BY <2>2
  <2>4. locked[t] < Len(using[t]) /\ locked[u] <= Len(using[u])
    BY <2>1, <2>2 DEF ThreadInv
  <2>5. locked[t] + 1 \in 1 .. Len(using[t])
    BY <2>2, <2>3, <2>4
  <2>6. Wants(t)[2] = t
    BY <2>2, <2>5 DEF Wants, ThreadInv, OwnPointers
  <2>7. PICK i \in 1 .. locked[u] : Wants(t) = using[u][i]
    BY <2>1 DEF Held
  <2>8. i \in 1 .. Len(using[u])
    BY <2>2, <2>3, <2>4
  <2>9. Wants(t)[2] = u
    BY <2>2, <2>7, <2>8 DEF ThreadInv, OwnPointers
  <2>. QED BY <2>1, <2>6, <2>9
<1>2. IInv => NobodyWaits
  BY <1>1 DEF NobodyWaits
<1>. QED BY <1>2, PointersInOrder, PTL

-----------------------------------------------------------------------------
(* Types of the rest: configurations, Confs and the progress callback.     *)
ConfTypes ==
  /\ servers \subseteq Key /\ configured \subseteq Key
  /\ mapper \in [Instances -> {"none", "loaded", "up", "broken"}]
  /\ myCfg \in [Instances -> Config] /\ cfg \in [Instances -> Config]
  /\ DOMAIN owner \subseteq ConfIds
  /\ \A c \in DOMAIN owner : owner[c] \in Instances
  /\ misuse \subseteq {"freed", "foreign"}

ProgressTypes ==
  /\ lastPPR \in {0, 1}
  /\ cancelled \in [Threads -> BOOLEAN]
  /\ reply \in [Threads -> {"none", "OK", "ERROR", "USERABORT"}]

OwnerType(own) ==
  DOMAIN own \subseteq ConfIds /\ \A c \in DOMAIN own : own[c] \in Instances

LEMMA OwnerTypes ==
  ASSUME OwnerType(owner), NEW n \in ConfIds, NEW k \in Instances, NEW ks, NEW ids
  PROVE  OwnerType(Made(owner, n, k)) /\ OwnerType(WithoutInstances(ks))
           /\ OwnerType(Without(owner, ids))
BY DEF OwnerType, Made, WithoutInstances, Without

LEMMA Types ==
  /\ NoConf \in Config
  /\ \A c \in Config, n \in ConfIds : [c EXCEPT !.conf = n] \in Config
  /\ \A c \in Config : /\ [c EXCEPT !.conf = Null] \in Config
                       /\ [c EXCEPT !.copyMe = TRUE] \in Config
  /\ \A n \in ConfIds : [conf |-> n, copyMe |-> FALSE] \in Config
  /\ Fresh \subseteq ConfIds
  /\ Key \subseteq Instances /\ Temp \in Instances
BY DEF NoConf, Config, Fresh, Free, Instances

LEMMA WrongType ==
  ASSUME NEW own, NEW k, NEW c
  PROVE  Wrong(own, k, c) \subseteq {"freed", "foreign"}
BY DEF Wrong

LEMMA DllConfigureTypes ==
  ASSUME ConfTypes, NEW k \in Instances, NEW c \in Config, NEW own, OwnerType(own),
         DllConfigure(k, c, own)
  PROVE  /\ cfg' \in [Instances -> Config] /\ OwnerType(owner')
         /\ misuse' \subseteq {"freed", "foreign"}
<1>1. CASE c.conf = Null
  <2>1. PICK n \in Fresh : /\ cfg' = [cfg EXCEPT ![k] = [c EXCEPT !.conf = n]]
                           /\ owner' = Made(own, n, k) /\ misuse' = misuse
    BY <1>1, Zenon DEF DllConfigure
  <2>2. n \in ConfIds /\ [c EXCEPT !.conf = n] \in Config
    BY Types
  <2>3. OwnerType(owner')
    BY <2>1, <2>2 DEF OwnerType, Made
  <2>. QED BY <2>1, <2>2, <2>3 DEF ConfTypes
<1>2. CASE c.conf # Null /\ c.copyMe
  <2>1. PICK n \in Fresh :
          /\ cfg' = [cfg EXCEPT ![k] = [conf |-> n, copyMe |-> FALSE]]
          /\ owner' = Made(own, n, k)
          /\ misuse' = misuse \cup (Wrong(own, k, c.conf) \ {"foreign"})
    BY <1>2, Zenon DEF DllConfigure
  <2>2. n \in ConfIds /\ [conf |-> n, copyMe |-> FALSE] \in Config
    BY Types
  <2>3. OwnerType(owner')
    BY <2>1, <2>2 DEF OwnerType, Made
  <2>4. misuse' \subseteq {"freed", "foreign"}
    BY <2>1, WrongType DEF ConfTypes
  <2>. QED BY <2>1, <2>2, <2>3, <2>4 DEF ConfTypes
<1>3. CASE c.conf # Null /\ ~c.copyMe
  <2>1. /\ cfg' = [cfg EXCEPT ![k] = c] /\ owner' = own
        /\ misuse' = misuse \cup Wrong(own, k, c.conf)
    BY <1>3, Zenon DEF DllConfigure
  <2>. QED BY <2>1, WrongType DEF ConfTypes
<1>. QED BY <1>1, <1>2, <1>3 DEF DllConfigure

LEMMA DropServersTypes ==
  ASSUME ConfTypes, NEW ks, DropServers(ks)
  PROVE  ConfTypes'
<1>1. OwnerType(owner')
  BY DEF ConfTypes, DropServers, OwnerType, WithoutInstances, Without
<1>2. mapper' \in [Instances -> {"none", "loaded", "up", "broken"}]
  BY DEF ConfTypes, DropServers, Drop
<1>3. myCfg' \in [Instances -> Config] /\ cfg' \in [Instances -> Config]
  BY Types DEF ConfTypes, DropServers, Drop
<1>. QED BY <1>1, <1>2, <1>3 DEF ConfTypes, DropServers, OwnerType

LEMMA FindServerTypes ==
  ASSUME ConfTypes, NEW n \in Sessions, NEW t \in Threads,
         FindServer(ServerName(n, t), n, t)
  PROVE  ConfTypes'
<1> DEFINE k == ServerName(n, t)
<1>1. k \in Key /\ k \in Instances /\ <<n, Main>> \in Instances
  BY ThreadIds, Types DEF ServerName, Key
<1>2. PICK dead \in Reapable, inherits \in BOOLEAN :
        /\ servers' = (servers \ dead) \cup {k}
        /\ configured' = (configured \ dead) \cup { j \in {k} : inherits }
        /\ mapper' = Drop(dead, mapper, "none")
        /\ myCfg' = [Drop(dead, myCfg, NoConf) EXCEPT
                       ![k] = IF inherits THEN myCfg[<<n, Main>>] ELSE @]
        /\ cfg' = Drop(dead, cfg, NoConf)
        /\ owner' = WithoutInstances(dead)
        /\ UNCHANGED misuse
  BY Zenon DEF FindServer
<1> HIDE DEF k
<1>3. OwnerType(owner')
  BY <1>2 DEF ConfTypes, OwnerType, WithoutInstances, Without
<1>4. mapper' \in [Instances -> {"none", "loaded", "up", "broken"}]
  BY <1>2 DEF ConfTypes, Drop
<1>5. cfg' \in [Instances -> Config] /\ Drop(dead, myCfg, NoConf) \in [Instances -> Config]
  BY <1>2, Types DEF ConfTypes, Drop
<1>6. myCfg' \in [Instances -> Config]
  BY <1>1, <1>2, <1>5 DEF ConfTypes
<1>. QED BY <1>1, <1>2, <1>3, <1>4, <1>5, <1>6 DEF ConfTypes, OwnerType

Registered == <<servers, mapper, configured, myCfg, cfg, owner, misuse>>

LEMMA RegistryStays ==
  ASSUME ConfTypes, UNCHANGED Registered
  PROVE  ConfTypes'
BY DEF ConfTypes, Registered

(* The actions that change what the servers are configured to. *)
LEMMA ConnectionTypes ==
  ASSUME NEW t \in Threads, IInv, ConfTypes,
         Connect(t) \/ Connected(t) \/ NotConnected(t) \/ LoseConnection(t)
  PROVE  ConfTypes'
<1> DEFINE k == Current(t)
<1>1. pc[t] \in Inside
  BY DEF Connect, Connected, NotConnected, LoseConnection, Inside
<1>2. k \in Key /\ k \in Instances
  BY <1>1, CurrentIsOwn, Types DEF Away, Inside
<1> HIDE DEF k
<1>3. CASE Connect(t)
  <2> DEFINE kept == IF mapper[k] = "none" THEN myCfg[k] ELSE Forget(myCfg[k])
             c == IF k \in configured THEN kept ELSE NoConf
  <2>1. /\ DllConfigure(k, c, WithoutInstances({k}))
        /\ mapper' = [mapper EXCEPT ![k] = "loaded"]
        /\ myCfg' = [myCfg EXCEPT ![k] = kept]
        /\ UNCHANGED <<servers, configured>>
    BY <1>3, Zenon DEF Connect, k
  <2>2. myCfg[k] \in Config /\ NoConf \in Config
    BY <1>2, Types DEF ConfTypes
  <2>3. Forget(myCfg[k]) \in Config
    BY <2>2, Types DEF Forget
  <2>4. kept \in Config /\ c \in Config
    BY <2>2, <2>3
  <2>5. OwnerType(WithoutInstances({k}))
    BY DEF ConfTypes, OwnerType, WithoutInstances, Without
  <2> HIDE DEF kept, c
  <2>6. /\ cfg' \in [Instances -> Config] /\ OwnerType(owner')
        /\ misuse' \subseteq {"freed", "foreign"}
    BY <1>2, <2>1, <2>4, <2>5, DllConfigureTypes
  <2>. QED BY <2>1, <2>4, <2>6 DEF ConfTypes, OwnerType
<1>4. CASE Connected(t)
  <2>1. /\ mapper' = [mapper EXCEPT ![k] = "up"] /\ configured' = configured \cup {k}
        /\ myCfg' = [myCfg EXCEPT ![k] = cfg[k]]
        /\ UNCHANGED <<servers, cfg, owner, misuse>>
    BY <1>4 DEF Connected, k
  <2>. QED BY <1>2, <2>1 DEF ConfTypes
<1>5. CASE NotConnected(t)
  <2>1. /\ mapper' = [mapper EXCEPT ![k] = "none"] /\ cfg' = [cfg EXCEPT ![k] = NoConf]
        /\ owner' = WithoutInstances({k})
        /\ UNCHANGED <<servers, configured, myCfg, misuse>>
    BY <1>5 DEF NotConnected, k
  <2>2. OwnerType(owner')
    BY <2>1 DEF ConfTypes, OwnerType, WithoutInstances, Without
  <2>. QED BY <2>1, <2>2, Types DEF ConfTypes, OwnerType
<1>6. CASE LoseConnection(t)
  <2>1. /\ mapper' = [mapper EXCEPT ![k] = "broken"]
        /\ UNCHANGED <<servers, configured, myCfg, cfg, owner, misuse>>
    BY <1>6 DEF LoseConnection, k
  <2>. QED BY <2>1 DEF ConfTypes
<1>. QED BY <1>3, <1>4, <1>5, <1>6

LEMMA DialogTypes ==
  ASSUME NEW t \in Threads, IInv, ConfTypes,
         \/ LoadConfig(t) \/ ConfigLoaded(t)
         \/ OpenDialog(t) \/ ConfirmDialog(t) \/ CancelDialog(t)
  PROVE  ConfTypes'
<1> DEFINE k == Current(t)
<1>1. pc[t] \in Inside
  BY DEF LoadConfig, ConfigLoaded, OpenDialog, ConfirmDialog, CancelDialog, Inside
<1>2. k \in Key /\ k \in Instances
  BY <1>1, CurrentIsOwn, Types DEF Away, Inside
<1>3. OwnerType(owner) /\ myCfg[k] \in Config /\ cfg[k] \in Config
  BY <1>2 DEF ConfTypes, OwnerType
<1> HIDE DEF k
<1>4. CASE LoadConfig(t)
  <2>1. /\ IsLoaded(k) /\ configured' = configured \cup {k} /\ UNCHANGED servers
        /\ \/ /\ \E n \in Fresh : /\ myCfg' = [myCfg EXCEPT ![k].conf = n]
                                  /\ owner' = Made(owner, n, k)
              /\ UNCHANGED misuse
           \/ /\ misuse' = misuse \cup Wrong(owner, k, myCfg[k].conf)
              /\ UNCHANGED <<myCfg, owner>>
    BY <1>4, Zenon DEF LoadConfig, k
  <2>2. /\ mapper' \in [Instances -> {"none", "loaded", "up", "broken"}]
        /\ cfg' \in [Instances -> Config]
    <3>1. mapper' = [mapper EXCEPT ![k] = IF @ = "none" THEN "loaded" ELSE @]
      BY <2>1 DEF IsLoaded
    <3>2. \/ cfg' = cfg \/ cfg' = [cfg EXCEPT ![k] = myCfg[k]]
          \/ cfg' = [cfg EXCEPT ![k] = NoConf]
      BY <2>1 DEF IsLoaded
    <3>. QED BY <1>3, <3>1, <3>2, Types DEF ConfTypes
  <2>3. ASSUME NEW n \in Fresh, myCfg' = [myCfg EXCEPT ![k].conf = n],
               owner' = Made(owner, n, k)
        PROVE  myCfg' \in [Instances -> Config] /\ OwnerType(owner')
    <3>1. n \in ConfIds /\ [myCfg[k] EXCEPT !.conf = n] \in Config
      BY <1>3, Types
    <3>. QED BY <1>2, <1>3, <2>3, <3>1, OwnerTypes DEF ConfTypes
  <2>4. CASE misuse' = misuse \cup Wrong(owner, k, myCfg[k].conf)
                /\ UNCHANGED <<myCfg, owner>>
    BY <1>2, <2>1, <2>2, <2>4, WrongType DEF ConfTypes
  <2>5. CASE (\E n \in Fresh : /\ myCfg' = [myCfg EXCEPT ![k].conf = n]
                               /\ owner' = Made(owner, n, k)) /\ UNCHANGED misuse
    BY <1>2, <2>1, <2>2, <2>3, <2>5 DEF ConfTypes, OwnerType
  <2>. QED BY <2>1, <2>4, <2>5
<1>5. CASE ConfigLoaded(t)
  <2>1. /\ FreeConf(k, myCfg[k].conf) /\ myCfg' = [myCfg EXCEPT ![k].conf = Null]
        /\ UNCHANGED <<servers, mapper, configured, cfg>>
    BY <1>5, Zenon DEF ConfigLoaded, k
  <2>2. OwnerType(owner') /\ misuse' \subseteq {"freed", "foreign"}
    BY <1>3, <2>1, WrongType DEF ConfTypes, FreeConf, OwnerType, Without
  <2>3. [myCfg[k] EXCEPT !.conf = Null] \in Config
    BY <1>3, Types
  <2>. QED BY <2>1, <2>2, <2>3 DEF ConfTypes, OwnerType
<1>6. CASE OpenDialog(t)
  <2> DEFINE c == IF mapper[k] # "none" THEN cfg[k]
                  ELSE IF k \in configured THEN myCfg[k] ELSE NoConf
  <2>1. /\ mapper' = [mapper EXCEPT ![k] = IF @ = "none" THEN "loaded" ELSE @]
        /\ DllConfigure(k, c, owner) /\ UNCHANGED <<servers, configured, myCfg>>
    BY <1>6, Zenon DEF OpenDialog, k
  <2>2. c \in Config
    BY <1>3, Types
  <2> HIDE DEF c
  <2>3. /\ cfg' \in [Instances -> Config] /\ OwnerType(owner')
        /\ misuse' \subseteq {"freed", "foreign"}
    BY <1>2, <1>3, <2>1, <2>2, DllConfigureTypes
  <2>. QED BY <2>1, <2>3 DEF ConfTypes, OwnerType
<1>7. CASE ConfirmDialog(t)
  <2>1. /\ configured' = configured \cup {k} /\ myCfg' = [myCfg EXCEPT ![k] = cfg[k]]
        /\ UNCHANGED <<servers, mapper, cfg, owner, misuse>>
    BY <1>7 DEF ConfirmDialog, k
  <2>. QED BY <1>2, <1>3, <2>1 DEF ConfTypes
<1>8. CASE CancelDialog(t)
  <2>1. /\ FreeConf(k, cfg[k].conf) /\ cfg' = [cfg EXCEPT ![k].conf = Null]
        /\ UNCHANGED <<servers, mapper, configured, myCfg>>
    BY <1>8, Zenon DEF CancelDialog, k
  <2>2. OwnerType(owner') /\ misuse' \subseteq {"freed", "foreign"}
    BY <1>3, <2>1, WrongType DEF ConfTypes, FreeConf, OwnerType, Without
  <2>3. [cfg[k] EXCEPT !.conf = Null] \in Config
    BY <1>3, Types
  <2>. QED BY <2>1, <2>2, <2>3 DEF ConfTypes, OwnerType
<1>. QED BY <1>4, <1>5, <1>6, <1>7, <1>8

LEMMA NewConnectionTypes ==
  ASSUME IInv, ConfTypes,
         NewConnection \/ CancelNew \/ NewNotConnected \/ \E n \in Sessions : OpenNew(n)
  PROVE  ConfTypes'
<1>1. CASE NewConnection
  <2>1. /\ mapper' = [mapper EXCEPT ![Temp] = "loaded"]
        /\ DllConfigure(Temp, NoConf, owner) /\ UNCHANGED <<servers, configured, myCfg>>
    BY <1>1 DEF NewConnection
  <2>2. OwnerType(owner) /\ NoConf \in Config /\ Temp \in Instances
    BY Types DEF ConfTypes, OwnerType
  <2>3. /\ cfg' \in [Instances -> Config] /\ OwnerType(owner')
        /\ misuse' \subseteq {"freed", "foreign"}
    BY <2>1, <2>2, DllConfigureTypes
  <2>. QED BY <2>1, <2>3 DEF ConfTypes, OwnerType
<1>2. CASE CancelNew \/ NewNotConnected
  BY <1>2, DropServersTypes DEF CancelNew, NewNotConnected
<1>3. ASSUME NEW n \in Sessions, OpenNew(n) PROVE ConfTypes'
  <2> DEFINE k == ServerName(n, Main)
  <2>1. k \in Key /\ k \in Instances
    BY ThreadIds, Types DEF ServerName, Key
  <2>2. /\ servers' = servers \cup {k} /\ configured' = configured \cup {k}
        /\ mapper' = [mapper EXCEPT ![k] = "none"]
        /\ myCfg' = [myCfg EXCEPT ![k] = Offered(cfg[Temp])]
        /\ cfg' = [cfg EXCEPT ![k] = NoConf]
        /\ owner' = WithoutInstances({k}) /\ UNCHANGED misuse
    BY <1>3, Zenon DEF OpenNew
  <2> HIDE DEF k
  <2>3. Offered(cfg[Temp]) \in Config /\ NoConf \in Config
    BY Types DEF ConfTypes, Offered
  <2>4. OwnerType(owner')
    BY <2>2 DEF ConfTypes, OwnerType, WithoutInstances, Without
  <2>. QED BY <2>1, <2>2, <2>3, <2>4 DEF ConfTypes, OwnerType
<1>. QED BY <1>1, <1>2, <1>3

(* What an action of thread t does with the answers of the user. *)
LEMMA AskedType ==
  ASSUME NEW t, NEW stop, Asked(t, stop)
  PROVE  lastPPR' \in {0, 1}
BY DEF Asked, Keep

LEMMA FailureType == Failure \in {"ERROR", "USERABORT"} /\ Failure' \in {"ERROR", "USERABORT"}
BY DEF Failure

LEMMA FinishType ==
  ASSUME ProgressTypes, NEW t \in Threads, NEW r \in {"none", "OK", "ERROR", "USERABORT"},
         reply' = [reply EXCEPT ![t] = r]
  PROVE  reply' \in [Threads -> {"none", "OK", "ERROR", "USERABORT"}]
BY DEF ProgressTypes

LEMMA ProgressKept == ProgressTypes /\ UNCHANGED progress => ProgressTypes'
BY DEF ProgressTypes, progress

LEMMA StepProgressTypes ==
  ASSUME NEW t \in Threads, ProgressTypes, Step(t)
  PROVE  ProgressTypes'
<1>1. CASE \/ \E n \in Sessions : FindSecond(t, n)
           \/ Lock(t) \/ IsConnected(t) \/ Connect(t) \/ LoseConnection(t)
           \/ SecondHalf(t) \/ LoadConfig(t) \/ ConfigLoaded(t) \/ OpenDialog(t)
           \/ ConfirmDialog(t) \/ CancelDialog(t)
  <2>1. UNCHANGED progress
    BY <1>1, Zenon DEF FindSecond, Lock, IsConnected, Connect, LoseConnection,
         SecondHalf, LoadConfig, ConfigLoaded, OpenDialog, ConfirmDialog, CancelDialog
  <2>. QED BY <2>1, ProgressKept
<1>2. CASE Connected(t)
  BY <1>2, AskedType DEF Connected, ProgressTypes
<1>3. CASE NotConnected(t)
  <2>1. lastPPR' \in {0, 1} /\ UNCHANGED cancelled
    BY <1>3, AskedType DEF NotConnected
  <2>2. reply' = reply \/ reply' = [reply EXCEPT ![t] = Failure']
    BY <1>3, Zenon DEF NotConnected
  <2>. QED BY <2>1, <2>2, FailureType, FinishType DEF ProgressTypes
<1>4. CASE AskOn(t)
  <2>1. PICK stop \in BOOLEAN : /\ Asked(t, stop)
                               /\ cancelled' = [cancelled EXCEPT ![t] = stop]
    BY <1>4 DEF AskOn
  <2>. QED BY <1>4, <2>1, AskedType DEF AskOn, ProgressTypes
<1>5. CASE Succeed(t)
  BY <1>5, FinishType DEF Succeed, Finish, ProgressTypes
<1>6. CASE Fail(t)
  BY <1>6, FinishType, FailureType DEF Fail, Finish, ProgressTypes
<1>. QED BY <1>1, <1>2, <1>3, <1>4, <1>5, <1>6 DEF Step, ProgressOfGet, ProgressOfPut

LEMMA NextProgressTypes == ProgressTypes /\ [Next]_vars => ProgressTypes'
<1> SUFFICES ASSUME ProgressTypes, [Next]_vars PROVE ProgressTypes'
  OBVIOUS
<1>1. ASSUME NEW t \in Threads, Step(t) PROVE ProgressTypes'
  BY <1>1, StepProgressTypes
<1>2. ASSUME NEW t \in Threads, NEW n \in Sessions, NEW f \in Functions(t), Call(t, n, f)
      PROVE  ProgressTypes'
  BY <1>2, FinishType DEF Call, ProgressTypes
<1>3. ASSUME NEW t \in Background, ThreadStarts(t) \/ ThreadEnds(t) \/ ThreadIsGone(t)
      PROVE  ProgressTypes'
  BY <1>3, ProgressKept DEF ThreadStarts, ThreadEnds, ThreadIsGone
<1>4. CASE NewConnection
  BY <1>4, ThreadIds DEF NewConnection, ProgressTypes
<1>5. CASE CancelNew
  BY <1>5, ProgressKept DEF CancelNew
<1>6. CASE NewNotConnected
  BY <1>6, ThreadIds, AskedType, FinishType DEF NewNotConnected, Finish, ProgressTypes
<1>7. ASSUME NEW n \in Sessions, OpenNew(n) \/ Disconnect(n) PROVE ProgressTypes'
  <2>1. UNCHANGED progress
    BY <1>7, Zenon DEF OpenNew, Disconnect
  <2>. QED BY <2>1, ProgressKept
<1>8. CASE UNCHANGED vars
  BY <1>8, ProgressKept DEF vars
<1>. QED BY <1>1, <1>2, <1>3, <1>4, <1>5, <1>6, <1>7, <1>8 DEF Next

LEMMA NextConfTypes == IInv /\ ConfTypes /\ [Next]_vars => ConfTypes'
<1> SUFFICES ASSUME IInv, ConfTypes, [Next]_vars PROVE ConfTypes'
  OBVIOUS
<1>1. ASSUME NEW t \in Threads, Step(t) PROVE ConfTypes'
  <2>1. ASSUME NEW n \in Sessions, FindSecond(t, n) PROVE ConfTypes'
    BY <2>1, FindServerTypes, Zenon DEF FindSecond
  <2>2. CASE Lock(t) \/ IsConnected(t) \/ AskOn(t) \/ SecondHalf(t) \/ Fail(t)
    <3>1. UNCHANGED Registered
      BY <2>2, Zenon DEF Lock, IsConnected, AskOn, SecondHalf, Fail, registry, Registered
    <3>. QED BY <3>1, RegistryStays
  <2>3. CASE Succeed(t)
    <3>1. DropServers({Temp}) \/ UNCHANGED Registered
      BY <2>3, Zenon DEF Succeed, registry, Registered
    <3>. QED BY <3>1, RegistryStays, DropServersTypes
  <2>. QED BY <1>1, <2>1, <2>2, <2>3, ConnectionTypes, DialogTypes
         DEF Step, ProgressOfGet, ProgressOfPut
<1>2. ASSUME NEW t \in Threads, NEW n \in Sessions, NEW f \in Functions(t), Call(t, n, f)
      PROVE  ConfTypes'
  <2>1. FindServer(ServerName(n, t), n, t)
    BY <1>2, Zenon DEF Call
  <2>. QED BY <2>1, FindServerTypes
<1>3. ASSUME NEW t \in Background, ThreadStarts(t) \/ ThreadEnds(t) \/ ThreadIsGone(t)
      PROVE  ConfTypes'
  BY <1>3, RegistryStays DEF ThreadStarts, ThreadEnds, ThreadIsGone, registry, Registered
<1>4. CASE NewConnection \/ CancelNew \/ NewNotConnected
  BY <1>4, NewConnectionTypes
<1>5. ASSUME NEW n \in Sessions, OpenNew(n) \/ Disconnect(n) PROVE ConfTypes'
  <2>1. CASE OpenNew(n)
    BY <2>1, NewConnectionTypes
  <2>2. CASE Disconnect(n)
    BY <2>2, DropServersTypes DEF Disconnect
  <2>. QED BY <1>5, <2>1, <2>2
<1>6. CASE UNCHANGED vars
  BY <1>6, RegistryStays DEF vars, registry, Registered
<1>. QED BY <1>1, <1>2, <1>3, <1>4, <1>5, <1>6 DEF Next

(* The user's habits never change. *)
LEMMA HabitsStay == [Next]_vars => UNCHANGED habits
<1> SUFFICES ASSUME [Next]_vars PROVE habits' = habits
  OBVIOUS
<1>1. ASSUME NEW t \in Threads, Step(t) PROVE habits' = habits
  BY <1>1, Zenon DEF Step, FindSecond, Lock, IsConnected, Connect, Connected, NotConnected,
       ProgressOfGet, ProgressOfPut, AskOn, LoseConnection, SecondHalf, Succeed, Fail, LoadConfig, ConfigLoaded,
       OpenDialog, ConfirmDialog, CancelDialog, Release, Finish
<1>2. ASSUME NEW t \in Threads, NEW n \in Sessions, NEW f \in Functions(t), Call(t, n, f)
      PROVE  habits' = habits
  BY <1>2 DEF Call
<1>3. ASSUME NEW t \in Background, ThreadStarts(t) \/ ThreadEnds(t) \/ ThreadIsGone(t)
      PROVE  habits' = habits
  BY <1>3 DEF ThreadStarts, ThreadEnds, ThreadIsGone
<1>4. CASE NewConnection \/ CancelNew \/ NewNotConnected
  BY <1>4 DEF NewConnection, CancelNew, NewNotConnected, Release, Finish
<1>5. ASSUME NEW n \in Sessions, OpenNew(n) \/ Disconnect(n) PROVE habits' = habits
  BY <1>5, Zenon DEF OpenNew, Disconnect
<1>. QED BY <1>1, <1>2, <1>3, <1>4, <1>5 DEF Next, vars

(* Type correctness, for any number of threads, sessions and Confs. *)
THEOREM TypeCorrect == Spec => []TypeOK
<1>1. Init => ConfTypes /\ ProgressTypes /\ habits \in HabitSets
  BY Types DEF Init, ConfTypes, ProgressTypes
<1>2. IInv /\ ConfTypes /\ ProgressTypes /\ habits \in HabitSets => TypeOK
  <2> SUFFICES ASSUME IInv, ConfTypes, ProgressTypes, habits \in HabitSets PROVE TypeOK
    OBVIOUS
  <2>1. locked \in [Threads -> 0 .. 2]
    <3>1. ASSUME NEW t \in Threads PROVE locked[t] \in 0 .. 2
      <4>1. ThreadInv(t) /\ locked[t] \in Nat /\ using[t] \in Seq(Key)
        BY DEF IInv, ThreadTypes
      <4>2. Len(using[t]) \in Nat
        BY <4>1
      <4>3. locked[t] <= Len(using[t]) /\ Len(using[t]) <= 2
        BY <4>1 DEF ThreadInv
      <4>. QED BY <4>1, <4>2, <4>3
    <3>. QED BY <3>1 DEF IInv, ThreadTypes
  <2>. QED BY <2>1 DEF IInv, ThreadTypes, ConfTypes, ProgressTypes, TypeOK, Places, Ops
<1>3. IInv /\ (ConfTypes /\ ProgressTypes /\ habits \in HabitSets) /\ [Next]_vars
        => (ConfTypes /\ ProgressTypes /\ habits \in HabitSets)'
  BY NextConfTypes, NextProgressTypes, HabitsStay
<1>. QED BY <1>1, <1>2, <1>3, PointersInOrder, PTL DEF Spec

-----------------------------------------------------------------------------
(* Cancelling.  Without background copies only the main thread runs; once  *)
(* the user has cancelled its copy, every answer is to stop, so the copy   *)
(* gets no further than to a new connection.                               *)
Seen == habits \cap {"background", "late"} = {}

BackgroundIsGone == \A t \in Background : thread[t] = "gone" /\ cancelled[t] = FALSE

MainIsCancelled ==
  cancelled[Main] /\ pc[Main] # "idle" =>
    /\ lastPPR = 1 /\ op[Main] \in {"get", "put", "renmov"}
    /\ pc[Main] \in {"stopped", "run", "connecting"}
    /\ pc[Main] = "run" => mapper[Current(Main)] # "up"

CancelInv == Seen => BackgroundIsGone /\ MainIsCancelled

LEMMA OnlyMainRuns ==
  ASSUME Seen, CancelInv, NEW t \in Threads, thread[t] = "running"
  PROVE  t = Main
BY DEF CancelInv, BackgroundIsGone, Threads

(* A user who has cancelled says so at every question, and is heard.       *)
LEMMA AskedWhenSeen ==
  ASSUME Seen, NEW t, NEW stop \in BOOLEAN, Asked(t, stop)
  PROVE  (cancelled[t] => stop) /\ (stop => lastPPR' = 1)
<1>1. PICK first \in {0, 1}, second \in {0, 1} :
        /\ stop = (first = 1 \/ second = 1)
        /\ first # second => "late" \in habits
        /\ cancelled[t] => first = 1
        /\ lastPPR' = first
  BY DEF Asked, Keep
<1>2. first = second
  BY <1>1 DEF Seen
<1>. QED BY <1>1, <1>2

LEMMA RunningThread ==
  ASSUME NEW t \in Threads, IInv, pc[t] # "idle"
  PROVE  thread[t] = "running"
BY DEF IInv, ThreadInv

LEMMA StepIsInside ==
  ASSUME NEW t \in Threads, Step(t)
  PROVE  pc[t] # "idle"
BY Zenon DEF Step, FindSecond, Lock, IsConnected, Connect, Connected, NotConnected,
     ProgressOfGet, ProgressOfPut, AskOn, LoseConnection, SecondHalf, Succeed, Fail,
     LoadConfig, ConfigLoaded, OpenDialog, ConfirmDialog, CancelDialog

(* What a cancelled function may still do.                                 *)
LEMMA CancelledSteps ==
  ASSUME Seen, MainIsCancelled, cancelled[Main], Step(Main)
  PROVE  /\ pc[Main] # "idle"
         /\ Connect(Main) \/ NotConnected(Main) \/ AskOn(Main) \/ LoseConnection(Main)
              \/ Succeed(Main) \/ Fail(Main)
<1>1. pc[Main] # "idle"
  BY ThreadIds, StepIsInside
<1>2. /\ op[Main] \in {"get", "put", "renmov"}
      /\ pc[Main] \in {"stopped", "run", "connecting"}
      /\ pc[Main] = "run" => mapper[Current(Main)] # "up"
  BY <1>1 DEF MainIsCancelled
<1>3. \A n \in Sessions : ~FindSecond(Main, n)
  BY <1>2 DEF FindSecond
<1>4. ~Lock(Main) /\ ~IsConnected(Main) /\ ~SecondHalf(Main)
  BY <1>2 DEF Lock, IsConnected, SecondHalf
<1>5. ~LoadConfig(Main) /\ ~ConfigLoaded(Main)
  BY <1>2 DEF LoadConfig, ConfigLoaded
<1>6. ~OpenDialog(Main) /\ ~ConfirmDialog(Main) /\ ~CancelDialog(Main)
  BY <1>2 DEF OpenDialog, ConfirmDialog, CancelDialog
<1>7. ~Connected(Main)
  BY AskedWhenSeen DEF Connected
<1>. QED BY <1>1, <1>3, <1>4, <1>5, <1>6, <1>7 DEF Step, ProgressOfGet, ProgressOfPut

(* The types that the proofs below rest on.                                *)
CancelTypes ==
  /\ pc \in [Threads -> Places] /\ cancelled \in [Threads -> BOOLEAN]
  /\ reply \in [Threads -> {"none", "OK", "ERROR", "USERABORT"}]
  /\ op \in [Threads -> Ops] /\ using \in [Threads -> Seq(Key)]
  /\ at \in [Threads -> {1, 2}]
  /\ mapper \in [Instances -> {"none", "loaded", "up", "broken"}]

LEMMA CancelTyped == IInv /\ ConfTypes /\ ProgressTypes => CancelTypes
BY DEF IInv, ThreadTypes, ProgressTypes, ConfTypes, CancelTypes

(* A step leaves it to the main thread alone whether it is cancelled.      *)
LEMMA OthersNotCancelled ==
  ASSUME BackgroundIsGone, CancelTypes, NEW stop \in BOOLEAN, UNCHANGED thread,
         cancelled' = [cancelled EXCEPT ![Main] = stop]
  PROVE  BackgroundIsGone' /\ cancelled'[Main] = stop
BY ThreadIds, RegistryAssumption DEF BackgroundIsGone, CancelTypes

(* A cancelled copy that connects again gets no further than that.         *)
LEMMA CancelledConnects ==
  ASSUME IInv, Seen, CancelTypes, MainIsCancelled, cancelled[Main], pc[Main] # "idle",
         Connect(Main) \/ NotConnected(Main) \/ LoseConnection(Main)
  PROVE  MainIsCancelled'
<1> USE ThreadIds DEF CancelTypes
<1>1. CASE Connect(Main)
  <2>1. /\ pc' = [pc EXCEPT ![Main] = "connecting"]
        /\ UNCHANGED <<op, lastPPR>>
    BY <1>1, Zenon DEF Connect, Goto, progress
  <2>. QED BY <2>1 DEF MainIsCancelled
<1>2. CASE NotConnected(Main)
  <2>1. lastPPR' = 1
    BY <1>2, AskedWhenSeen DEF NotConnected
  <2>2. CASE Release(Main)
    BY <2>2 DEF Release, Goto, MainIsCancelled
  <2>3. CASE Goto(Main, "run") /\ UNCHANGED <<op, using, at>>
    <3>1. Current(Main)' = Current(Main)
      BY <2>3 DEF Current
    <3>2. mapper' = [mapper EXCEPT ![Current(Main)] = "none"]
      BY <1>2 DEF NotConnected
    <3>3. Current(Main) \in Instances
      BY <1>2, CurrentIsOwn, Types DEF NotConnected, Away
    <3>. QED BY <2>1, <2>3, <3>1, <3>2, <3>3 DEF Goto, MainIsCancelled
  <2>. QED BY <1>2, <2>2, <2>3 DEF NotConnected
<1>3. CASE LoseConnection(Main)
  <2>1. /\ pc' = [pc EXCEPT ![Main] = "run"]
        /\ mapper' = [mapper EXCEPT ![Current(Main)] = "broken"]
        /\ UNCHANGED <<op, using, at, lastPPR>>
        /\ pc[Main] \in {"command", "stopped"}
    BY <1>3, Zenon DEF LoseConnection, Goto, progress
  <2>2. Current(Main)' = Current(Main) /\ Current(Main) \in Instances
    BY <2>1, CurrentIsOwn, Types DEF Current, Away
  <2>. QED BY <2>1, <2>2 DEF MainIsCancelled
<1>. QED BY <1>1, <1>2, <1>3

(* It goes on asking the user, who says the same every time.               *)
LEMMA AskingCancels ==
  ASSUME Seen, CancelTypes, BackgroundIsGone, MainIsCancelled, AskOn(Main),
         op[Main] \in {"get", "put", "renmov"}
  PROVE  (BackgroundIsGone /\ MainIsCancelled)' /\ pc'[Main] # "idle"
<1> USE ThreadIds DEF CancelTypes
<1>1. PICK stop \in BOOLEAN :
        /\ Asked(Main, stop) /\ cancelled' = [cancelled EXCEPT ![Main] = stop]
        /\ IF stop THEN Goto(Main, "stopped") ELSE UNCHANGED pc
  BY DEF AskOn
<1>2. UNCHANGED <<thread, op>> /\ pc[Main] # "idle"
  BY Zenon DEF AskOn
<1>3. BackgroundIsGone' /\ cancelled'[Main] = stop
  BY <1>1, <1>2, OthersNotCancelled
<1>4. CASE stop
  <2>1. pc'[Main] = "stopped" /\ lastPPR' = 1
    BY <1>1, <1>4, AskedWhenSeen DEF Goto
  <2>. QED BY <1>2, <1>3, <2>1 DEF MainIsCancelled
<1>5. CASE ~stop
  BY <1>1, <1>2, <1>3, <1>5 DEF MainIsCancelled
<1>. QED BY <1>4, <1>5

LEMMA NextCancel == IInv /\ ConfTypes /\ ProgressTypes /\ CancelInv /\ [Next]_vars => CancelInv'
<1> SUFFICES ASSUME IInv, ConfTypes, ProgressTypes, CancelInv, [Next]_vars, Seen'
             PROVE  (BackgroundIsGone /\ MainIsCancelled)'
  BY DEF CancelInv
<1> USE ThreadIds
<1>1. Seen /\ BackgroundIsGone /\ MainIsCancelled
  BY HabitsStay DEF Seen, CancelInv
<1>2. CancelTypes
  BY CancelTyped
<1>3. ASSUME UNCHANGED <<thread, cancelled>>,
             cancelled[Main] => pc'[Main] = "idle" \/ MainIsCancelled'
      PROVE  (BackgroundIsGone /\ MainIsCancelled)'
  BY <1>1, <1>3 DEF BackgroundIsGone, MainIsCancelled
<1>4. ASSUME NEW t \in Threads, Step(t) PROVE (BackgroundIsGone /\ MainIsCancelled)'
  <2>1. t = Main /\ pc[Main] # "idle"
    <3>1. pc[t] # "idle"
      BY <1>4, StepIsInside
    <3>. QED BY <1>1, <3>1, OnlyMainRuns, RunningThread
  <2>2. CASE ProgressOfGet(t) \/ ProgressOfPut(t)
    <3>1. AskOn(Main) /\ op[Main] \in {"get", "put", "renmov"}
      BY <2>1, <2>2 DEF ProgressOfGet, ProgressOfPut, Fetches, Stores
    <3>. QED BY <1>1, <1>2, <3>1, AskingCancels
  <2>3. CASE ~(ProgressOfGet(t) \/ ProgressOfPut(t))
    <3>1. UNCHANGED <<thread, cancelled>>
      BY <1>4, <2>3, Zenon DEF Step, FindSecond, Lock, IsConnected, Connect, Connected,
           NotConnected, LoseConnection, SecondHalf, Succeed, Fail, LoadConfig, ConfigLoaded,
           OpenDialog, ConfirmDialog, CancelDialog, progress, Release, Finish
    <3>2. ASSUME cancelled[Main] PROVE pc'[Main] = "idle" \/ MainIsCancelled'
      <4>1. Connect(Main) \/ NotConnected(Main) \/ AskOn(Main) \/ LoseConnection(Main)
              \/ Succeed(Main) \/ Fail(Main)
        BY <1>1, <1>4, <2>1, <3>2, CancelledSteps
      <4>2. CASE AskOn(Main)
        BY <1>1, <1>2, <2>1, <3>2, <4>2, AskingCancels DEF MainIsCancelled
      <4>3. CASE Succeed(Main) \/ Fail(Main)
        BY <1>2, <4>3 DEF Succeed, Fail, Finish, Release, Goto, CancelTypes
      <4>. QED BY <1>1, <1>2, <2>1, <3>2, <4>1, <4>2, <4>3, CancelledConnects
    <3>. QED BY <1>3, <3>1, <3>2
  <2>. QED BY <2>2, <2>3
<1>5. ASSUME NEW t \in Threads, NEW n \in Sessions, NEW f \in Functions(t), Call(t, n, f)
      PROVE  (BackgroundIsGone /\ MainIsCancelled)'
  <2>1. t = Main
    BY <1>1, <1>5, OnlyMainRuns DEF Call, Idle
  <2>2. cancelled' = [cancelled EXCEPT ![t] = FALSE] /\ UNCHANGED thread
    BY <1>5, Zenon DEF Call
  <2>. QED BY <1>1, <1>2, <2>1, <2>2, OthersNotCancelled DEF MainIsCancelled
<1>6. ASSUME NEW t \in Background, ThreadStarts(t) \/ ThreadEnds(t) \/ ThreadIsGone(t)
      PROVE  FALSE
  BY <1>1, <1>6 DEF ThreadStarts, ThreadEnds, ThreadIsGone, BackgroundIsGone, Seen
<1>7. CASE NewConnection
  <2>1. cancelled' = [cancelled EXCEPT ![Main] = FALSE] /\ UNCHANGED thread
    BY <1>7, Zenon DEF NewConnection
  <2>. QED BY <1>1, <1>2, <2>1, OthersNotCancelled DEF MainIsCancelled
<1>8. CASE CancelNew \/ NewNotConnected \/ \E n \in Sessions : OpenNew(n)
  <2>1. UNCHANGED <<thread, cancelled>>
    BY <1>8, Zenon DEF CancelNew, NewNotConnected, OpenNew, Finish, Release, progress
  <2>2. ~cancelled[Main]
    BY <1>1, <1>8 DEF MainIsCancelled, CancelNew, NewNotConnected, OpenNew
  <2>. QED BY <1>3, <2>1, <2>2
<1>9. ASSUME NEW n \in Sessions, Disconnect(n) PROVE (BackgroundIsGone /\ MainIsCancelled)'
  <2>1. UNCHANGED <<thread, pc, cancelled>> /\ pc[Main] = "idle"
    BY <1>9, Zenon DEF Disconnect, Idle, progress
  <2>. QED BY <1>3, <2>1
<1>10. CASE UNCHANGED vars
  BY <1>1, <1>10 DEF vars, registry, progress, BackgroundIsGone, MainIsCancelled, Current
<1>. QED BY <1>4, <1>5, <1>6, <1>7, <1>8, <1>9, <1>10 DEF Next

(* A cancelled copy returns from its loop or from a connection that is not *)
(* made again, with what the user said last.                               *)
LEMMA ReturnsReported ==
  ASSUME Seen, IInv, CancelTypes, BackgroundIsGone, MainIsCancelled, [Next]_vars,
         NEW t \in Threads, cancelled[t], Returns(t)
  PROVE  CancelIsReported(t)
<1> USE ThreadIds
<1>1. t = Main /\ pc[Main] # "idle" /\ pc'[Main] = "idle"
  BY DEF BackgroundIsGone, Threads, Returns
<1>2. lastPPR = 1 /\ pc[Main] \in {"stopped", "run", "connecting"}
      /\ op[Main] \in {"get", "put", "renmov"}
  BY <1>1 DEF MainIsCancelled
<1>3. ASSUME Step(Main) PROVE CancelIsReported(Main)
  <2>1. CASE Connect(Main) \/ LoseConnection(Main)
    BY <1>1, <2>1 DEF Connect, LoseConnection, Goto, CancelTypes
  <2>2. CASE AskOn(Main)
    BY <1>1, <1>2, <2>2, AskingCancels
  <2>3. CASE NotConnected(Main)
    <3>1. lastPPR' = 1
      BY <1>1, <2>3, AskedWhenSeen DEF NotConnected
    <3>2. reply' = [reply EXCEPT ![Main] = Failure']
      BY <1>1, <2>3 DEF NotConnected, Goto, CancelTypes
    <3>. QED BY <3>1, <3>2 DEF Failure, CancelIsReported, CancelTypes
  <2>4. CASE Succeed(Main)
    <3>1. /\ pc[Main] = "stopped" /\ Stores(Main)
          /\ reply' = [reply EXCEPT ![Main] = "OK"]
      BY <1>2, <2>4 DEF Succeed, Finish
    <3>. QED BY <3>1 DEF CancelIsReported, CancelTypes
  <2>5. CASE Fail(Main)
    <3>1. reply' = [reply EXCEPT ![Main] = Failure]
      BY <2>5 DEF Fail, Finish
    <3>. QED BY <1>2, <3>1 DEF Failure, CancelIsReported, CancelTypes
  <2>. QED BY <1>1, <1>3, <2>1, <2>2, <2>3, <2>4, <2>5, CancelledSteps
<1>4. ASSUME NEW u \in Threads, Step(u) PROVE u = Main
  <2>1. pc[u] # "idle"
    BY <1>4, StepIsInside
  <2>. QED BY <2>1, OnlyMainRuns, RunningThread DEF CancelInv
<1>5. ASSUME NEW u \in Threads, NEW n \in Sessions, NEW f \in Functions(u), Call(u, n, f)
      PROVE  FALSE
  <2>1. u = Main
    BY <1>5, OnlyMainRuns DEF Call, Idle, CancelInv
  <2>. QED BY <1>1, <1>5, <2>1 DEF Call, Idle
<1>6. ASSUME NEW u \in Background, ThreadStarts(u) \/ ThreadEnds(u) \/ ThreadIsGone(u)
      PROVE  FALSE
  BY <1>6 DEF ThreadStarts, ThreadEnds, ThreadIsGone, BackgroundIsGone, Seen
<1>7. ~NewConnection /\ ~CancelNew /\ ~NewNotConnected
  BY <1>1, <1>2 DEF NewConnection, Idle, CancelNew, NewNotConnected
<1>8. ASSUME NEW n \in Sessions, OpenNew(n) \/ Disconnect(n) PROVE FALSE
  BY <1>1, <1>2, <1>8 DEF OpenNew, Disconnect, Idle
<1>9. CASE UNCHANGED vars
  BY <1>1, <1>9 DEF vars
<1>. QED BY <1>1, <1>3, <1>4, <1>5, <1>6, <1>7, <1>8, <1>9 DEF Next

(* A copy that was cancelled is reported as cancelled; an upload may have  *)
(* succeeded, but only if it was not cut off as well.  That holds whatever *)
(* connections are lost and made again, if nobody else copies and the      *)
(* first callback saw the cancel.                                          *)
THEOREM CancelsAreReported == Spec => CancelSeenIsReported
<1>1. Init => CancelInv
  BY ThreadIds, RegistryAssumption DEF Init, CancelInv, BackgroundIsGone, MainIsCancelled, Threads
<1>2. Init => ConfTypes /\ ProgressTypes
  BY Types DEF Init, ConfTypes, ProgressTypes
<1>3. IInv /\ ConfTypes /\ ProgressTypes /\ CancelInv /\ [Next]_vars
        => [Seen => \A t \in Threads : cancelled[t] /\ Returns(t) => CancelIsReported(t)]_vars
  BY CancelTyped, ReturnsReported DEF CancelInv
<1>4. IInv /\ ConfTypes /\ ProgressTypes /\ CancelInv /\ [Next]_vars
        => (ConfTypes /\ ProgressTypes /\ CancelInv)'
  BY NextConfTypes, NextProgressTypes, NextCancel
<1>. QED BY <1>1, <1>2, <1>3, <1>4, PointersInOrder, PTL DEF Spec, CancelSeenIsReported, Seen
=============================================================================
