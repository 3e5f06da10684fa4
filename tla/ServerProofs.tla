----------------------------- MODULE ServerProofs -----------------------------
(***************************************************************************)
(* Proofs about Server, for any number of workers, requests, applications  *)
(* and skills, a pool of any size, and any number of failures: a worker    *)
(* that serves finds every skill, clients outlive their users, and a       *)
(* connection of the pool is always accounted for.                         *)
(***************************************************************************)
EXTENDS Server, FiniteSetTheorems, TLAPS

USE HoldersAssumption, NamesAssumption, PoolAssumption, FaultAssumption

-----------------------------------------------------------------------------
(***************************************************************************)
(* The invariant, taken apart.                                             *)
(***************************************************************************)
LEMMA NoSeedIsSeed ==
    NoSeed \in Seeds /\ NoSeed.next = 1 /\ NoSeed.pc = "exists" /\ NoSeed.own = {}
BY DEF NoSeed, Seeds

LEMMA Positions ==
    /\ Len(SkillNames) \in Nat
    /\ \A i \in 1..Len(SkillNames) : SkillNames[i] \in Range(SkillNames)
    /\ \A x \in Range(SkillNames) : \E i \in 1..Len(SkillNames) : SkillNames[i] = x
BY DEF Range

LEMMA Idles ==
    /\ NoTasks \in [Apps -> {"none", "listed", "ask", "connect", "store"}]
    /\ NoRequests \in [Requests -> {"idle", "wait", "run"}]
    /\ \A a \in Apps : NoTasks[a] = "none"
    /\ \A r \in Requests : NoRequests[r] = "idle"
BY DEF NoTasks, NoRequests

LEMMA EmptyPool == IsFiniteSet({}) /\ Cardinality({}) = 0
BY FS_EmptySet

LEMMA Local ==
    ASSUME IInv, NEW w \in Workers
    PROVE  /\ stage[w] \in Stages /\ open[w] \subseteq Clients /\ skills \subseteq Range(SkillNames)
           /\ seed[w] \in Seeds /\ conns[w] \subseteq Holders /\ garbage[w] \in Nat
           /\ IsFiniteSet(conns[w]) /\ Cardinality(conns[w]) \in Nat
           /\ Cardinality(conns[w]) + garbage[w] <= POOL_SIZE
           /\ poller[w] \in {"off", "list", "sessions", "gather"}
           /\ task[w] \in [Apps -> {"none", "listed", "ask", "connect", "store"}]
           /\ request[w] \in [Requests -> {"idle", "wait", "run"}]
           /\ StageInv(w) /\ SeedInv(w) /\ TasksInv(w)
<1>1. IsFiniteSet(conns[w])
  BY DEF IInv, TypeOK
<1>2. Cardinality(conns[w]) \in Nat
  BY <1>1, FS_CardinalityType
<1> QED BY <1>1, <1>2 DEF IInv, TypeOK

LEMMA InitIInv == Init => IInv
<1> SUFFICES ASSUME Init PROVE IInv
  OBVIOUS
<1>1. TypeOK
  BY NoSeedIsSeed, Idles, EmptyPool DEF Init, TypeOK, Stages
<1>2. ServingMeansSeeded /\ ClientsOutliveUsers
  BY DEF Init, ServingMeansSeeded, ClientsOutliveUsers
<1>3. InsertsDiffer
  BY NoSeedIsSeed DEF Init, InsertsDiffer
<1>4. NoneIsLost
  BY Idles DEF Init, NoneIsLost, Users
<1>5. \A w \in Workers : StageInv(w)
  BY DEF Init, StageInv, OpenAt
<1>6. \A w \in Workers : SeedInv(w)
  BY NoSeedIsSeed, Positions DEF Init, SeedInv
<1>7. \A w \in Workers : TasksInv(w)
  BY DEF Init, TasksInv
<1> QED BY <1>1, <1>2, <1>3, <1>4, <1>5, <1>6, <1>7 DEF IInv

\* What the parts of the next state's invariant come to, once the stages and
\* what rests on them are settled.
LEMMA StagesSettle ==
    ASSUME \A v \in Workers : StageInv(v)'
    PROVE  ClientsOutliveUsers'
BY DEF StageInv, OpenAt, ClientsOutliveUsers

-----------------------------------------------------------------------------
(***************************************************************************)
(* The pool of a worker.                                                   *)
(***************************************************************************)
LEMMA Fits ==
    ASSUME IInv, NEW w \in Workers, NEW x \in Holders, CanConnect(w)
    PROVE  /\ conns[w] \cup {x} \subseteq Holders /\ IsFiniteSet(conns[w] \cup {x})
           /\ Cardinality(conns[w] \cup {x}) + garbage[w] <= POOL_SIZE
<1>1. IsFiniteSet(conns[w]) /\ Cardinality(conns[w]) \in Nat /\ garbage[w] \in Nat
      /\ Cardinality(conns[w]) + garbage[w] <= POOL_SIZE /\ conns[w] \subseteq Holders
  BY Local
<1>2. Cardinality(conns[w]) + garbage[w] < POOL_SIZE
  BY DEF CanConnect
<1>3. IsFiniteSet(conns[w] \cup {x})
      /\ (Cardinality(conns[w] \cup {x}) = Cardinality(conns[w])
          \/ Cardinality(conns[w] \cup {x}) = Cardinality(conns[w]) + 1)
  BY <1>1, FS_AddElement
<1> QED BY <1>1, <1>2, <1>3

LEMMA Frees ==
    ASSUME IInv, NEW w \in Workers, NEW x
    PROVE  /\ conns[w] \ {x} \subseteq Holders /\ IsFiniteSet(conns[w] \ {x})
           /\ Cardinality(conns[w] \ {x}) + garbage[w] <= POOL_SIZE
           /\ x \in conns[w] => Cardinality(conns[w] \ {x}) + (garbage[w] + 1) <= POOL_SIZE
<1>1. IsFiniteSet(conns[w]) /\ Cardinality(conns[w]) \in Nat /\ garbage[w] \in Nat
      /\ Cardinality(conns[w]) + garbage[w] <= POOL_SIZE /\ conns[w] \subseteq Holders
  BY Local
<1>2. /\ IsFiniteSet(conns[w] \ {x})
      /\ x \in conns[w] => Cardinality(conns[w] \ {x}) = Cardinality(conns[w]) - 1
      /\ x \notin conns[w] => Cardinality(conns[w] \ {x}) = Cardinality(conns[w])
  BY <1>1, FS_RemoveElement
<1> QED BY <1>1, <1>2

\* Worker w holds the connections c, and g are garbage.
LEMMA PoolMoves ==
    ASSUME IInv, NEW w \in Workers, NEW c, NEW g \in Nat,
           c \subseteq Holders, IsFiniteSet(c), Cardinality(c) + g <= POOL_SIZE,
           conns' = [conns EXCEPT ![w] = c], garbage' = [garbage EXCEPT ![w] = g]
    PROVE  /\ conns' \in [Workers -> SUBSET Holders] /\ garbage' \in [Workers -> Nat]
           /\ \A v \in Workers : IsFiniteSet(conns'[v])
                 /\ Cardinality(conns'[v]) + garbage'[v] <= POOL_SIZE
           /\ conns'[w] = c /\ \A v \in Workers \ {w} : conns'[v] = conns[v]
<1>1. conns \in [Workers -> SUBSET Holders] /\ garbage \in [Workers -> Nat]
  BY DEF IInv, TypeOK
<1>2. \A v \in Workers : IsFiniteSet(conns[v]) /\ Cardinality(conns[v]) + garbage[v] <= POOL_SIZE
  BY DEF IInv, TypeOK
<1>3. conns'[w] = c /\ garbage'[w] = g
      /\ \A v \in Workers \ {w} : conns'[v] = conns[v] /\ garbage'[v] = garbage[v]
  BY <1>1
<1>4. ASSUME NEW v \in Workers
      PROVE  IsFiniteSet(conns'[v]) /\ Cardinality(conns'[v]) + garbage'[v] <= POOL_SIZE
  <2>1. CASE v = w
    BY <2>1, <1>3
  <2>2. CASE v # w
    BY <2>2, <1>2, <1>3
  <2> QED BY <2>1, <2>2
<1> QED BY <1>1, <1>3, <1>4

LEMMA PoolKeeps ==
    ASSUME IInv, UNCHANGED <<conns, garbage>>
    PROVE  /\ conns' \in [Workers -> SUBSET Holders] /\ garbage' \in [Workers -> Nat]
           /\ \A v \in Workers : IsFiniteSet(conns'[v])
                 /\ Cardinality(conns'[v]) + garbage'[v] <= POOL_SIZE
<1>1. conns' = conns /\ garbage' = garbage
  OBVIOUS
<1> QED BY <1>1 DEF IInv, TypeOK

\* A worker that is neither seeding nor changing its stage: the seeding stands.
LEMMA StartupKeeps ==
    ASSUME IInv, stage' = stage, open' = open, skills' = skills, seed' = seed
    PROVE  /\ ServingMeansSeeded' /\ InsertsDiffer' /\ \A v \in Workers : SeedInv(v)'
           /\ stage' \in [Workers -> Stages] /\ open' \in [Workers -> SUBSET Clients]
           /\ skills' \subseteq Range(SkillNames) /\ seed' \in [Workers -> Seeds]
BY DEF IInv, TypeOK, ServingMeansSeeded, InsertsDiffer, SeedInv, SeedName

\* What is left to show of a step of w that leaves the startup alone: who is at
\* work, what state p of the poller, t of its tasks and q of the requests, and
\* that the connections are theirs.
LEMMA WorkMoves ==
    ASSUME IInv, NEW w \in Workers, NEW p, NEW t, NEW q,
           stage' = stage, open' = open, skills' = skills, seed' = seed,
           p \in {"off", "list", "sessions", "gather"},
           t \in [Apps -> {"none", "listed", "ask", "connect", "store"}],
           q \in [Requests -> {"idle", "wait", "run"}],
           poller' = [poller EXCEPT ![w] = p],
           task' = [task EXCEPT ![w] = t],
           request' = [request EXCEPT ![w] = q],
           conns' \in [Workers -> SUBSET Holders], garbage' \in [Workers -> Nat],
           \A v \in Workers : IsFiniteSet(conns'[v]) /\ Cardinality(conns'[v]) + garbage'[v] <= POOL_SIZE,
           \A v \in Workers \ {w} : conns'[v] = conns[v],
           conns'[w] = Users(p, t, q),
           stage[w] \in {"serve", "drain"} \/ (p = "off" /\ t = NoTasks /\ q = NoRequests),
           p \in {"off", "list"} => t = NoTasks,
           p = "sessions" => \A a \in Apps : t[a] \in {"none", "listed"},
           p = "gather" => \A a \in Apps : t[a] # "listed",
           stored' \subseteq Apps, faults' \in 0..MaxFaults
    PROVE  IInv'
<1>1. /\ poller \in [Workers -> {"off", "list", "sessions", "gather"}]
      /\ task \in [Workers -> [Apps -> {"none", "listed", "ask", "connect", "store"}]]
      /\ request \in [Workers -> [Requests -> {"idle", "wait", "run"}]]
  BY DEF IInv, TypeOK
<1>2. /\ poller' \in [Workers -> {"off", "list", "sessions", "gather"}]
      /\ task' \in [Workers -> [Apps -> {"none", "listed", "ask", "connect", "store"}]]
      /\ request' \in [Workers -> [Requests -> {"idle", "wait", "run"}]]
  BY <1>1
<1>3. /\ poller'[w] = p /\ task'[w] = t /\ request'[w] = q
      /\ \A v \in Workers \ {w} : poller'[v] = poller[v] /\ task'[v] = task[v] /\ request'[v] = request[v]
  BY <1>1
<1>4. stage' = stage /\ open' = open
  OBVIOUS
<1>5. TypeOK'
  BY <1>2, StartupKeeps DEF TypeOK
<1>6. \A v \in Workers : StageInv(v)'
  <2> SUFFICES ASSUME NEW v \in Workers PROVE StageInv(v)'
    OBVIOUS
  <2>1. StageInv(v)
    BY Local
  <2>2. CASE v = w
    BY <2>1, <2>2, <1>3, <1>4 DEF StageInv, OpenAt
  <2>3. CASE v # w
    BY <2>1, <2>3, <1>3, <1>4 DEF StageInv, OpenAt
  <2> QED BY <2>2, <2>3
<1>7. \A v \in Workers : TasksInv(v)'
  <2> SUFFICES ASSUME NEW v \in Workers PROVE TasksInv(v)'
    OBVIOUS
  <2>1. TasksInv(v)
    BY Local
  <2>2. CASE v = w
    BY <2>2, <1>3 DEF TasksInv
  <2>3. CASE v # w
    BY <2>1, <2>3, <1>3 DEF TasksInv
  <2> QED BY <2>2, <2>3
<1>8. NoneIsLost'
  <2> SUFFICES ASSUME NEW v \in Workers
               PROVE  conns'[v] = Users(poller'[v], task'[v], request'[v])
    BY DEF NoneIsLost
  <2>1. CASE v = w
    BY <2>1, <1>3
  <2>2. CASE v # w
    BY <2>2, <1>3 DEF IInv, NoneIsLost
  <2> QED BY <2>1, <2>2
<1>9. ClientsOutliveUsers'
  BY <1>6, StagesSettle
<1> QED BY <1>5, <1>6, <1>7, <1>8, <1>9, StartupKeeps DEF IInv

LEMMA Same ==
    ASSUME IInv, NEW w \in Workers
    PROVE  /\ stage = [stage EXCEPT ![w] = stage[w]] /\ open = [open EXCEPT ![w] = open[w]]
           /\ poller = [poller EXCEPT ![w] = poller[w]] /\ task = [task EXCEPT ![w] = task[w]]
           /\ request = [request EXCEPT ![w] = request[w]] /\ conns = [conns EXCEPT ![w] = conns[w]]
           /\ garbage = [garbage EXCEPT ![w] = garbage[w]]
           /\ seed = [seed EXCEPT ![w] = seed[w]]
           /\ conns[w] = Users(poller[w], task[w], request[w])
           /\ stored \subseteq Apps /\ faults \in 0..MaxFaults
<1>1. /\ stage = [stage EXCEPT ![w] = stage[w]] /\ open = [open EXCEPT ![w] = open[w]]
      /\ poller = [poller EXCEPT ![w] = poller[w]] /\ task = [task EXCEPT ![w] = task[w]]
      /\ request = [request EXCEPT ![w] = request[w]] /\ conns = [conns EXCEPT ![w] = conns[w]]
      /\ garbage = [garbage EXCEPT ![w] = garbage[w]] /\ seed = [seed EXCEPT ![w] = seed[w]]
  BY DEF IInv, TypeOK
<1>2. stored \subseteq Apps /\ faults \in 0..MaxFaults
  BY DEF IInv, TypeOK
<1>3. conns[w] = Users(poller[w], task[w], request[w])
  BY DEF IInv, NoneIsLost
<1> QED BY <1>1, <1>2, <1>3

LEMMA Faults == ASSUME IInv, Fault PROVE faults' \in 0..MaxFaults
BY DEF IInv, TypeOK, Fault

\* Who is at work, or has tasks or requests, is in a worker that serves.
LEMMA AtWork ==
    ASSUME IInv, NEW w \in Workers
    PROVE  /\ poller[w] # "off" => stage[w] \in {"serve", "drain"}
           /\ \A a \in Apps : task[w][a] # "none" => stage[w] \in {"serve", "drain"} /\ poller[w] \in {"sessions", "gather"}
           /\ \A r \in Requests : request[w][r] # "idle" => stage[w] \in {"serve", "drain"}
           /\ \A a \in Apps : task[w][a] \in {"ask", "connect", "store"} => poller[w] = "gather"
<1>1. StageInv(w) /\ TasksInv(w) /\ poller[w] \in {"off", "list", "sessions", "gather"}
  BY Local
<1>2. poller[w] # "off" => stage[w] \in {"serve", "drain"}
  BY <1>1 DEF StageInv
<1>3. \A a \in Apps : task[w][a] # "none" => task[w] # NoTasks
  BY Idles
<1>4. \A r \in Requests : request[w][r] # "idle" => request[w] # NoRequests
  BY Idles
<1>5. \A a \in Apps : task[w][a] \in {"ask", "connect", "store"} => poller[w] # "sessions"
  BY <1>1 DEF TasksInv
<1> QED BY <1>1, <1>2, <1>3, <1>4, <1>5 DEF StageInv, TasksInv

-----------------------------------------------------------------------------
(***************************************************************************)
(* Requests.                                                               *)
(***************************************************************************)
\* Request r of w goes from one state to another.
LEMMA RequestMoves ==
    ASSUME IInv, NEW w \in Workers, NEW r \in Requests, NEW x \in {"idle", "wait", "run"},
           UNCHANGED <<startup, garbage, polling>>, stage[w] \in {"serve", "drain"},
           request' = [request EXCEPT ![w][r] = x], faults' \in 0..MaxFaults,
           \/ x = "run" /\ Connect(w, r)
           \/ x # "run" /\ request[w][r] = "run" /\ Release(w, r)
           \/ x # "run" /\ request[w][r] # "run" /\ UNCHANGED conns
    PROVE  IInv'
<1> DEFINE q == [request[w] EXCEPT ![r] = x]
<1>1. /\ poller' = poller /\ task' = task /\ stored' = stored /\ garbage' = garbage
      /\ stage' = stage /\ open' = open /\ skills' = skills /\ seed' = seed
  BY DEF polling, startup
<1>2. request[w] \in [Requests -> {"idle", "wait", "run"}]
  BY Local
<1>3. q \in [Requests -> {"idle", "wait", "run"}] /\ request' = [request EXCEPT ![w] = q]
      /\ q[r] = x /\ \A s \in Requests \ {r} : q[s] = request[w][s]
  BY <1>2
<1> HIDE DEF q
<1>4. PICK c : /\ conns' = [conns EXCEPT ![w] = c]
               /\ c \subseteq Holders /\ IsFiniteSet(c) /\ Cardinality(c) + garbage[w] <= POOL_SIZE
               /\ \/ x = "run" /\ c = conns[w] \cup {r}
                  \/ x # "run" /\ request[w][r] = "run" /\ c = conns[w] \ {r}
                  \/ x # "run" /\ request[w][r] # "run" /\ c = conns[w]
  <2>1. CASE x = "run" /\ Connect(w, r)
    BY <2>1, Fits DEF Connect, Holders
  <2>2. CASE x # "run" /\ request[w][r] = "run" /\ Release(w, r)
    BY <2>2, Frees DEF Release
  <2>3. CASE x # "run" /\ request[w][r] # "run" /\ UNCHANGED conns
    BY <2>3, Same, Local
  <2> QED BY <2>1, <2>2, <2>3
<1>5. c = Users(poller[w], task[w], q)
  BY <1>3, <1>4, Same DEF Users, Holders
<1>6. garbage' = [garbage EXCEPT ![w] = garbage[w]] /\ garbage[w] \in Nat
  BY <1>1, Same, Local
<1>7. /\ conns' \in [Workers -> SUBSET Holders] /\ garbage' \in [Workers -> Nat]
      /\ \A v \in Workers : IsFiniteSet(conns'[v]) /\ Cardinality(conns'[v]) + garbage'[v] <= POOL_SIZE
      /\ conns'[w] = c /\ \A v \in Workers \ {w} : conns'[v] = conns[v]
  BY <1>4, <1>6, PoolMoves
<1>8. /\ poller' = [poller EXCEPT ![w] = poller[w]] /\ task' = [task EXCEPT ![w] = task[w]]
      /\ stored' \subseteq Apps
  BY <1>1, Same
<1>9. /\ poller[w] \in {"off", "list", "sessions", "gather"}
      /\ task[w] \in [Apps -> {"none", "listed", "ask", "connect", "store"}]
      /\ poller[w] \in {"off", "list"} => task[w] = NoTasks
      /\ poller[w] = "sessions" => \A a \in Apps : task[w][a] \in {"none", "listed"}
      /\ poller[w] = "gather" => \A a \in Apps : task[w][a] # "listed"
  BY Local DEF TasksInv
<1>10. conns'[w] = Users(poller[w], task[w], q)
  BY <1>5, <1>7
<1>11. \/ stage[w] \in {"serve", "drain"}
       \/ poller[w] = "off" /\ task[w] = NoTasks /\ q = NoRequests
  OBVIOUS
<1>12. stage' = stage /\ open' = open /\ skills' = skills /\ seed' = seed
  BY <1>1
<1>13. q \in [Requests -> {"idle", "wait", "run"}] /\ request' = [request EXCEPT ![w] = q]
  BY <1>3
<1>14. /\ conns' \in [Workers -> SUBSET Holders] /\ garbage' \in [Workers -> Nat]
       /\ \A v \in Workers : IsFiniteSet(conns'[v]) /\ Cardinality(conns'[v]) + garbage'[v] <= POOL_SIZE
       /\ \A v \in Workers \ {w} : conns'[v] = conns[v]
  BY <1>7
<1> QED BY ONLY IInv, w \in Workers, <1>8, <1>9, <1>10, <1>11, <1>12, <1>13, <1>14, faults' \in 0..MaxFaults, WorkMoves

LEMMA RequestArrivesKeeps ==
    ASSUME IInv, NEW w \in Workers, NEW r \in Requests, RequestArrives(w, r)
    PROVE  IInv'
<1>1. faults' \in 0..MaxFaults
  BY Same DEF RequestArrives
<1> QED BY <1>1, RequestMoves DEF RequestArrives

LEMMA RequestConnectsKeeps ==
    ASSUME IInv, NEW w \in Workers, NEW r \in Requests, RequestConnects(w, r)
    PROVE  IInv'
<1>1. faults' \in 0..MaxFaults /\ stage[w] \in {"serve", "drain"}
  BY Same, AtWork DEF RequestConnects
<1> QED BY <1>1, RequestMoves DEF RequestConnects

LEMMA RequestEndsKeeps ==
    ASSUME IInv, NEW w \in Workers, NEW r \in Requests, RequestEnds(w, r)
    PROVE  IInv'
<1>1. faults' \in 0..MaxFaults /\ stage[w] \in {"serve", "drain"}
  BY Same, AtWork DEF RequestEnds
<1> QED BY <1>1, RequestMoves DEF RequestEnds

LEMMA RequestTimesOutKeeps ==
    ASSUME IInv, NEW w \in Workers, NEW r \in Requests, RequestTimesOut(w, r)
    PROVE  IInv'
<1>1. faults' \in 0..MaxFaults /\ stage[w] \in {"serve", "drain"}
  BY Faults, AtWork DEF RequestTimesOut
<1> QED BY <1>1, RequestMoves DEF RequestTimesOut

-----------------------------------------------------------------------------
(***************************************************************************)
(* The poller.                                                             *)
(***************************************************************************)
\* The poller of w goes to p and its tasks to t; its connections are c, and g
\* are garbage.
LEMMA PassMoves ==
    ASSUME IInv, NEW w \in Workers, UNCHANGED <<startup, request>>, NEW p, NEW t, NEW c, NEW g \in Nat,
           p \in {"list", "sessions", "gather"}, poller[w] # "off",
           t \in [Apps -> {"none", "listed", "ask", "connect", "store"}],
           poller' = [poller EXCEPT ![w] = p], task' = [task EXCEPT ![w] = t],
           conns' = [conns EXCEPT ![w] = c], garbage' = [garbage EXCEPT ![w] = g],
           c \subseteq Holders, IsFiniteSet(c), Cardinality(c) + g <= POOL_SIZE,
           c = Users(p, t, request[w]),
           p = "list" => t = NoTasks,
           p = "sessions" => \A a \in Apps : t[a] \in {"none", "listed"},
           p = "gather" => \A a \in Apps : t[a] # "listed",
           stored' \subseteq Apps, faults' \in 0..MaxFaults
    PROVE  IInv'
<1>1. /\ conns' \in [Workers -> SUBSET Holders] /\ garbage' \in [Workers -> Nat]
      /\ \A v \in Workers : IsFiniteSet(conns'[v]) /\ Cardinality(conns'[v]) + garbage'[v] <= POOL_SIZE
      /\ conns'[w] = c /\ \A v \in Workers \ {w} : conns'[v] = conns[v]
  BY PoolMoves
<1>2. /\ request' = [request EXCEPT ![w] = request[w]]
      /\ request[w] \in [Requests -> {"idle", "wait", "run"}]
  BY Same, Local
<1>3. stage[w] \in {"serve", "drain"}
  BY AtWork
<1>4. conns'[w] = Users(p, t, request[w])
  BY <1>1
<1>5. stage' = stage /\ open' = open /\ skills' = skills /\ seed' = seed
  BY DEF startup
<1>6. p \in {"off", "list"} => t = NoTasks
  OBVIOUS
<1>7. p \in {"off", "list", "sessions", "gather"}
  OBVIOUS
<1>8. \/ stage[w] \in {"serve", "drain"}
      \/ p = "off" /\ t = NoTasks /\ request[w] = NoRequests
  BY <1>3
<1> QED BY <1>1, <1>2, <1>4, <1>5, <1>6, <1>7, <1>8, WorkMoves

LEMMA PollListKeeps ==
    ASSUME IInv, NEW w \in Workers, PollList(w)
    PROVE  IInv'
<1> DEFINE t == [a \in Apps |-> IF a \in stored THEN "none" ELSE "listed"]
<1>1. /\ poller[w] = "list" /\ poller' = [poller EXCEPT ![w] = "sessions"]
      /\ task' = [task EXCEPT ![w] = t]
      /\ UNCHANGED <<startup, request>>
      /\ conns' = conns /\ garbage' = garbage /\ stored' = stored /\ faults' = faults
  BY DEF PollList, Listed
<1>2. /\ t \in [Apps -> {"none", "listed", "ask", "connect", "store"}]
      /\ \A a \in Apps : t[a] \in {"none", "listed"}
  OBVIOUS
<1> HIDE DEF t
<1>3. task[w] = NoTasks
  BY <1>1, Local DEF TasksInv
<1>4. conns[w] = Users("sessions", t, request[w])
  BY <1>1, <1>2, <1>3, Same, Idles DEF Users
<1>5. /\ conns' = [conns EXCEPT ![w] = conns[w]] /\ garbage' = [garbage EXCEPT ![w] = garbage[w]]
      /\ stored' \subseteq Apps /\ faults' \in 0..MaxFaults
  BY <1>1, Same
<1>6. /\ garbage[w] \in Nat /\ conns[w] \subseteq Holders /\ IsFiniteSet(conns[w])
      /\ Cardinality(conns[w]) + garbage[w] <= POOL_SIZE
  BY Local
<1>7. poller[w] # "off"
  BY <1>1
<1> QED BY <1>1, <1>2, <1>4, <1>5, <1>6, <1>7, PassMoves

LEMMA PollSessionsKeeps ==
    ASSUME IInv, NEW w \in Workers, PollSessions(w)
    PROVE  IInv'
<1> DEFINE t == [a \in Apps |-> IF task[w][a] = "listed" THEN "ask" ELSE "none"]
<1>0. task \in [Workers -> [Apps -> {"none", "listed", "ask", "connect", "store"}]]
  BY DEF IInv, TypeOK
<1>1. /\ poller[w] = "sessions" /\ poller' = [poller EXCEPT ![w] = "gather"]
      /\ CanConnect(w) /\ conns' = [conns EXCEPT ![w] = conns[w] \cup {"pass"}]
      /\ UNCHANGED <<startup, request>>
      /\ garbage' = garbage /\ stored' = stored /\ faults' = faults
  BY DEF PollSessions, Connect
<1>2. task' = [task EXCEPT ![w] = t]
  BY <1>0 DEF PollSessions
<1>3. /\ t \in [Apps -> {"none", "listed", "ask", "connect", "store"}]
      /\ \A a \in Apps : t[a] # "listed" /\ t[a] # "store"
  OBVIOUS
<1> HIDE DEF t
<1>4. \A a \in Apps : task[w][a] # "store"
  BY <1>1, Local DEF TasksInv
<1>5. conns[w] \cup {"pass"} = Users("gather", t, request[w])
  BY <1>1, <1>3, <1>4, Same DEF Users
<1>6. /\ garbage' = [garbage EXCEPT ![w] = garbage[w]]
      /\ stored' \subseteq Apps /\ faults' \in 0..MaxFaults
  BY <1>1, Same
<1>7. /\ garbage[w] \in Nat /\ conns[w] \cup {"pass"} \subseteq Holders /\ IsFiniteSet(conns[w] \cup {"pass"})
      /\ Cardinality(conns[w] \cup {"pass"}) + garbage[w] <= POOL_SIZE
  BY <1>1, Fits, Local DEF Holders
<1>8. poller[w] # "off"
  BY <1>1
<1> QED BY <1>1, <1>2, <1>3, <1>5, <1>6, <1>7, <1>8, PassMoves

LEMMA PassEndsKeeps ==
    ASSUME IInv, NEW w \in Workers, PassEnds(w)
    PROVE  IInv'
<1>1. /\ poller[w] = "gather" /\ task[w] = NoTasks /\ poller' = [poller EXCEPT ![w] = "list"]
      /\ conns' = [conns EXCEPT ![w] = conns[w] \ {"pass"}]
      /\ garbage' = [garbage EXCEPT ![w] = garbage[w] + 1]
      /\ UNCHANGED <<startup, request>>
      /\ task' = task /\ stored' = stored /\ faults' = faults
  <2>1. garbage \in [Workers -> Nat] /\ conns \in [Workers -> SUBSET Holders]
    BY DEF IInv, TypeOK
  <2> QED BY <2>1 DEF PassEnds, Release
<1>2. conns[w] \ {"pass"} = Users("list", NoTasks, request[w]) /\ "pass" \in conns[w]
  BY <1>1, Same DEF Users
<1>3. /\ garbage[w] + 1 \in Nat /\ conns[w] \ {"pass"} \subseteq Holders /\ IsFiniteSet(conns[w] \ {"pass"})
      /\ Cardinality(conns[w] \ {"pass"}) + (garbage[w] + 1) <= POOL_SIZE
  BY <1>2, Frees, Local
<1>4. /\ task' = [task EXCEPT ![w] = NoTasks]
      /\ stored' \subseteq Apps /\ faults' \in 0..MaxFaults
  BY <1>1, Same
<1>5. poller[w] # "off"
  BY <1>1
<1>6. NoTasks \in [Apps -> {"none", "listed", "ask", "connect", "store"}]
  BY Idles
<1> QED BY <1>1, <1>2, <1>3, <1>4, <1>5, <1>6, PassMoves

LEMMA PassFailsKeeps ==
    ASSUME IInv, NEW w \in Workers, PassFails(w)
    PROVE  IInv'
<1>1. /\ poller[w] \in {"list", "sessions"} /\ poller' = [poller EXCEPT ![w] = "list"]
      /\ task' = [task EXCEPT ![w] = NoTasks]
      /\ UNCHANGED <<startup, request>>
      /\ conns' = conns /\ garbage' = garbage /\ stored' = stored /\ faults' \in 0..MaxFaults
  BY Faults DEF PassFails
<1>2. \A a \in Apps : task[w][a] # "store"
  BY <1>1, Local, Idles DEF TasksInv
<1>3. conns[w] = Users("list", NoTasks, request[w])
  BY <1>1, <1>2, Same, Idles DEF Users
<1>4. /\ conns' = [conns EXCEPT ![w] = conns[w]] /\ garbage' = [garbage EXCEPT ![w] = garbage[w]]
      /\ stored' \subseteq Apps
  BY <1>1, Same
<1>5. /\ garbage[w] \in Nat /\ conns[w] \subseteq Holders /\ IsFiniteSet(conns[w])
      /\ Cardinality(conns[w]) + garbage[w] <= POOL_SIZE
  BY Local
<1>6. poller[w] # "off"
  BY <1>1
<1>7. NoTasks \in [Apps -> {"none", "listed", "ask", "connect", "store"}]
  BY Idles
<1> QED BY <1>1, <1>3, <1>4, <1>5, <1>6, <1>7, PassMoves

\* Collecting garbage needs nobody at work: the other lemmas' p, t and q stand.
LEMMA CollectKeeps ==
    ASSUME IInv, NEW w \in Workers, Collect(w)
    PROVE  IInv'
<1>1. /\ garbage' = [garbage EXCEPT ![w] = 0] /\ conns' = conns
      /\ stage' = stage /\ open' = open /\ skills' = skills /\ seed' = seed
      /\ poller' = poller /\ task' = task /\ request' = request /\ stored' = stored /\ faults' = faults
  BY DEF Collect, startup, polling
<1>2. conns' = [conns EXCEPT ![w] = conns[w]] /\ conns[w] \subseteq Holders /\ IsFiniteSet(conns[w])
      /\ Cardinality(conns[w]) + 0 <= POOL_SIZE
  BY <1>1, Same, Local
<1>3. /\ conns' \in [Workers -> SUBSET Holders] /\ garbage' \in [Workers -> Nat]
      /\ \A v \in Workers : IsFiniteSet(conns'[v]) /\ Cardinality(conns'[v]) + garbage'[v] <= POOL_SIZE
  BY <1>1, <1>2, PoolMoves, 0 \in Nat
<1>4. TypeOK'
  BY <1>1, <1>3, StartupKeeps DEF TypeOK, IInv
<1>5. \A v \in Workers : StageInv(v)'
  BY <1>1 DEF IInv, StageInv, OpenAt
<1>6. \A v \in Workers : TasksInv(v)'
  BY <1>1 DEF IInv, TasksInv
<1>7. NoneIsLost'
  BY <1>1 DEF IInv, NoneIsLost, Users
<1> QED BY <1>1, <1>4, <1>5, <1>6, <1>7, StartupKeeps, StagesSettle DEF IInv

-----------------------------------------------------------------------------
(***************************************************************************)
(* The tasks of a pass.                                                    *)
(***************************************************************************)
LEMMA TaskMoves ==
    ASSUME IInv, NEW w \in Workers, NEW a \in Apps, NEW x \in {"none", "connect", "store"},
           UNCHANGED <<startup, garbage, poller, request>>, task[w][a] \in {"ask", "connect", "store"},
           task' = [task EXCEPT ![w][a] = x], stored' \subseteq Apps, faults' \in 0..MaxFaults,
           \/ x = "store" /\ Connect(w, a)
           \/ x = "none" /\ Release(w, a)
           \/ x = "connect" /\ task[w][a] # "store" /\ UNCHANGED conns
    PROVE  IInv'
<1> DEFINE t == [task[w] EXCEPT ![a] = x]
<1>1. UNCHANGED <<startup, request>> /\ poller' = poller /\ garbage' = garbage
  OBVIOUS
<1>2. task[w] \in [Apps -> {"none", "listed", "ask", "connect", "store"}]
  BY Local
<1>3. t \in [Apps -> {"none", "listed", "ask", "connect", "store"}] /\ task' = [task EXCEPT ![w] = t]
      /\ t[a] = x /\ \A b \in Apps \ {a} : t[b] = task[w][b]
  BY <1>2
<1> HIDE DEF t
<1>4. PICK c : /\ conns' = [conns EXCEPT ![w] = c]
               /\ c \subseteq Holders /\ IsFiniteSet(c) /\ Cardinality(c) + garbage[w] <= POOL_SIZE
               /\ \/ x = "store" /\ c = conns[w] \cup {a}
                  \/ x = "none" /\ c = conns[w] \ {a}
                  \/ x = "connect" /\ task[w][a] # "store" /\ c = conns[w]
  <2>1. CASE x = "store" /\ Connect(w, a)
    BY <2>1, Fits DEF Connect, Holders
  <2>2. CASE x = "none" /\ Release(w, a)
    BY <2>2, Frees DEF Release
  <2>3. CASE x = "connect" /\ task[w][a] # "store" /\ UNCHANGED conns
    BY <2>3, Same, Local
  <2> QED BY <2>1, <2>2, <2>3
<1>5. poller[w] = "gather"
  BY AtWork
<1>6. c = Users("gather", t, request[w])
  BY <1>3, <1>4, <1>5, Same DEF Users, Holders
<1>7. /\ poller' = [poller EXCEPT ![w] = "gather"] /\ garbage' = [garbage EXCEPT ![w] = garbage[w]]
      /\ garbage[w] \in Nat
  BY <1>1, <1>5, Same, Local
<1>8. \A b \in Apps : t[b] # "listed"
  BY <1>3, <1>5, Local DEF TasksInv
<1>9. conns' = [conns EXCEPT ![w] = c] /\ c \subseteq Holders /\ IsFiniteSet(c)
      /\ Cardinality(c) + garbage[w] <= POOL_SIZE
  BY <1>4
<1>10. poller[w] # "off"
  BY <1>5
<1>11. t \in [Apps -> {"none", "listed", "ask", "connect", "store"}] /\ task' = [task EXCEPT ![w] = t]
  BY <1>3
<1> QED BY ONLY IInv, w \in Workers, <1>1, <1>6, <1>7, <1>8, <1>9, <1>10, <1>11, stored' \subseteq Apps,
                faults' \in 0..MaxFaults, PassMoves

LEMMA TaskAskKeeps ==
    ASSUME IInv, NEW w \in Workers, NEW a \in Apps, TaskAsk(w, a)
    PROVE  IInv'
<1>1. stored' \subseteq Apps /\ faults' \in 0..MaxFaults
  BY Same DEF TaskAsk
<1> QED BY <1>1, TaskMoves DEF TaskAsk

LEMMA TaskConnectKeeps ==
    ASSUME IInv, NEW w \in Workers, NEW a \in Apps, TaskConnect(w, a)
    PROVE  IInv'
<1>1. stored' \subseteq Apps /\ faults' \in 0..MaxFaults
  BY Same DEF TaskConnect
<1> QED BY <1>1, TaskMoves DEF TaskConnect

LEMMA TaskStoreKeeps ==
    ASSUME IInv, NEW w \in Workers, NEW a \in Apps, TaskStore(w, a)
    PROVE  IInv'
<1>1. stored' \subseteq Apps /\ faults' \in 0..MaxFaults
  BY Same DEF TaskStore
<1> QED BY <1>1, TaskMoves DEF TaskStore

LEMMA TaskFailsKeeps ==
    ASSUME IInv, NEW w \in Workers, NEW a \in Apps, TaskFails(w, a)
    PROVE  IInv'
<1>1. stored' \subseteq Apps /\ faults' \in 0..MaxFaults
  BY Same, Faults DEF TaskFails
<1> QED BY <1>1, TaskMoves DEF TaskFails

-----------------------------------------------------------------------------
(***************************************************************************)
(* Startup and shutdown.                                                   *)
(***************************************************************************)
\* Worker w goes to stage s with its clients open as they should be at s; who
\* uses them is there only in a stage that serves.
LEMMA StageMoves ==
    ASSUME IInv, NEW w \in Workers, NEW s \in Stages, NEW o,
           NEW p \in {"off", "list", "sessions", "gather"},
           stage' = [stage EXCEPT ![w] = s], open' = [open EXCEPT ![w] = o], o = OpenAt(s),
           poller' = [poller EXCEPT ![w] = p], UNCHANGED <<conns, garbage, task, request, stored>>,
           p = poller[w] \/ (poller[w] = "off" /\ p = "list"),
           \/ s \in {"serve", "drain"}
           \/ p = "off" /\ task[w] = NoTasks /\ request[w] = NoRequests,
           ServingMeansSeeded', InsertsDiffer', \A v \in Workers : SeedInv(v)',
           skills' \subseteq Range(SkillNames), seed' \in [Workers -> Seeds], faults' \in 0..MaxFaults
    PROVE  IInv'
<1>0. conns' = conns /\ garbage' = garbage /\ task' = task /\ request' = request /\ stored' = stored
  OBVIOUS
<1>1. /\ stage \in [Workers -> Stages] /\ open \in [Workers -> SUBSET Clients]
      /\ poller \in [Workers -> {"off", "list", "sessions", "gather"}]
      /\ task \in [Workers -> [Apps -> {"none", "listed", "ask", "connect", "store"}]]
      /\ request \in [Workers -> [Requests -> {"idle", "wait", "run"}]] /\ stored \subseteq Apps
  BY DEF IInv, TypeOK
<1>2. o \subseteq Clients
  BY DEF OpenAt, Clients
<1>3. /\ stage' \in [Workers -> Stages] /\ open' \in [Workers -> SUBSET Clients]
      /\ poller' \in [Workers -> {"off", "list", "sessions", "gather"}]
      /\ stage'[w] = s /\ open'[w] = o /\ poller'[w] = p
      /\ \A v \in Workers \ {w} : stage'[v] = stage[v] /\ open'[v] = open[v] /\ poller'[v] = poller[v]
  BY <1>1, <1>2
<1>4. TypeOK'
  BY <1>0, <1>1, <1>3, PoolKeeps DEF TypeOK
<1>5. \A v \in Workers : StageInv(v)'
  <2> SUFFICES ASSUME NEW v \in Workers PROVE StageInv(v)'
    OBVIOUS
  <2>1. StageInv(v)
    BY Local
  <2>2. CASE v = w
    BY <2>2, <1>0, <1>3 DEF StageInv, OpenAt
  <2>3. CASE v # w
    BY <2>1, <2>3, <1>0, <1>3 DEF StageInv, OpenAt
  <2> QED BY <2>2, <2>3
<1>6. \A v \in Workers : TasksInv(v)'
  <2> SUFFICES ASSUME NEW v \in Workers PROVE TasksInv(v)'
    OBVIOUS
  <2>1. TasksInv(v) /\ (v = w => p = poller[w] \/ (poller[w] = "off" /\ p = "list"))
    BY Local
  <2>2. CASE v = w
    BY <2>1, <2>2, <1>0, <1>3 DEF TasksInv
  <2>3. CASE v # w
    BY <2>1, <2>3, <1>0, <1>3 DEF TasksInv
  <2> QED BY <2>2, <2>3
<1>7. NoneIsLost'
  <2> SUFFICES ASSUME NEW v \in Workers
               PROVE  conns'[v] = Users(poller'[v], task'[v], request'[v])
    BY DEF NoneIsLost
  <2>1. conns[v] = Users(poller[v], task[v], request[v])
    BY DEF IInv, NoneIsLost
  <2>2. CASE v = w
    BY <2>1, <2>2, <1>0, <1>3 DEF Users
  <2>3. CASE v # w
    BY <2>1, <2>3, <1>0, <1>3
  <2> QED BY <2>2, <2>3
<1>8. ClientsOutliveUsers'
  BY <1>5, StagesSettle
<1> QED BY <1>4, <1>5, <1>6, <1>7, <1>8 DEF IInv

\* A step to a stage that neither seeds nor serves, or from serving to draining,
\* leaves the seeding as it is.
LEMMA SeedingStands ==
    ASSUME IInv, NEW w \in Workers, NEW s \in Stages, stage' = [stage EXCEPT ![w] = s],
           stage[w] # "seed", s # "serve", s = "drain" => stage[w] = "serve",
           skills' = skills, seed' = seed
    PROVE  /\ ServingMeansSeeded' /\ InsertsDiffer' /\ \A v \in Workers : SeedInv(v)'
           /\ skills' \subseteq Range(SkillNames) /\ seed' \in [Workers -> Seeds]
<1>1. stage \in [Workers -> Stages] /\ skills \subseteq Range(SkillNames) /\ seed \in [Workers -> Seeds]
  BY DEF IInv, TypeOK
<1>2. stage'[w] = s /\ \A v \in Workers \ {w} : stage'[v] = stage[v]
  BY <1>1
<1>3. ServingMeansSeeded'
  BY <1>2 DEF IInv, ServingMeansSeeded
<1>4. InsertsDiffer'
  BY DEF IInv, InsertsDiffer
<1>5. ASSUME NEW v \in Workers PROVE SeedInv(v)'
  <2>1. SeedInv(v) /\ (v = w => seed[v] = NoSeed)
    BY Local DEF SeedInv
  <2> QED BY <2>1, <1>2 DEF SeedInv, SeedName
<1> QED BY <1>1, <1>3, <1>4, <1>5

\* The steps between stages that use nothing but the clients.
LEMMA ClientMoves ==
    ASSUME IInv, NEW w \in Workers, NEW s \in Stages, NEW o,
           stage' = [stage EXCEPT ![w] = s], open' = [open EXCEPT ![w] = o], o = OpenAt(s),
           stage[w] # "seed", s # "serve", s = "drain" => stage[w] = "serve",
           s # "drain" => stage[w] \notin {"serve", "drain"},
           skills' = skills, seed' = seed, poller' = poller,
           UNCHANGED <<conns, garbage, task, request, stored>>, faults' \in 0..MaxFaults
    PROVE  IInv'
<1>1. poller' = [poller EXCEPT ![w] = poller[w]] /\ poller[w] \in {"off", "list", "sessions", "gather"}
  BY Same, Local
<1>2. \/ s \in {"serve", "drain"}
      \/ poller[w] = "off" /\ task[w] = NoTasks /\ request[w] = NoRequests
  BY Local DEF StageInv
<1>3. /\ ServingMeansSeeded' /\ InsertsDiffer' /\ \A v \in Workers : SeedInv(v)'
      /\ skills' \subseteq Range(SkillNames) /\ seed' \in [Workers -> Seeds]
  BY SeedingStands
<1>4. UNCHANGED <<conns, garbage, task, request, stored>>
  OBVIOUS
<1> QED BY ONLY IInv, w \in Workers, s \in Stages, <1>1, <1>2, <1>3, <1>4, stage' = [stage EXCEPT ![w] = s],
                open' = [open EXCEPT ![w] = o], o = OpenAt(s), faults' \in 0..MaxFaults, StageMoves

LEMMA SpawnKeeps ==
    ASSUME IInv, NEW w \in Workers, Spawn(w)
    PROVE  IInv'
<1>1. /\ stage[w] = "down" /\ stage' = [stage EXCEPT ![w] = "verify_db"] /\ open' = open
      /\ skills' = skills /\ seed' = seed /\ poller' = poller
      /\ UNCHANGED <<conns, garbage, task, request, stored>> /\ faults' = faults
  BY DEF Spawn, polling
<1>2. open' = [open EXCEPT ![w] = open[w]] /\ faults' \in 0..MaxFaults
  BY <1>1, Same
<1>3. open[w] = OpenAt("verify_db") /\ "verify_db" \in Stages
  BY <1>1, Local DEF StageInv, OpenAt, Stages
<1> QED BY <1>1, <1>2, <1>3, ClientMoves

LEMMA OpensKeeps ==
    ASSUME IInv, NEW w \in Workers, NEW at \in Stages, NEW client, NEW then \in Stages, Opens(w, at, client, then),
           at \notin {"seed", "serve", "drain"}, then \notin {"serve", "drain"},
           OpenAt(then) = OpenAt(at) \cup {client}
    PROVE  IInv'
<1>0. open \in [Workers -> SUBSET Clients]
  BY DEF IInv, TypeOK
<1>1. /\ stage[w] = at /\ stage' = [stage EXCEPT ![w] = then]
      /\ open' = [open EXCEPT ![w] = open[w] \cup {client}]
      /\ skills' = skills /\ seed' = seed /\ poller' = poller
      /\ UNCHANGED <<conns, garbage, task, request, stored>> /\ faults' = faults
  BY <1>0 DEF Opens, polling
<1>2. faults' \in 0..MaxFaults
  BY <1>1, Same
<1>3. open[w] \cup {client} = OpenAt(then)
  BY <1>1, Local DEF StageInv
<1> QED BY <1>1, <1>2, <1>3, ClientMoves

LEMMA ClosesKeeps ==
    ASSUME IInv, NEW w \in Workers, NEW at \in Stages, NEW client, NEW then \in Stages, Closes(w, at, client, then),
           at \notin {"seed", "serve", "drain"}, then \notin {"serve", "drain"},
           OpenAt(then) = OpenAt(at) \ {client}
    PROVE  IInv'
<1>0. open \in [Workers -> SUBSET Clients]
  BY DEF IInv, TypeOK
<1>1. /\ stage[w] = at /\ stage' = [stage EXCEPT ![w] = then]
      /\ open' = [open EXCEPT ![w] = open[w] \ {client}]
      /\ skills' = skills /\ seed' = seed /\ poller' = poller
      /\ UNCHANGED <<conns, garbage, task, request, stored>> /\ faults' = faults
  BY <1>0 DEF Closes, polling
<1>2. faults' \in 0..MaxFaults
  BY <1>1, Same
<1>3. open[w] \ {client} = OpenAt(then)
  BY <1>1, Local DEF StageInv
<1> QED BY <1>1, <1>2, <1>3, ClientMoves

LEMMA ClientStepsKeep ==
    ASSUME IInv, NEW w \in Workers,
           VerifyDb(w) \/ InitRedis(w) \/ StartKafka(w) \/ StopKafka(w) \/ CloseRedis(w)
    PROVE  IInv'
<1>1. CASE VerifyDb(w)
  <2>1. "verify_db" \in Stages /\ "init_redis" \in Stages
        /\ OpenAt("init_redis") = OpenAt("verify_db") \cup {"db"}
    BY DEF Stages, OpenAt, Clients
  <2> QED BY <1>1, <2>1, OpensKeeps DEF VerifyDb
<1>2. CASE InitRedis(w)
  <2>1. "init_redis" \in Stages /\ "start_kafka" \in Stages
        /\ OpenAt("start_kafka") = OpenAt("init_redis") \cup {"redis"}
    BY DEF Stages, OpenAt, Clients
  <2> QED BY <1>2, <2>1, OpensKeeps DEF InitRedis
<1>3. CASE StartKafka(w)
  <2>1. "start_kafka" \in Stages /\ "seed" \in Stages
        /\ OpenAt("seed") = OpenAt("start_kafka") \cup {"kafka"}
    BY DEF Stages, OpenAt, Clients
  <2> QED BY <1>3, <2>1, OpensKeeps DEF StartKafka
<1>4. CASE StopKafka(w)
  <2>1. "stop_kafka" \in Stages /\ "close_redis" \in Stages
        /\ OpenAt("close_redis") = OpenAt("stop_kafka") \ {"kafka"}
    BY DEF Stages, OpenAt, Clients
  <2> QED BY <1>4, <2>1, ClosesKeeps DEF StopKafka
<1>5. CASE CloseRedis(w)
  <2>1. "close_redis" \in Stages /\ "close_db" \in Stages
        /\ OpenAt("close_db") = OpenAt("close_redis") \ {"redis"}
    BY DEF Stages, OpenAt, Clients
  <2> QED BY <1>5, <2>1, ClosesKeeps DEF CloseRedis
<1> QED BY <1>1, <1>2, <1>3, <1>4, <1>5

LEMMA SignalKeeps ==
    ASSUME IInv, NEW w \in Workers, Signal(w)
    PROVE  IInv'
<1>1. /\ stage[w] = "serve" /\ stage' = [stage EXCEPT ![w] = "drain"] /\ open' = open
      /\ skills' = skills /\ seed' = seed /\ poller' = poller
      /\ UNCHANGED <<conns, garbage, task, request, stored>> /\ faults' \in 0..MaxFaults
  BY Faults DEF Signal, polling
<1>2. open' = [open EXCEPT ![w] = open[w]]
  BY <1>1, Same
<1>3. open[w] = OpenAt("drain") /\ "drain" \in Stages
  BY <1>1, Local DEF StageInv, OpenAt, Stages
<1> QED BY <1>1, <1>2, <1>3, ClientMoves

-----------------------------------------------------------------------------
(***************************************************************************)
(* Seeding.                                                                *)
(***************************************************************************)
\* The seed_skills of w goes to d, and nothing is committed.
LEMMA SeedMoves ==
    ASSUME IInv, NEW w \in Workers, NEW d \in Seeds, seed' = [seed EXCEPT ![w] = d],
           stage[w] = "seed", d.next \in 1..(Len(SkillNames) + 1),
           \A i \in 1..Len(SkillNames) : i < d.next => SkillNames[i] \in skills \cup d.own,
           d.pc = "create" => d.next <= Len(SkillNames) /\ SkillNames[d.next] \notin d.own,
           d.own \cap skills = {}, \A v \in Workers \ {w} : d.own \cap seed[v].own = {},
           stage' = stage, open' = open, skills' = skills, conns' = conns, garbage' = garbage,
           poller' = poller, task' = task, stored' = stored, request' = request, faults' = faults
    PROVE  IInv'
<1>1. /\ stage' = stage /\ open' = open /\ skills' = skills /\ conns' = conns /\ garbage' = garbage
      /\ poller' = poller /\ task' = task /\ stored' = stored /\ request' = request /\ faults' = faults
  OBVIOUS
<1>2. seed \in [Workers -> Seeds]
  BY DEF IInv, TypeOK
<1>3. seed' \in [Workers -> Seeds] /\ seed'[w] = d /\ \A v \in Workers \ {w} : seed'[v] = seed[v]
  BY <1>2
<1>4. TypeOK'
  BY <1>1, <1>3, PoolKeeps DEF IInv, TypeOK
<1>5. ServingMeansSeeded'
  BY <1>1 DEF IInv, ServingMeansSeeded
<1>6. InsertsDiffer'
  <2>1. ASSUME NEW u \in Workers
        PROVE  /\ seed'[u].own \cap skills = {}
               /\ \A v \in Workers \ {u} : seed'[u].own \cap seed'[v].own = {}
    <3>1. seed[u].own \cap skills = {} /\ \A v \in Workers \ {u} : seed[u].own \cap seed[v].own = {}
      BY DEF IInv, InsertsDiffer
    <3>2. CASE u = w
      BY <3>2, <1>3
    <3>3. CASE u # w
      BY <3>1, <3>3, <1>3
    <3> QED BY <3>2, <3>3
  <2> QED BY <2>1, <1>1 DEF InsertsDiffer
<1>7. ASSUME NEW v \in Workers PROVE SeedInv(v)'
  <2>1. CASE v = w
    BY <2>1, <1>1, <1>3 DEF SeedInv, SeedName
  <2>2. CASE v # w
    <3>1. SeedInv(v) /\ seed'[v] = seed[v]
      BY <2>2, <1>3, Local
    <3> QED BY <3>1, <1>1 DEF SeedInv, SeedName
  <2> QED BY <2>1, <2>2
<1>8. \A v \in Workers : StageInv(v)' /\ TasksInv(v)'
  BY <1>1 DEF IInv, StageInv, OpenAt, TasksInv
<1>9. NoneIsLost' /\ ClientsOutliveUsers'
  BY <1>1 DEF IInv, NoneIsLost, Users, ClientsOutliveUsers
<1> QED BY <1>4, <1>5, <1>6, <1>7, <1>8, <1>9 DEF IInv

LEMMA SeedExistsKeeps ==
    ASSUME IInv, NEW w \in Workers, SeedExists(w)
    PROVE  IInv'
<1>1. /\ stage[w] = "seed" /\ seed[w].pc = "exists" /\ seed[w].next <= Len(SkillNames)
      /\ stage' = stage /\ open' = open /\ skills' = skills /\ conns' = conns /\ garbage' = garbage
      /\ poller' = poller /\ task' = task /\ stored' = stored /\ request' = request /\ faults' = faults
      /\ seed \in [Workers -> Seeds] /\ seed[w] \in Seeds
  BY Local DEF SeedExists, IInv, TypeOK, polling
<1>2. /\ seed[w].next \in 1..(Len(SkillNames) + 1) /\ Len(SkillNames) \in Nat
      /\ \A i \in 1..Len(SkillNames) : i < seed[w].next => SkillNames[i] \in skills \cup seed[w].own
      /\ seed[w].own \cap skills = {} /\ \A v \in Workers \ {w} : seed[w].own \cap seed[v].own = {}
  BY Local, Positions DEF SeedInv, IInv, InsertsDiffer
<1>3. CASE SeedName(w) \in skills \cup seed[w].own
  <2> DEFINE d == [seed[w] EXCEPT !.next = @ + 1]
  <2>1. seed' = [seed EXCEPT ![w] = d]
    BY <1>1, <1>3 DEF SeedExists
  <2>2. d \in Seeds /\ d.next = seed[w].next + 1 /\ d.pc = "exists" /\ d.own = seed[w].own
    BY <1>1, <1>2 DEF Seeds
  <2> HIDE DEF d
  <2>3. /\ d.next \in 1..(Len(SkillNames) + 1)
        /\ \A i \in 1..Len(SkillNames) : i < d.next => SkillNames[i] \in skills \cup d.own
    BY <1>1, <1>2, <1>3, <2>2 DEF SeedName
  <2>4. /\ d.own \cap skills = {} /\ \A v \in Workers \ {w} : d.own \cap seed[v].own = {}
        /\ d.pc # "create"
    BY <1>2, <2>2
  <2> QED BY <2>4, <1>1, <1>2, <2>1, <2>2, <2>3, SeedMoves
<1>4. CASE SeedName(w) \notin skills \cup seed[w].own
  <2> DEFINE d == [seed[w] EXCEPT !.pc = "create"]
  <2>1. seed' = [seed EXCEPT ![w] = d]
    BY <1>1, <1>4 DEF SeedExists
  <2>2. d \in Seeds /\ d.next = seed[w].next /\ d.pc = "create" /\ d.own = seed[w].own
    BY <1>1, <1>2 DEF Seeds
  <2> HIDE DEF d
  <2>3. d.next <= Len(SkillNames) /\ SkillNames[d.next] \notin d.own
    BY <1>1, <1>4, <2>2 DEF SeedName
  <2>4. /\ d.next \in 1..(Len(SkillNames) + 1)
        /\ \A i \in 1..Len(SkillNames) : i < d.next => SkillNames[i] \in skills \cup d.own
        /\ d.own \cap skills = {} /\ \A v \in Workers \ {w} : d.own \cap seed[v].own = {}
    BY <1>2, <2>2
  <2> QED BY <2>4, <1>1, <1>2, <2>1, <2>2, <2>3, SeedMoves
<1> QED BY <1>3, <1>4

\* The insert that succeeds: neither committed nor open elsewhere.
LEMMA SeedInsertKeeps ==
    ASSUME IInv, NEW w \in Workers, SeedCreate(w), SeedName(w) \notin skills
    PROVE  IInv'
<1>1. /\ stage[w] = "seed" /\ seed[w].pc = "create"
      /\ \A v \in Workers \ {w} : SeedName(w) \notin seed[v].own
      /\ seed' = [seed EXCEPT ![w].own = @ \cup {SeedName(w)}, ![w].next = @ + 1, ![w].pc = "exists"]
      /\ stage' = stage /\ open' = open /\ skills' = skills /\ conns' = conns /\ garbage' = garbage
      /\ poller' = poller /\ task' = task /\ stored' = stored /\ request' = request /\ faults' = faults
      /\ seed \in [Workers -> Seeds] /\ seed[w] \in Seeds
  BY Local DEF SeedCreate, IInv, TypeOK, polling
<1>2. /\ seed[w].next \in 1..Len(SkillNames) /\ Len(SkillNames) \in Nat
      /\ \A i \in 1..Len(SkillNames) : i < seed[w].next => SkillNames[i] \in skills \cup seed[w].own
      /\ seed[w].own \cap skills = {} /\ \A v \in Workers \ {w} : seed[w].own \cap seed[v].own = {}
      /\ SeedName(w) \in Range(SkillNames)
  <2>1. /\ seed[w].next \in 1..(Len(SkillNames) + 1) /\ seed[w].next <= Len(SkillNames)
        /\ Len(SkillNames) \in Nat
        /\ \A i \in 1..Len(SkillNames) : i < seed[w].next => SkillNames[i] \in skills \cup seed[w].own
    BY <1>1, Local, Positions DEF SeedInv
  <2>2. seed[w].own \cap skills = {} /\ \A v \in Workers \ {w} : seed[w].own \cap seed[v].own = {}
    BY DEF IInv, InsertsDiffer
  <2>3. seed[w].next \in 1..Len(SkillNames)
    BY <2>1
  <2>4. SeedName(w) \in Range(SkillNames)
    BY <2>3, Positions DEF SeedName
  <2> QED BY <2>1, <2>2, <2>3, <2>4
<1> DEFINE d == [next |-> seed[w].next + 1, pc |-> "exists", own |-> seed[w].own \cup {SeedName(w)}]
<1>3. seed' = [seed EXCEPT ![w] = d]
  BY <1>1 DEF Seeds
<1>4. d \in Seeds /\ d.next = seed[w].next + 1 /\ d.pc = "exists" /\ d.own = seed[w].own \cup {SeedName(w)}
  BY <1>1, <1>2 DEF Seeds
<1> HIDE DEF d
<1>5. /\ d.next \in 1..(Len(SkillNames) + 1)
      /\ \A i \in 1..Len(SkillNames) : i < d.next => SkillNames[i] \in skills \cup d.own
  BY <1>2, <1>4 DEF SeedName
<1>6. d.own \cap skills = {} /\ \A v \in Workers \ {w} : d.own \cap seed[v].own = {}
  BY <1>1, <1>2, <1>4
<1>7. d \in Seeds /\ (d.pc = "create" => d.next <= Len(SkillNames) /\ SkillNames[d.next] \notin d.own)
  BY <1>4
<1>8. /\ stage[w] = "seed"
      /\ stage' = stage /\ open' = open /\ skills' = skills /\ conns' = conns /\ garbage' = garbage
      /\ poller' = poller /\ task' = task /\ stored' = stored /\ request' = request /\ faults' = faults
  BY <1>1
<1> QED BY ONLY IInv, w \in Workers, <1>3, <1>5, <1>6, <1>7, <1>8, SeedMoves

LEMMA SeedCommitKeeps ==
    ASSUME IInv, NEW w \in Workers, SeedCommit(w)
    PROVE  IInv'
<1>1. /\ stage[w] = "seed" /\ seed[w].next = Len(SkillNames) + 1
      /\ skills' = skills \cup seed[w].own /\ seed' = [seed EXCEPT ![w] = NoSeed]
      /\ stage' = [stage EXCEPT ![w] = "serve"] /\ open' = open
      /\ poller' = [poller EXCEPT ![w] = "list"]
      /\ UNCHANGED <<conns, garbage, task, request, stored>> /\ faults' = faults
  BY DEF SeedCommit
<1>2. /\ seed \in [Workers -> Seeds] /\ seed[w] \in Seeds /\ stage \in [Workers -> Stages]
      /\ skills \subseteq Range(SkillNames) /\ seed[w].own \subseteq Range(SkillNames)
  BY Local DEF IInv, TypeOK, Seeds
<1>3. /\ seed' \in [Workers -> Seeds] /\ seed'[w] = NoSeed /\ stage'[w] = "serve"
      /\ \A v \in Workers \ {w} : seed'[v] = seed[v] /\ stage'[v] = stage[v]
  BY <1>1, <1>2, NoSeedIsSeed
<1>4. skills' = Range(SkillNames)
  <2>1. \A i \in 1..Len(SkillNames) : SkillNames[i] \in skills \cup seed[w].own
    BY <1>1, Local, Positions DEF SeedInv
  <2> QED BY <2>1, <1>1, <1>2, Positions
<1>5. ServingMeansSeeded'
  BY <1>4 DEF ServingMeansSeeded
<1>6. InsertsDiffer'
  <2>1. \A u \in Workers : seed[u].own \cap skills = {} /\ \A v \in Workers \ {u} : seed[u].own \cap seed[v].own = {}
    BY DEF IInv, InsertsDiffer
  <2>2. ASSUME NEW u \in Workers
        PROVE  /\ seed'[u].own \cap skills' = {}
               /\ \A v \in Workers \ {u} : seed'[u].own \cap seed'[v].own = {}
    <3>1. CASE u = w
      BY <3>1, <1>3, NoSeedIsSeed
    <3>2. CASE u # w
      BY <3>2, <2>1, <1>1, <1>3, NoSeedIsSeed
    <3> QED BY <3>1, <3>2
  <2> QED BY <2>2 DEF InsertsDiffer
<1>7. \A v \in Workers : SeedInv(v)'
  <2> SUFFICES ASSUME NEW v \in Workers PROVE SeedInv(v)'
    OBVIOUS
  <2>1. CASE v = w
    BY <2>1, <1>3, NoSeedIsSeed, Positions DEF SeedInv
  <2>2. CASE v # w
    <3>1. SeedInv(v) /\ seed'[v] = seed[v] /\ stage'[v] = stage[v]
      BY <2>2, <1>3, Local
    <3> QED BY <3>1, <1>1 DEF SeedInv, SeedName
  <2> QED BY <2>1, <2>2
<1>8. /\ open' = [open EXCEPT ![w] = open[w]] /\ faults' \in 0..MaxFaults
      /\ open[w] = OpenAt("serve") /\ "serve" \in Stages /\ poller[w] = "off"
  BY <1>1, Same, Local DEF StageInv, OpenAt, Stages
<1>9. skills' \subseteq Range(SkillNames) /\ seed' \in [Workers -> Seeds]
  BY <1>3, <1>4
<1> QED BY <1>1, <1>5, <1>6, <1>7, <1>8, <1>9, StageMoves

-----------------------------------------------------------------------------
(***************************************************************************)
(* The end of a worker: nobody is left, and nothing is inserted.           *)
(***************************************************************************)
LEMMA Stops ==
    ASSUME IInv, NEW w \in Workers, NEW s \in Stages \ {"seed", "serve", "drain"}, NEW o, NEW g \in Nat,
           stage' = [stage EXCEPT ![w] = s], open' = [open EXCEPT ![w] = o], o = OpenAt(s),
           seed' = [seed EXCEPT ![w] = NoSeed], skills' = skills, stored' = stored,
           conns' = [conns EXCEPT ![w] = {}], garbage' = [garbage EXCEPT ![w] = g], g <= POOL_SIZE,
           poller' = [poller EXCEPT ![w] = "off"], task' = [task EXCEPT ![w] = NoTasks],
           request' = [request EXCEPT ![w] = NoRequests], faults' \in 0..MaxFaults
    PROVE  IInv'
<1>1. /\ stage \in [Workers -> Stages] /\ open \in [Workers -> SUBSET Clients]
      /\ seed \in [Workers -> Seeds] /\ stored \subseteq Apps /\ skills \subseteq Range(SkillNames)
      /\ poller \in [Workers -> {"off", "list", "sessions", "gather"}]
      /\ task \in [Workers -> [Apps -> {"none", "listed", "ask", "connect", "store"}]]
      /\ request \in [Workers -> [Requests -> {"idle", "wait", "run"}]]
  BY DEF IInv, TypeOK
<1>2. /\ conns' \in [Workers -> SUBSET Holders] /\ garbage' \in [Workers -> Nat]
      /\ \A v \in Workers : IsFiniteSet(conns'[v]) /\ Cardinality(conns'[v]) + garbage'[v] <= POOL_SIZE
      /\ conns'[w] = {} /\ \A v \in Workers \ {w} : conns'[v] = conns[v]
  <2>1. {} \subseteq Holders /\ IsFiniteSet({}) /\ Cardinality({}) + g <= POOL_SIZE
    BY EmptyPool
  <2> QED BY <2>1, PoolMoves
<1>3. o \subseteq Clients
  BY DEF OpenAt, Clients
<1>4. /\ stage' \in [Workers -> Stages] /\ open' \in [Workers -> SUBSET Clients]
      /\ stage'[w] = s /\ open'[w] = o
      /\ \A v \in Workers \ {w} : stage'[v] = stage[v] /\ open'[v] = open[v]
  BY <1>1, <1>3
<1>5. /\ seed' \in [Workers -> Seeds] /\ seed'[w] = NoSeed
      /\ \A v \in Workers \ {w} : seed'[v] = seed[v]
  BY <1>1, NoSeedIsSeed
<1>6. /\ poller' \in [Workers -> {"off", "list", "sessions", "gather"}]
      /\ task' \in [Workers -> [Apps -> {"none", "listed", "ask", "connect", "store"}]]
      /\ request' \in [Workers -> [Requests -> {"idle", "wait", "run"}]]
      /\ poller'[w] = "off" /\ task'[w] = NoTasks /\ request'[w] = NoRequests
      /\ \A v \in Workers \ {w} : poller'[v] = poller[v] /\ task'[v] = task[v] /\ request'[v] = request[v]
  BY <1>1, Idles
<1>7. TypeOK'
  BY <1>1, <1>2, <1>4, <1>5, <1>6 DEF TypeOK
<1>8. ServingMeansSeeded'
  BY <1>4 DEF IInv, ServingMeansSeeded
<1>9. InsertsDiffer'
  <2>1. ASSUME NEW u \in Workers
        PROVE  /\ seed'[u].own \cap skills = {}
               /\ \A v \in Workers \ {u} : seed'[u].own \cap seed'[v].own = {}
    <3>1. seed[u].own \cap skills = {} /\ \A v \in Workers \ {u} : seed[u].own \cap seed[v].own = {}
      BY DEF IInv, InsertsDiffer
    <3>2. CASE u = w
      BY <3>2, <1>5, NoSeedIsSeed
    <3>3. CASE u # w
      BY <3>1, <3>3, <1>5, NoSeedIsSeed
    <3> QED BY <3>2, <3>3
  <2> QED BY <2>1 DEF InsertsDiffer
<1>10. ASSUME NEW v \in Workers PROVE StageInv(v)' /\ SeedInv(v)' /\ TasksInv(v)'
  <2>1. CASE v = w
    <3>1. StageInv(v)'
      BY <2>1, <1>4, <1>6 DEF StageInv, OpenAt
    <3>2. SeedInv(v)'
      BY <2>1, <1>5, NoSeedIsSeed, Positions DEF SeedInv
    <3>3. TasksInv(v)'
      BY <2>1, <1>6 DEF TasksInv
    <3> QED BY <3>1, <3>2, <3>3
  <2>2. CASE v # w
    <3>1. StageInv(v) /\ SeedInv(v) /\ TasksInv(v)
      BY Local
    <3>2. StageInv(v)'
      BY <3>1, <2>2, <1>4, <1>6 DEF StageInv, OpenAt
    <3>3. SeedInv(v)'
      <4>1. seed'[v] = seed[v] /\ stage'[v] = stage[v]
        BY <2>2, <1>4, <1>5
      <4> QED BY <4>1, <3>1 DEF SeedInv, SeedName
    <3>4. TasksInv(v)'
      BY <3>1, <2>2, <1>6 DEF TasksInv
    <3> QED BY <3>2, <3>3, <3>4
  <2> QED BY <2>1, <2>2
<1>11. NoneIsLost'
  <2> SUFFICES ASSUME NEW v \in Workers
               PROVE  conns'[v] = Users(poller'[v], task'[v], request'[v])
    BY DEF NoneIsLost
  <2>1. CASE v = w
    BY <2>1, <1>2, <1>6, Idles DEF Users
  <2>2. CASE v # w
    BY <2>2, <1>2, <1>6 DEF IInv, NoneIsLost
  <2> QED BY <2>1, <2>2
<1>12. ClientsOutliveUsers'
  BY <1>10, StagesSettle
<1> QED BY <1>7, <1>8, <1>9, <1>10, <1>11, <1>12 DEF IInv

LEMMA ExitKeeps ==
    ASSUME IInv, NEW w \in Workers, Exit(w), faults' \in 0..MaxFaults
    PROVE  IInv'
<1>1. "down" \in Stages \ {"seed", "serve", "drain"} /\ OpenAt("down") = {} /\ 0 \in Nat /\ 0 <= POOL_SIZE
  BY DEF Stages, OpenAt
<1>2. skills' = skills /\ stored' = stored
  BY DEF Exit
<1> QED BY <1>1, <1>2, Stops DEF Exit

LEMMA SeedCreateKeeps ==
    ASSUME IInv, NEW w \in Workers, SeedCreate(w)
    PROVE  IInv'
<1>1. CASE SeedName(w) \notin skills
  BY <1>1, SeedInsertKeeps
<1>2. CASE SeedName(w) \in skills
  <2>1. Exit(w) /\ faults' \in 0..MaxFaults
    BY <1>2, Same DEF SeedCreate
  <2> QED BY <2>1, ExitKeeps
<1> QED BY <1>1, <1>2

LEMMA CloseDbKeeps ==
    ASSUME IInv, NEW w \in Workers, CloseDb(w)
    PROVE  IInv'
<1>1. Exit(w) /\ faults' \in 0..MaxFaults
  BY Same DEF CloseDb
<1> QED BY <1>1, ExitKeeps

LEMMA CrashKeeps ==
    ASSUME IInv, NEW w \in Workers, Crash(w)
    PROVE  IInv'
<1>1. Exit(w) /\ faults' \in 0..MaxFaults
  BY Faults DEF Crash
<1> QED BY <1>1, ExitKeeps

LEMMA CancelPollerKeeps ==
    ASSUME IInv, NEW w \in Workers, CancelPoller(w)
    PROVE  IInv'
<1> DEFINE g == garbage[w] + Cardinality(conns[w] \cap {"pass"})
<1>1. /\ stage[w] = "drain" /\ request[w] = NoRequests
      /\ stage' = [stage EXCEPT ![w] = "stop_kafka"] /\ open' = open
      /\ skills' = skills /\ seed' = seed /\ stored' = stored /\ request' = request /\ faults' = faults
      /\ conns' = [conns EXCEPT ![w] = {}] /\ poller' = [poller EXCEPT ![w] = "off"]
      /\ task' = [task EXCEPT ![w] = NoTasks]
  BY DEF CancelPoller
<1>2. garbage' = [garbage EXCEPT ![w] = g]
  <2>1. garbage \in [Workers -> Nat]
    BY DEF IInv, TypeOK
  <2> QED BY <2>1 DEF CancelPoller
<1>3. g \in Nat /\ g <= POOL_SIZE
  <2>1. /\ IsFiniteSet(conns[w]) /\ Cardinality(conns[w]) \in Nat /\ garbage[w] \in Nat
        /\ Cardinality(conns[w]) + garbage[w] <= POOL_SIZE
    BY Local
  <2>2. conns[w] \cap {"pass"} \subseteq conns[w]
    OBVIOUS
  <2>3. IsFiniteSet(conns[w] \cap {"pass"}) /\ Cardinality(conns[w] \cap {"pass"}) <= Cardinality(conns[w])
    BY <2>1, <2>2, FS_Subset
  <2>4. Cardinality(conns[w] \cap {"pass"}) \in Nat
    BY <2>3, FS_CardinalityType
  <2> QED BY <2>1, <2>3, <2>4
<1> HIDE DEF g
<1>4. /\ open' = [open EXCEPT ![w] = open[w]] /\ request' = [request EXCEPT ![w] = NoRequests]
      /\ seed' = [seed EXCEPT ![w] = NoSeed] /\ faults' \in 0..MaxFaults
  <2>1. seed[w] = NoSeed
    BY <1>1, Local DEF SeedInv
  <2> QED BY <2>1, <1>1, Same
<1>5. open[w] = OpenAt("stop_kafka") /\ "stop_kafka" \in Stages \ {"seed", "serve", "drain"}
  BY <1>1, Local DEF StageInv, OpenAt, Stages
<1> QED BY <1>1, <1>2, <1>3, <1>4, <1>5, Stops

-----------------------------------------------------------------------------
LEMMA LifespanKeeps ==
    ASSUME IInv, NEW w \in Workers, Lifespan(w)
    PROVE  IInv'
BY SpawnKeeps, ClientStepsKeep, SeedExistsKeeps, SeedCreateKeeps, SeedCommitKeeps,
   CancelPollerKeeps, CloseDbKeeps DEF Lifespan

LEMMA NextKeeps == IInv /\ [Next]_vars => IInv'
<1> SUFFICES ASSUME IInv, [Next]_vars PROVE IInv'
  OBVIOUS
<1>1. CASE Next
  <2> PICK w : /\ w \in Workers
               /\ \/ Lifespan(w) \/ Signal(w) \/ Crash(w)
                  \/ Pass(w) \/ PassFails(w) \/ Collect(w)
                  \/ \E a \in Apps : Task(w, a) \/ TaskFails(w, a)
                  \/ \E r \in Requests : RequestArrives(w, r) \/ Request(w, r) \/ RequestTimesOut(w, r)
    BY <1>1 DEF Next
  <2>1. CASE Lifespan(w) \/ Signal(w) \/ Crash(w)
    BY <2>1, LifespanKeeps, SignalKeeps, CrashKeeps
  <2>2. CASE Pass(w) \/ PassFails(w) \/ Collect(w)
    BY <2>2, PollListKeeps, PollSessionsKeeps, PassEndsKeeps, PassFailsKeeps, CollectKeeps DEF Pass
  <2>3. CASE \E a \in Apps : Task(w, a) \/ TaskFails(w, a)
    BY <2>3, TaskAskKeeps, TaskConnectKeeps, TaskStoreKeeps, TaskFailsKeeps DEF Task
  <2>4. CASE \E r \in Requests : RequestArrives(w, r) \/ Request(w, r) \/ RequestTimesOut(w, r)
    BY <2>4, RequestArrivesKeeps, RequestConnectsKeeps, RequestEndsKeeps, RequestTimesOutKeeps DEF Request
  <2> QED BY <2>1, <2>2, <2>3, <2>4
<1>2. CASE UNCHANGED vars
  <2>1. /\ stage' = stage /\ open' = open /\ skills' = skills /\ seed' = seed /\ conns' = conns
        /\ garbage' = garbage /\ poller' = poller /\ task' = task /\ stored' = stored
        /\ request' = request /\ faults' = faults
    BY <1>2 DEF vars, startup, polling
  <2>2. TypeOK'
    BY <2>1, PoolKeeps DEF IInv, TypeOK
  <2>3. \A v \in Workers : StageInv(v)' /\ TasksInv(v)'
    BY <2>1 DEF IInv, StageInv, OpenAt, TasksInv
  <2>4. NoneIsLost' /\ ClientsOutliveUsers'
    BY <2>1 DEF IInv, NoneIsLost, Users, ClientsOutliveUsers
  <2> QED BY <2>1, <2>2, <2>3, <2>4, StartupKeeps DEF IInv
<1> QED BY <1>1, <1>2

-----------------------------------------------------------------------------
(***************************************************************************)
(* Theorems.                                                               *)
(***************************************************************************)
\* However the startups, the shutdowns, the crashes and the work of the workers
\* (main.py) interleave, the inductive invariant holds.
THEOREM ServerIInv == Spec => []IInv
<1>1. Init => IInv
  BY InitIInv
<1>2. IInv /\ [Next]_vars => IInv'
  BY NextKeeps
<1> QED BY <1>1, <1>2, PTL DEF Spec

\* A worker that serves finds every skill in the table, whichever workers seeded
\* at once and whichever failed before their commit (main.py, seed_skills).
THEOREM ServerServingMeansSeeded == Spec => []ServingMeansSeeded
<1>1. IInv => ServingMeansSeeded
  BY DEF IInv
<1> QED BY <1>1, ServerIInv, PTL

\* Whenever a request, a task or the poller is there to use the database, Redis
\* or Kafka, all three are open (main.py, lifespan).
THEOREM ServerClientsOutliveUsers == Spec => []ClientsOutliveUsers
<1>1. IInv => ClientsOutliveUsers
  BY DEF IInv
<1> QED BY <1>1, ServerIInv, PTL

\* The connections a worker holds are exactly those of the requests and tasks
\* that run and of the pass that gathers (session.py, get_db and poll_once), and
\* with the garbage they never exceed the pool.
THEOREM ServerPoolIsAccountedFor ==
    Spec => [](NoneIsLost /\ \A w \in Workers : Cardinality(conns[w]) + garbage[w] <= POOL_SIZE)
<1>1. IInv => NoneIsLost /\ \A w \in Workers : Cardinality(conns[w]) + garbage[w] <= POOL_SIZE
  BY DEF IInv, TypeOK
<1> QED BY <1>1, ServerIInv, PTL
===============================================================================
