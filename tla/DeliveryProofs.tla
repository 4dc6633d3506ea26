----------------------------- MODULE DeliveryProofs -----------------------------
(***************************************************************************)
(* Theorems about Delivery, for any alerts, limits, timeouts, tools and    *)
(* clocks: what the agent delivers, it delivers as Outbox promises, and    *)
(* the commands of a run and its deadline never make it report what is not *)
(* so.                                                                     *)
(***************************************************************************)
EXTENDS Delivery, QueueProofs

-----------------------------------------------------------------------------
(* The commands of a run *)

ToolNames == {"journalctl", "systemctl", "apt-get", "dpkg", "needrestart", "timedatectl",
              "pg_lsclusters"}
CheckNames == {"memory.oom", "kernel.errors", "systemd.failed", "apt.check", "dpkg.audit",
               "apt.timers", "kernel.needrestart", "time.sync", "agent.timer"}
                \cup STRING
CommandRecords == [tool : ToolNames, limit : Nat, checks : SUBSET CheckNames]

\* The seconds a command adds to the run.
Cost(hangs, i) == IF Commands[i].tool \in hangs THEN Commands[i].limit ELSE 0

\* The commands of the configured services are the last ones.
LEMMA ServiceChecksAre ==
  /\ ServiceChecks \in Seq(CommandRecords) /\ Len(ServiceChecks) = Len(Services)
  /\ \A i \in 1 .. Len(Services) : ServiceChecks[i] = ServiceCommand(Services[i], 8)
PROOF
<1>1. Services \in Seq(STRING) /\ DOMAIN Services = 1 .. Len(Services)
  BY CheckRunAssumption
<1>2. ASSUME NEW i \in 1 .. Len(Services)
      PROVE  ServiceCommand(Services[i], 8) \in CommandRecords
  BY <1>1 DEF ServiceCommand, Command, CommandRecords, ToolNames, CheckNames
<1> QED BY <1>1, <1>2 DEF ServiceChecks

\* The tools of the commands of every run, and their limits.
ToolAt == <<"journalctl", "systemctl", "apt-get", "dpkg", "systemctl", "systemctl", "systemctl",
            "systemctl", "systemctl", "journalctl", "needrestart", "timedatectl", "systemctl">>
LimitAt == <<15, 10, 30, 20, 8, 8, 8, 8, 8, 15, 30, 10, 10>>

Listed(commands, first, n) ==
  /\ commands \in Seq(CommandRecords) /\ Len(commands) = n
  /\ \A i \in 1 .. n :
       commands[i].tool = ToolAt[first + i] /\ commands[i].limit = LimitAt[first + i]

Joins(u, s, t) ==
  /\ Len(u) = Len(s) + Len(t)
  /\ \A i \in 1 .. Len(s) : u[i] = s[i]
  /\ \A i \in 1 .. Len(t) : u[Len(s) + i] = t[i]

\* Two sequences, one after the other.
LEMMA Concatenation ==
  ASSUME NEW S, NEW s \in Seq(S), NEW t \in Seq(S)
  PROVE  s \o t \in Seq(S) /\ Joins(s \o t, s, t)
PROOF
<1>1. \A i \in 1 .. Len(s) : (s \o t)[i] = s[i]
  OBVIOUS
<1>2. \A i \in 1 .. Len(t) : (s \o t)[Len(s) + i] = t[i]
  OBVIOUS
<1>3. s \o t \in Seq(S) /\ Len(s \o t) = Len(s) + Len(t)
  OBVIOUS
<1> QED BY <1>1, <1>2, <1>3 DEF Joins

\* The list grows part by part.
LEMMA ListGrows ==
  ASSUME NEW n \in Nat, NEW m \in Nat, NEW s, NEW t, Listed(s, 0, n), Listed(t, n, m)
  PROVE  Listed(s \o t, 0, n + m)
PROOF
<1> DEFINE u == s \o t
<1>1. s \in Seq(CommandRecords) /\ Len(s) = n /\ t \in Seq(CommandRecords) /\ Len(t) = m
  BY DEF Listed
<1>2. u = s \o t
  OBVIOUS
<1> HIDE DEF u
<1>3. /\ u \in Seq(CommandRecords) /\ Len(u) = n + m
      /\ \A i \in 1 .. n : u[i] = s[i]
      /\ \A i \in 1 .. m : u[n + i] = t[i]
  <2>1. u \in Seq(CommandRecords) /\ Joins(u, s, t)
    BY <1>1, <1>2, Concatenation
  <2> QED BY <1>1, <2>1 DEF Joins
<1>4. ASSUME NEW i \in 1 .. n + m
      PROVE  u[i].tool = ToolAt[0 + i] /\ u[i].limit = LimitAt[0 + i]
  <2>1. CASE i <= n
    <3>1. i \in 1 .. n
      BY <2>1
    <3> QED BY <1>3, <3>1 DEF Listed
  <2>2. CASE i > n
    <3>1. PICK j \in 1 .. m : i = n + j
      <4>1. i - n \in 1 .. m /\ i = n + (i - n)
        BY <2>2
      <4> QED BY <4>1
    <3>2. u[i] = t[j] /\ 0 + i = n + j
      BY <1>3, <3>1
    <3> QED BY <3>2 DEF Listed
  <2> QED BY <2>1, <2>2
<1>5. Listed(u, 0, n + m)
  BY <1>3, <1>4 DEF Listed
<1> QED BY <1>5 DEF u

\* Commands lists them in this order, those of the services last.
LEMMA CommandsAre ==
  /\ Commands \in Seq(CommandRecords) /\ Len(Commands) = 13 + Len(Services)
  /\ \A i \in 1 .. 13 : Commands[i].tool = ToolAt[i] /\ Commands[i].limit = LimitAt[i]
  /\ \A i \in 1 .. Len(Services) : Commands[13 + i] = ServiceCommand(Services[i], 8)
PROOF
<1> USE DEF Command, CommandRecords, ToolNames, CheckNames, ToolAt, LimitAt, Listed
<1>1. Listed(KernelJournal, 0, 1)
  BY DEF KernelJournal
<1>2. Listed(FailedUnits, 1, 1)
  BY DEF FailedUnits
<1>3. Listed(APT, 2, 1)
  BY DEF APT
<1>4. Listed(DPKG, 3, 1)
  BY DEF DPKG
<1>5. Listed(APTTimers, 4, 4)
  BY DEF APTTimers
<1>6. Listed(UnattendedUpgrades, 8, 2)
  BY DEF UnattendedUpgrades
<1>7. Listed(Needrestart, 10, 1)
  BY DEF Needrestart
<1>8. Listed(TimeSync, 11, 1)
  BY DEF TimeSync
<1>9. Listed(AgentTimer, 12, 1)
  BY DEF AgentTimer
<1> DEFINE first == KernelJournal \o FailedUnits \o APT \o DPKG \o APTTimers
                      \o UnattendedUpgrades \o Needrestart \o TimeSync \o AgentTimer
<1> HIDE DEF Command, CommandRecords, ToolNames, CheckNames, ToolAt, LimitAt, Listed
<1>10. Listed(KernelJournal \o FailedUnits, 0, 2)
  BY <1>1, <1>2, ListGrows, 1 + 1 = 2
<1>11. Listed(KernelJournal \o FailedUnits \o APT, 0, 3)
  BY <1>3, <1>10, ListGrows, 2 + 1 = 3
<1>12. Listed(KernelJournal \o FailedUnits \o APT \o DPKG, 0, 4)
  BY <1>4, <1>11, ListGrows, 3 + 1 = 4
<1>13. Listed(KernelJournal \o FailedUnits \o APT \o DPKG \o APTTimers, 0, 8)
  BY <1>5, <1>12, ListGrows, 4 + 4 = 8
<1>14. Listed(KernelJournal \o FailedUnits \o APT \o DPKG \o APTTimers
                \o UnattendedUpgrades, 0, 10)
  BY <1>6, <1>13, ListGrows, 8 + 2 = 10
<1>15. Listed(KernelJournal \o FailedUnits \o APT \o DPKG \o APTTimers
                \o UnattendedUpgrades \o Needrestart, 0, 11)
  BY <1>7, <1>14, ListGrows, 10 + 1 = 11
<1>16. Listed(KernelJournal \o FailedUnits \o APT \o DPKG \o APTTimers
                \o UnattendedUpgrades \o Needrestart \o TimeSync, 0, 12)
  BY <1>8, <1>15, ListGrows, 11 + 1 = 12
<1>17. Listed(first, 0, 13)
  BY <1>9, <1>16, ListGrows, 12 + 1 = 13
<1>18. Commands = first \o ServiceChecks
  BY DEF Commands
<1> HIDE DEF first
<1>19. /\ first \in Seq(CommandRecords) /\ Len(first) = 13
       /\ \A i \in 1 .. 13 : first[i].tool = ToolAt[i] /\ first[i].limit = LimitAt[i]
  BY <1>17, \A i \in 1 .. 13 : 0 + i = i DEF Listed
<1>20. ServiceChecks \in Seq(CommandRecords) /\ Len(ServiceChecks) = Len(Services)
  BY ServiceChecksAre
<1>21. /\ Commands \in Seq(CommandRecords) /\ Len(Commands) = 13 + Len(Services)
       /\ \A i \in 1 .. 13 : Commands[i] = first[i]
       /\ \A i \in 1 .. Len(Services) : Commands[13 + i] = ServiceChecks[i]
  <2>1. Commands \in Seq(CommandRecords) /\ Joins(Commands, first, ServiceChecks)
    BY <1>18, <1>19, <1>20, Concatenation
  <2> QED BY <1>19, <1>20, <2>1 DEF Joins
<1>22. \A i \in 1 .. Len(Services) : ServiceChecks[i] = ServiceCommand(Services[i], 8)
  BY ServiceChecksAre
<1> QED BY ONLY <1>19, <1>21, <1>22

\* Every command costs a number of seconds, whatever hangs.
LEMMA CostsAreNatural ==
  ASSUME NEW hangs
  PROVE  Len(Commands) \in Nat /\ \A i \in 1 .. Len(Commands) : Cost(hangs, i) \in Nat
PROOF
<1>1. Commands \in Seq(CommandRecords)
  BY CommandsAre
<1>2. Len(Commands) \in Nat /\ \A i \in 1 .. Len(Commands) : Commands[i] \in CommandRecords
  BY ONLY <1>1
<1>3. \A i \in 1 .. Len(Commands) : Commands[i].limit \in Nat
  BY ONLY <1>2 DEF CommandRecords
<1> QED BY ONLY <1>2, <1>3 DEF Cost

Accumulates(hangs, answering) ==
  /\ Elapsed(hangs, answering, 0) = answering
  /\ \A i \in 0 .. Len(Commands) : Elapsed(hangs, answering, i) \in Nat
  /\ \A i \in 1 .. Len(Commands) :
       Elapsed(hangs, answering, i) = Elapsed(hangs, answering, i - 1) + Cost(hangs, i)

\* Every command adds what it costs.
LEMMA ElapsedAdds ==
  ASSUME NEW hangs, NEW answering \in Nat
  PROVE  Accumulates(hangs, answering)
PROOF
<1> DEFINE N == Len(Commands)
           G == [i \in 1 .. N |-> [d \in Nat |-> d + Cost(hangs, i)]]
           Iter(n, f) == [i \in 0 .. n |-> IF i = 0 THEN answering
                                           ELSE f[i - 1] + Cost(hangs, i)]
           elapsed(n) == CHOOSE f : f = Iter(n, f)
<1>1. N \in Nat /\ \A i \in 1 .. N : Cost(hangs, i) \in Nat
  BY CostsAreNatural
<1>2. \A n : Elapsed(hangs, answering, n) = elapsed(n)[n]
  BY DEF Elapsed, Cost
<1> HIDE DEF N
<1>3. PICK f \in [0 .. N -> Nat] : Runs(f, answering, N, G)
  <2>1. G \in [1 .. N -> [Nat -> Nat]]
    BY <1>1
  <2> HIDE DEF G
  <2> QED BY ONLY <1>1, <2>1, answering \in Nat, Recursion
<1>4. \A i \in 1 .. N : f[i] = f[i - 1] + Cost(hangs, i)
  <2> TAKE i \in 1 .. N
  <2>1. i - 1 \in 0 .. N /\ f[i - 1] \in Nat
    BY <1>1
  <2>2. G[i] = [d \in Nat |-> d + Cost(hangs, i)]
    OBVIOUS
  <2>3. f[i] = G[i][f[i - 1]]
    BY <1>3 DEF Runs
  <2> QED BY <2>1, <2>2, <2>3
<1>5. f[0] = answering
  BY <1>3 DEF Runs
<1> HIDE DEF G
<1>6. ASSUME NEW n \in 0 .. N PROVE elapsed(n)[n] = f[n]
  <2> DEFINE g == [i \in 0 .. n |-> f[i]]
  <2>1. g = Iter(n, g)
    <3>1. ASSUME NEW i \in 0 .. n
          PROVE  g[i] = IF i = 0 THEN answering ELSE g[i - 1] + Cost(hangs, i)
      <4>1. CASE i = 0
        BY <1>5, <4>1
      <4>2. CASE i # 0
        <5>1. i \in 1 .. N /\ i - 1 \in 0 .. n
          BY <1>1, <4>2
        <5> QED BY <1>4, <4>2, <5>1
      <4> QED BY <4>1, <4>2
    <3> QED BY <3>1
  <2> HIDE DEF g
  <2>2. elapsed(n) = Iter(n, elapsed(n))
    BY <2>1
  <2> DEFINE e == elapsed(n)
             S == {i \in Nat : i <= n => e[i] = f[i]}
  <2>3. e[0] = answering /\ \A i \in 1 .. n : e[i] = e[i - 1] + Cost(hangs, i)
    <3> HIDE DEF e
    <3>1. e = Iter(n, e)
      BY <2>2 DEF e
    <3>2. DOMAIN e = 0 .. n /\ \A i \in 0 .. n : e[i] = Iter(n, e)[i]
      BY <3>1
    <3>3. 0 \in 0 .. n /\ \A i \in 1 .. n : i \in 0 .. n /\ i # 0
      BY <1>1
    <3> QED BY ONLY <3>2, <3>3
  <2> HIDE DEF e
  <2>4. 0 \in S
    BY <1>5, <2>3
  <2>5. ASSUME NEW i \in Nat, i \in S PROVE i + 1 \in S
    <3> SUFFICES ASSUME i + 1 <= n PROVE e[i + 1] = f[i + 1]
      OBVIOUS
    <3>1. i + 1 \in 1 .. n /\ i + 1 \in 1 .. N /\ (i + 1) - 1 = i /\ e[i] = f[i]
      BY <1>1, <2>5
    <3> QED BY <1>4, <2>3, <3>1
  <2> HIDE DEF S
  <2>6. Nat \subseteq S
    BY <2>4, <2>5, Induction
  <2>7. e[n] = f[n]
    BY <1>1, <2>6 DEF S
  <2> QED BY <2>7 DEF e
<1>7. \A n \in 0 .. N : Elapsed(hangs, answering, n) = f[n]
  <2> HIDE DEF elapsed
  <2> QED BY <1>2, <1>6
<1>8. \A i \in 1 .. N : i - 1 \in 0 .. N /\ i \in 0 .. N
  BY <1>1
<1>9. 0 \in 0 .. N
  BY <1>1
<1> QED BY <1>4, <1>5, <1>7, <1>8, <1>9 DEF Accumulates, N

\* More commands take no less time.
LEMMA ElapsedGrows ==
  ASSUME NEW hangs, NEW answering \in Nat, NEW i \in 0 .. Len(Commands),
         NEW j \in 0 .. Len(Commands), i <= j
  PROVE  Elapsed(hangs, answering, i) <= Elapsed(hangs, answering, j)
PROOF
<1> DEFINE N == Len(Commands)
           e(k) == Elapsed(hangs, answering, k)
           S == {k \in Nat : i + k <= N => e(i) <= e(i + k)}
<1>1. N \in Nat /\ \A k \in 1 .. N : Cost(hangs, k) \in Nat
  BY CostsAreNatural
<1>2. /\ \A k \in 0 .. N : e(k) \in Nat
      /\ \A k \in 1 .. N : e(k) = e(k - 1) + Cost(hangs, k)
  BY ElapsedAdds DEF Accumulates
<1> HIDE DEF e, N
<1>3. i \in 0 .. N /\ j \in 0 .. N
  BY DEF N
<1>4. 0 \in S
  BY <1>1, <1>2, <1>3
<1>5. ASSUME NEW k \in Nat, k \in S PROVE k + 1 \in S
  <2> SUFFICES ASSUME i + (k + 1) <= N PROVE e(i) <= e(i + (k + 1))
    OBVIOUS
  <2>1. /\ i + (k + 1) \in 1 .. N /\ (i + (k + 1)) - 1 = i + k
        /\ i + k \in 0 .. N /\ e(i) <= e(i + k)
    BY <1>1, <1>3, <1>5
  <2>2. e(i + (k + 1)) = e(i + k) + Cost(hangs, i + (k + 1))
    BY <1>2, <2>1
  <2>3. {e(i), e(i + k), Cost(hangs, i + (k + 1))} \subseteq Nat
    BY <1>1, <1>2, <1>3, <2>1
  <2> QED BY <2>1, <2>2, <2>3
<1> HIDE DEF S
<1>6. Nat \subseteq S
  BY <1>4, <1>5, Induction
<1>7. j - i \in S /\ i + (j - i) = j
  BY <1>1, <1>3, <1>6
<1>8. e(i) <= e(i + (j - i))
  BY <1>1, <1>3, <1>7 DEF S
<1> QED BY <1>7, <1>8 DEF e

\* The commands of every run cost one tool that hangs 60 seconds at most.
LEMMA FirstCommandsCost ==
  ASSUME NEW answering \in Nat, NEW hangs, NEW tool, hangs \subseteq {tool}
  PROVE  /\ Elapsed(hangs, answering, 13) <= answering + 60
         /\ tool # "systemctl" => Elapsed(hangs, answering, 13) <= answering + 30
         /\ tool = "pg_lsclusters" => Elapsed(hangs, answering, 13) = answering
PROOF
<1> DEFINE e(k) == Elapsed(hangs, answering, k)
           c(t, limit) == IF t \in hangs THEN limit ELSE 0
<1>1. /\ e(0) = answering
      /\ \A k \in 1 .. 13 : e(k) = e(k - 1) + c(ToolAt[k], LimitAt[k])
  <2>1. \A k \in 1 .. 13 : k \in 1 .. Len(Commands)
    <3>1. Len(Commands) = 13 + Len(Services)
      BY CommandsAre
    <3>2. Len(Services) \in Nat
      BY CheckRunAssumption
    <3> QED BY ONLY <3>1, <3>2
  <2>2. \A k \in 1 .. 13 : Cost(hangs, k) = c(ToolAt[k], LimitAt[k])
    BY CommandsAre DEF Cost
  <2>3. e(0) = answering
    BY ElapsedAdds DEF Accumulates
  <2>4. \A k \in 1 .. 13 : e(k) = e(k - 1) + Cost(hangs, k)
    BY <2>1, ElapsedAdds DEF Accumulates
  <2> HIDE DEF e, c
  <2> QED BY <2>2, <2>3, <2>4
<1> HIDE DEF e, c
<1>2. /\ e(1) = e(0) + c("journalctl", 15) /\ e(2) = e(1) + c("systemctl", 10)
      /\ e(3) = e(2) + c("apt-get", 30) /\ e(4) = e(3) + c("dpkg", 20)
      /\ e(5) = e(4) + c("systemctl", 8) /\ e(6) = e(5) + c("systemctl", 8)
      /\ e(7) = e(6) + c("systemctl", 8) /\ e(8) = e(7) + c("systemctl", 8)
      /\ e(9) = e(8) + c("systemctl", 8) /\ e(10) = e(9) + c("journalctl", 15)
      /\ e(11) = e(10) + c("needrestart", 30) /\ e(12) = e(11) + c("timedatectl", 10)
      /\ e(13) = e(12) + c("systemctl", 10)
  BY <1>1 DEF ToolAt, LimitAt
<1>3. \A t, limit : c(t, limit) = IF t \in hangs THEN limit ELSE 0
  BY DEF c
<1>4. \A t : t # tool => t \notin hangs
  OBVIOUS
<1>5. CASE tool \notin hangs
  BY <1>1, <1>2, <1>3, <1>4, <1>5 DEF e
<1>6. CASE tool \in hangs
  <2>1. CASE tool = "systemctl"
    BY <1>1, <1>2, <1>3, <1>4, <1>6, <2>1 DEF e
  <2>2. CASE tool \in {"journalctl", "apt-get", "dpkg", "needrestart", "timedatectl"}
    BY <1>1, <1>2, <1>3, <1>4, <1>6, <2>2 DEF e
  <2>3. CASE tool \notin {"systemctl", "journalctl", "apt-get", "dpkg", "needrestart",
                          "timedatectl"}
    BY <1>1, <1>2, <1>3, <1>4, <1>6, <2>3 DEF e
  <2> QED BY <2>1, <2>2, <2>3
<1> QED BY <1>5, <1>6

\* The service that has a tool of its own, pg_lsclusters.
IsCluster(id) == id = "postgresql" /\ HasClusters

\* A tool that hangs, alone, uses at most 108 of the run's 110 seconds.
LEMMA OneToolIsInTime ==
  ASSUME NEW answering \in Nat, NEW hangs, NEW tool, hangs \subseteq {tool}
  PROVE  Elapsed(hangs, answering, Len(Commands)) <= answering + 108
PROOF
<1> DEFINE n == Len(Services)
           e(k) == Elapsed(hangs, answering, 13 + k)
           Claim(k) == /\ e(k) \in Nat
                       /\ tool = "systemctl" => e(k) <= answering + 60 + 8 * k
                       /\ tool = "pg_lsclusters" => e(k) <= answering + 10 * k
                       /\ tool \notin {"systemctl", "pg_lsclusters"} => e(k) <= answering + 30
           S == {k \in Nat : k <= n => Claim(k)}
<1>1. n \in Nat /\ n <= 6 /\ answering \in Nat /\ Services \in Seq(STRING)
  BY CheckRunAssumption
<1>2. \A k \in 0 .. n : e(k) \in Nat
  <2>1. \A k \in 0 .. n : 13 + k \in 0 .. Len(Commands)
    BY <1>1, CommandsAre
  <2> QED BY <1>1, <2>1, ElapsedAdds DEF Accumulates
<1>3. ASSUME NEW k \in 0 .. n - 1
      PROVE  e(k + 1) = e(k) + IF IsCluster(Services[k + 1])
                               THEN IF "pg_lsclusters" \in hangs THEN 10 ELSE 0
                               ELSE IF "systemctl" \in hangs THEN 8 ELSE 0
  <2>1. /\ 13 + (k + 1) \in 1 .. Len(Commands) /\ (13 + (k + 1)) - 1 = 13 + k
        /\ k + 1 \in 1 .. n
    <3>1. Len(Commands) = 13 + n
      BY CommandsAre
    <3> HIDE DEF n
    <3> QED BY ONLY <1>1, <3>1, k \in 0 .. n - 1
  <2>2. Commands[13 + (k + 1)] = ServiceCommand(Services[k + 1], 8)
    BY <2>1, CommandsAre
  <2>3. e(k + 1) = e(k) + Cost(hangs, 13 + (k + 1))
    <3>1. \A i \in 1 .. Len(Commands) :
            Elapsed(hangs, answering, i) = Elapsed(hangs, answering, i - 1) + Cost(hangs, i)
      BY <1>1, ElapsedAdds DEF Accumulates
    <3> QED BY ONLY <2>1, <3>1
  <2> QED BY <2>2, <2>3 DEF Cost, ServiceCommand, Command, IsCluster
<1>4. /\ e(0) <= answering + 60
      /\ tool # "systemctl" => e(0) <= answering + 30
      /\ tool = "pg_lsclusters" => e(0) = answering
  <2>1. /\ Elapsed(hangs, answering, 13) <= answering + 60
        /\ tool # "systemctl" => Elapsed(hangs, answering, 13) <= answering + 30
        /\ tool = "pg_lsclusters" => Elapsed(hangs, answering, 13) = answering
    BY <1>1, FirstCommandsCost
  <2>2. 13 + 0 = 13
    OBVIOUS
  <2> QED BY ONLY <2>1, <2>2
<1> HIDE DEF e, n
<1>5. 0 \in S
  BY <1>1, <1>2, <1>4
<1>6. ASSUME NEW k \in Nat, k \in S PROVE k + 1 \in S
  <2> SUFFICES ASSUME k + 1 <= n PROVE Claim(k + 1)
    OBVIOUS
  <2>1. k \in 0 .. n - 1 /\ k \in 0 .. n /\ k + 1 \in 0 .. n /\ Claim(k)
    BY <1>1, <1>6
  <2>3. e(k) \in Nat /\ e(k + 1) \in Nat
    BY <1>2, <2>1
  <2>4. \A t : t # tool => t \notin hangs
    OBVIOUS
  <2>8. e(k + 1) = e(k) + IF IsCluster(Services[k + 1])
                          THEN IF "pg_lsclusters" \in hangs THEN 10 ELSE 0
                          ELSE IF "systemctl" \in hangs THEN 8 ELSE 0
    BY <1>3, <2>1
  <2>9. answering \in Nat /\ k \in Nat
    BY <1>1
  <2>5. CASE tool = "systemctl"
    <3>1. "pg_lsclusters" \notin hangs
      BY <2>4, <2>5
    <3>2. e(k + 1) <= e(k) + 8
      BY ONLY <2>3, <2>8, <3>1
    <3> QED BY ONLY <2>1, <2>3, <2>5, <2>9, <3>2
  <2>6. CASE tool = "pg_lsclusters"
    <3>1. e(k + 1) <= e(k) + 10
      <4>1. "systemctl" \notin hangs
        BY <2>4, <2>6
      <4> QED BY ONLY <2>3, <2>8, <4>1
    <3> QED BY ONLY <2>1, <2>3, <2>6, <2>9, <3>1
  <2>7. CASE tool \notin {"systemctl", "pg_lsclusters"}
    <3>1. e(k + 1) = e(k)
      <4>1. "systemctl" \notin hangs /\ "pg_lsclusters" \notin hangs
        BY <2>4, <2>7
      <4> QED BY ONLY <2>3, <2>8, <4>1
    <3> QED BY ONLY <2>1, <2>7, <3>1, <2>3
  <2> QED BY <2>5, <2>6, <2>7
<1> HIDE DEF S
<1>7. Nat \subseteq S
  BY <1>5, <1>6, Induction
<1>8. Claim(n)
  BY <1>1, <1>7 DEF S
<1>9. Len(Commands) = 13 + n
  BY CommandsAre DEF n
<1>10. e(n) <= answering + 108
  BY ONLY <1>1, <1>8
<1> QED BY <1>9, <1>10 DEF e

-----------------------------------------------------------------------------
(* The alerts of a run *)

AlertsAbout(checks) == {Alert(c) : c \in checks}
AlertEntries == [event : AlertsAbout(ToSet(Alerting)), createdAt : {0}]

\* No check has two events.
Unrepeated(events) ==
  \A i, j \in DOMAIN events : events[i].event.check = events[j].event.check => i = j

\* The checks of a sequence of entries.
LEMMA ChecksOf ==
  ASSUME NEW events \in Seq(AlertEntries)
  PROVE  /\ Checks(events) \in Seq(ToSet(Alerting)) /\ Len(Checks(events)) = Len(events)
         /\ DOMAIN Checks(events) = 1 .. Len(events)
         /\ \A i \in 1 .. Len(events) : Checks(events)[i] = events[i].event.check
         /\ \A i \in 1 .. Len(events) : events[i] = Entry(Alert(Checks(events)[i]), 0)
PROOF
<1>1. DOMAIN events = 1 .. Len(events) /\ Len(events) \in Nat
  OBVIOUS
<1>2. ASSUME NEW i \in 1 .. Len(events)
      PROVE  /\ events[i].event.check \in ToSet(Alerting)
             /\ events[i] = Entry(Alert(events[i].event.check), 0)
  <2>1. events[i] \in AlertEntries
    BY <1>1
  <2>2. PICK c \in ToSet(Alerting) : events[i].event = Alert(c)
    BY <2>1 DEF AlertEntries, AlertsAbout
  <2>3. Alert(c).check = c
    BY DEF Alert
  <2>4. events[i] = [event |-> events[i].event, createdAt |-> 0]
    BY <2>1 DEF AlertEntries
  <2> QED BY <2>2, <2>3, <2>4 DEF Entry
<1> QED BY <1>1, <1>2 DEF Checks

\* Raised makes alerts of what failed.
LEMMA RaisedAlerts ==
  ASSUME NEW alerts \in SUBSET ToSet(Alerting)
  PROVE  Raised(alerts) \in Seq(AlertsAbout(alerts))
PROOF
<1> DEFINE N == Len(Alerting)
           X == Seq(AlertsAbout(alerts))
           Turn(i, q) == IF Alerting[i] \in alerts THEN Append(q, Alert(Alerting[i])) ELSE q
           Iter(f) == [i \in 0 .. N |-> IF i = 0 THEN <<>> ELSE Turn(i, f[i - 1])]
           raised == CHOOSE f : f = Iter(f)
           G == [i \in 1 .. N |-> [q \in X |-> Turn(i, q)]]
<1>1. N \in Nat /\ <<>> \in X
  BY DeliveryAssumption
<1>2. \A i \in 1 .. N, q \in X : Turn(i, q) \in X
  BY DEF AlertsAbout
<1>3. G \in [1 .. N -> [X -> X]]
  BY <1>2
<1>4. Raised(alerts) = raised[N]
  BY DEF Raised
<1> HIDE DEF X, N, Turn
<1>5. PICK f \in [0 .. N -> X] : Runs(f, <<>>, N, G)
  <2> HIDE DEF G
  <2> QED BY ONLY <1>1, <1>3, Recursion
<1>6. \A i \in 1 .. N : f[i] = Turn(i, f[i - 1])
  <2> TAKE i \in 1 .. N
  <2>1. i - 1 \in 0 .. N /\ f[i - 1] \in X
    BY <1>1
  <2>2. G[i] = [q \in X |-> Turn(i, q)]
    OBVIOUS
  <2>3. f[i] = G[i][f[i - 1]]
    BY <1>5 DEF Runs
  <2> QED BY <2>1, <2>2, <2>3
<1>7. f = Iter(f)
  <2>1. ASSUME NEW i \in 0 .. N PROVE f[i] = IF i = 0 THEN <<>> ELSE Turn(i, f[i - 1])
    BY <1>1, <1>5, <1>6 DEF Runs
  <2> QED BY <1>5, <2>1
<1>8. raised = Iter(raised)
  BY <1>7
<1>9. raised[0] = <<>> /\ \A i \in 1 .. N : raised[i] = Turn(i, raised[i - 1])
  <2> HIDE DEF raised
  <2> QED BY <1>1, <1>8
<1> HIDE DEF raised
<1>10. raised[N] \in X
  <2> DEFINE S == {i \in Nat : i <= N => raised[i] \in X}
  <2>1. 0 \in S
    BY <1>1, <1>9
  <2>2. ASSUME NEW i \in Nat, i \in S PROVE i + 1 \in S
    <3> SUFFICES ASSUME i + 1 <= N PROVE raised[i + 1] \in X
      OBVIOUS
    <3>1. raised[i] \in X /\ i + 1 \in 1 .. N /\ (i + 1) - 1 = i
      BY <1>1, <2>2
    <3> QED BY <1>2, <1>9, <3>1 DEF Turn
  <2> HIDE DEF S
  <2>3. Nat \subseteq S
    BY <2>1, <2>2, Induction
  <2> QED BY <1>1, <2>3 DEF S
<1> QED BY <1>4, <1>10 DEF X

\* An alert goes to the end of the queue unless its check has one there.
LEMMA AddOneAlert ==
  ASSUME NEW events \in Seq(AlertEntries), NEW c \in ToSet(Alerting)
  PROVE  AddOne(events, Alert(c), 0) =
           IF \E i \in 1 .. Len(events) : events[i].event.check = c THEN events
           ELSE Append(events, Entry(Alert(c), 0))
PROOF
<1> DEFINE E == AlertsAbout(ToSet(Alerting))
           last == LastIndex(events, c)
<1>1. events \in Seq(Queued(E))
  <2>1. AlertEntries \subseteq Queued(E)
    BY DEF AlertEntries, Queued
  <2> HIDE DEF E
  <2> QED BY <2>1
<1> HIDE DEF E
<1>2. /\ last \in 0 .. Len(events)
      /\ last # 0 => events[last].event.check = c
      /\ \A i \in 1 .. Len(events) : events[i].event.check = c => i <= last
  BY <1>1, LastIndexFinds
<1>3. last = 0 <=> ~\E i \in 1 .. Len(events) : events[i].event.check = c
  BY <1>2
<1>4. last # 0 => events[last].event = Alert(c)
  <2>1. last # 0 => last \in 1 .. Len(events)
    BY <1>2
  <2> HIDE DEF last
  <2>2. last # 0 => events[last] = Entry(Alert(events[last].event.check), 0)
    BY <2>1, ChecksOf
  <2> QED BY <1>2, <2>2 DEF Entry
<1>5. Alert(c).check = c /\ Alert(c).kind = "problem"
  BY DEF Alert
<1>6. IsNews(events, Alert(c)) <=> last = 0
  <2>1. IsNews(events, Alert(c)) <=> (last # 0 => events[last].event # Alert(c))
    BY <1>5 DEF IsNews
  <2> HIDE DEF last
  <2> QED BY <1>4, <2>1
<1>7. AddOne(events, Alert(c), 0) =
        IF last # 0 THEN events ELSE Append(events, Entry(Alert(c), 0))
  BY <1>5, <1>6 DEF AddOne
<1> QED BY <1>3, <1>7

\* A queue after some alerts were added: the old entries, then new ones about the
\* checks of these alerts.
Extends(new, events, alerts) ==
  /\ new \in Seq(AlertEntries) /\ Unrepeated(new)
  /\ Len(events) <= Len(new)
  /\ \A i \in 1 .. Len(events) : new[i] = events[i]
  /\ \A i \in Len(events) + 1 .. Len(new) : new[i].event.check \in alerts

\* One alert extends the queue.
LEMMA ExtendedByOne ==
  ASSUME NEW events \in Seq(AlertEntries), NEW alerts \in SUBSET ToSet(Alerting),
         NEW old, Extends(old, events, alerts), NEW c \in alerts
  PROVE  Extends(AddOne(old, Alert(c), 0), events, alerts)
PROOF
<1> DEFINE entry == Entry(Alert(c), 0)
           new == Append(old, entry)
<1>1. /\ old \in Seq(AlertEntries) /\ Unrepeated(old) /\ Len(events) <= Len(old)
      /\ Len(old) \in Nat /\ Len(events) \in Nat /\ DOMAIN old = 1 .. Len(old)
  BY DEF Extends
<1>2. AddOne(old, Alert(c), 0) =
        IF \E i \in 1 .. Len(old) : old[i].event.check = c THEN old ELSE new
  BY <1>1, AddOneAlert
<1>3. ASSUME \A i \in 1 .. Len(old) : old[i].event.check # c
      PROVE  Extends(new, events, alerts)
  <2>1. entry \in AlertEntries /\ entry.event.check = c
    BY DEF Entry, Alert, AlertEntries, AlertsAbout
  <2> HIDE DEF entry
  <2>2. /\ new \in Seq(AlertEntries) /\ Len(new) = Len(old) + 1
        /\ DOMAIN new = 1 .. Len(old) + 1
        /\ \A i \in 1 .. Len(old) : new[i] = old[i]
        /\ new[Len(old) + 1] = entry
    BY <1>1, <2>1
  <2> HIDE DEF new
  <2>3. \A i \in DOMAIN new : i \in 1 .. Len(old) \/ i = Len(old) + 1
    BY <1>1, <2>2
  <2>4. Unrepeated(new)
    BY <1>1, <1>3, <2>1, <2>2, <2>3 DEF Unrepeated
  <2>5. Len(events) <= Len(new) /\ \A i \in 1 .. Len(events) : new[i] = events[i]
    <3>1. \A i \in 1 .. Len(events) : i \in 1 .. Len(old)
      BY <1>1
    <3> QED BY <1>1, <2>2, <3>1 DEF Extends
  <2>6. ASSUME NEW i \in Len(events) + 1 .. Len(new) PROVE new[i].event.check \in alerts
    <3>1. i \in (Len(events) + 1 .. Len(old)) \cap (1 .. Len(old)) \/ i = Len(old) + 1
      BY <1>1, <2>2
    <3> QED BY <2>1, <2>2, <3>1 DEF Extends
  <2> QED BY <2>2, <2>4, <2>5, <2>6 DEF Extends
<1> QED BY <1>2, <1>3

\* So do all alerts of a run.
LEMMA ExtendedByAll ==
  ASSUME NEW events \in Seq(AlertEntries), Unrepeated(events),
         NEW alerts \in SUBSET ToSet(Alerting)
  PROVE  Extends(AddAll(events, Raised(alerts), 0), events, alerts)
PROOF
<1> DEFINE E == AlertsAbout(ToSet(Alerting))
           incoming == Raised(alerts)
           n == Len(incoming)
<1>1. /\ incoming \in Seq(AlertsAbout(alerts)) /\ n \in Nat
      /\ \A i \in 1 .. n : \E c \in alerts : incoming[i] = Alert(c)
  <2>1. incoming \in Seq(AlertsAbout(alerts))
    BY RaisedAlerts
  <2> HIDE DEF incoming
  <2>2. \A i \in 1 .. n : incoming[i] \in AlertsAbout(alerts)
    BY <2>1
  <2> QED BY <2>1, <2>2 DEF AlertsAbout
<1>2. events \in Seq(Queued(E)) /\ incoming \in Seq(E)
  <2>1. AlertEntries \subseteq Queued(E) /\ AlertsAbout(alerts) \subseteq E
    BY DEF AlertEntries, Queued, AlertsAbout
  <2> HIDE DEF E, incoming
  <2> QED BY <1>1, <2>1
<1> HIDE DEF E, incoming
<1>3. PICK after \in [0 .. n -> Seq(Queued(E))] : AfterEach(after, events, incoming, 0)
  BY <1>2, AddAllSteps
<1> DEFINE S == {i \in Nat : i <= n => Extends(after[i], events, alerts)}
<1>4. /\ after[0] = events /\ after[n] = AddAll(events, incoming, 0)
      /\ \A i \in 1 .. n : after[i] = AddOne(after[i - 1], incoming[i], 0)
  BY <1>3 DEF AfterEach
<1> HIDE DEF n
<1>5. 0 \in S
  <2>1. Extends(events, events, alerts)
    BY DEF Extends
  <2> QED BY <1>4, <2>1
<1>6. ASSUME NEW i \in Nat, i \in S PROVE i + 1 \in S
  <2> SUFFICES ASSUME i + 1 <= n PROVE Extends(after[i + 1], events, alerts)
    OBVIOUS
  <2>1. i + 1 \in 1 .. n /\ (i + 1) - 1 = i /\ Extends(after[i], events, alerts)
    BY <1>1, <1>6
  <2>2. PICK c \in alerts : incoming[i + 1] = Alert(c)
    BY <1>1, <2>1
  <2>3. after[i + 1] = AddOne(after[i], Alert(c), 0)
    BY <1>4, <2>1, <2>2
  <2> QED BY <2>1, <2>3, ExtendedByOne
<1> HIDE DEF S
<1>7. Nat \subseteq S
  BY <1>5, <1>6, Induction
<1>8. Extends(after[n], events, alerts)
  BY <1>1, <1>7 DEF S
<1> QED BY <1>4, <1>8 DEF incoming

\* Two sequences with the same elements in the same places are one.
LEMMA SameSequences ==
  ASSUME NEW S, NEW s \in Seq(S), NEW t \in Seq(S), Len(s) = Len(t),
         \A i \in 1 .. Len(s) : s[i] = t[i]
  PROVE  s = t
PROOF
<1>1. DOMAIN s = 1 .. Len(s) /\ DOMAIN t = 1 .. Len(t)
  OBVIOUS
<1>2. s = [i \in DOMAIN s |-> s[i]] /\ t = [i \in DOMAIN t |-> t[i]]
  OBVIOUS
<1> QED BY ONLY <1>1, <1>2, Len(s) = Len(t), \A i \in 1 .. Len(s) : s[i] = t[i]

\* A sequence without repetition is one of the orders of its elements.
LEMMA OrderedSomehow ==
  ASSUME NEW S, NEW new \in Seq(S), \A i, j \in 1 .. Len(new) : new[i] = new[j] => i = j
  PROVE  new \in SetToAllKPermutations(S)
PROOF
<1> DEFINE T == ToSet(new)
<1>1. /\ Len(new) \in Nat /\ DOMAIN new = 1 .. Len(new) /\ T \subseteq S
      /\ new \in [1 .. Len(new) -> T] /\ \A x \in T : \E i \in 1 .. Len(new) : new[i] = x
  BY DEF ToSet
<1> HIDE DEF T
<1>2. ExistsBijection(1 .. Len(new), T)
  <2>1. new \in Bijection(1 .. Len(new), T)
    BY <1>1 DEF Bijection, Injection, Surjection, IsInjective
  <2> QED BY <2>1 DEF ExistsBijection
<1>3. Cardinality(T) = Len(new)
  <2>1. IsFiniteSet(1 .. Len(new)) /\ Cardinality(1 .. Len(new)) = Len(new)
    <3>1. Len(new) \in Int /\ 1 \in Int /\ Len(new) \in Nat
      BY <1>1
    <3> HIDE DEF T
    <3>2. /\ IsFiniteSet(1 .. Len(new))
          /\ Cardinality(1 .. Len(new)) = IF 1 > Len(new) THEN 0 ELSE Len(new) - 1 + 1
      BY ONLY <3>1, FS_Interval
    <3> QED BY ONLY <3>1, <3>2
  <2> QED BY <1>2, <2>1, FS_Bijection
<1>4. new \in SetToSeqs(T)
  BY <1>1, <1>3 DEF SetToSeqs
<1> QED BY <1>1, <1>4 DEF SetToAllKPermutations

\* The alerts a run adds are posted in some order, none twice.
LEMMA NewAlertsArePosted ==
  ASSUME NEW events \in Seq(AlertEntries), NEW alerts \in SUBSET ToSet(Alerting),
         NEW q, Extends(q, events, alerts)
  PROVE  \E new \in SetToAllKPermutations(ToSet(Alerting) \ ToSet(Checks(events))) :
           Checks(q) = Checks(events) \o new
PROOF
<1> DEFINE n == Len(events)
           S == ToSet(Alerting) \ ToSet(Checks(events))
           new == [i \in 1 .. Len(q) - n |-> Checks(q)[n + i]]
<1>1. /\ q \in Seq(AlertEntries) /\ Unrepeated(q) /\ n <= Len(q)
      /\ Len(q) \in Nat /\ n \in Nat /\ DOMAIN q = 1 .. Len(q) /\ Len(q) - n \in Nat
      /\ \A i \in 1 .. n : q[i] = events[i]
  BY DEF Extends
<1>2. /\ Len(Checks(q)) = Len(q) /\ DOMAIN Checks(q) = 1 .. Len(q)
      /\ Checks(q) \in Seq(ToSet(Alerting))
      /\ \A i \in 1 .. Len(q) : Checks(q)[i] = q[i].event.check
      /\ \A i \in 1 .. Len(q) : Checks(q)[i] \in ToSet(Alerting)
  <2>1. /\ Len(Checks(q)) = Len(q) /\ DOMAIN Checks(q) = 1 .. Len(q)
        /\ Checks(q) \in Seq(ToSet(Alerting))
        /\ \A i \in 1 .. Len(q) : Checks(q)[i] = q[i].event.check
    BY <1>1, ChecksOf
  <2> QED BY <1>1, <2>1
<1>3. /\ Len(Checks(events)) = n /\ DOMAIN Checks(events) = 1 .. n
      /\ Checks(events) \in Seq(ToSet(Alerting))
      /\ \A i \in 1 .. n : Checks(events)[i] = events[i].event.check
  BY ChecksOf
<1> HIDE DEF n
<1>4. \A i \in 1 .. Len(q) - n : n + i \in 1 .. Len(q)
  BY <1>1
<1>5. ASSUME NEW i \in 1 .. Len(q) - n PROVE new[i] \in S
  <2>1. n + i \in 1 .. Len(q) /\ new[i] = q[n + i].event.check /\ new[i] \in ToSet(Alerting)
    BY <1>2, <1>4
  <2>2. ASSUME NEW j \in 1 .. n, Checks(events)[j] = new[i] PROVE FALSE
    <3>1. j \in 1 .. Len(q) /\ j # n + i
      BY ONLY <1>1, i \in 1 .. Len(q) - n, j \in 1 .. n
    <3>2. q[j].event.check = q[n + i].event.check
      BY <1>1, <1>3, <2>1, <2>2
    <3> QED BY ONLY <1>1, <2>1, <3>1, <3>2 DEF Unrepeated
  <2> QED BY <1>3, <2>1, <2>2 DEF ToSet
<1>6. new \in Seq(S) /\ Len(new) = Len(q) - n
  <2> HIDE DEF S
  <2>1. Len(q) - n \in Nat
    BY <1>1
  <2>2. new \in [1 .. Len(q) - n -> S]
    BY ONLY <1>5
  <2> HIDE DEF new
  <2> QED BY ONLY <2>1, <2>2
<1>7. ASSUME NEW i \in 1 .. Len(new), NEW j \in 1 .. Len(new), new[i] = new[j] PROVE i = j
  <2>1. n + i \in 1 .. Len(q) /\ n + j \in 1 .. Len(q)
    BY <1>4, <1>6, <1>7
  <2>2. q[n + i].event.check = q[n + j].event.check
    BY <1>2, <1>6, <1>7, <2>1
  <2>3. n + i = n + j
    BY <1>1, <2>1, <2>2 DEF Unrepeated
  <2> QED BY <1>1, <1>6, <2>3
<1>8. new \in SetToAllKPermutations(S)
  <2> HIDE DEF new, S
  <2> QED BY <1>6, <1>7, OrderedSomehow
<1>9. Checks(q) = Checks(events) \o new
  <2>1. new \in Seq(ToSet(Alerting))
    BY <1>6
  <2>2. \A i \in 1 .. Len(q) - n : new[i] = Checks(q)[n + i]
    OBVIOUS
  <2> DEFINE u == Checks(events) \o new
  <2>3. u \in Seq(ToSet(Alerting)) /\ Joins(u, Checks(events), new)
    <3> HIDE DEF new
    <3> QED BY <1>3, <2>1, Concatenation
  <2> HIDE DEF u, new
  <2>4. /\ Len(u) = Len(q) /\ \A i \in 1 .. n : u[i] = Checks(events)[i]
        /\ \A i \in 1 .. Len(q) - n : u[n + i] = new[i]
    BY <1>1, <1>3, <1>6, <2>3 DEF Joins
  <2>5. ASSUME NEW i \in 1 .. Len(q) PROVE u[i] = Checks(q)[i]
    <3>1. CASE i <= n
      <4>1. i \in 1 .. n
        BY <1>1, <3>1
      <4>2. u[i] = events[i].event.check
        BY ONLY <1>3, <2>4, <4>1
      <4>3. Checks(q)[i] = events[i].event.check
        BY ONLY <1>1, <1>2, <4>1, i \in 1 .. Len(q)
      <4> QED BY ONLY <4>2, <4>3
    <3>2. CASE i > n
      <4>1. i - n \in 1 .. Len(q) - n /\ n + (i - n) = i
        BY <1>1, <3>2
      <4> QED BY <2>2, <2>4, <4>1
    <3> QED BY <1>1, <3>1, <3>2
  <2>6. u = Checks(q)
    <3>1. Len(u) = Len(Checks(q)) /\ \A i \in 1 .. Len(u) : u[i] = Checks(q)[i]
      BY <1>2, <2>4, <2>5
    <3> QED BY ONLY <1>2, <2>3, <3>1, SameSequences
  <2> QED BY <2>6 DEF u
<1> QED BY <1>8, <1>9

-----------------------------------------------------------------------------
(* Parts of the queue *)

IsRest(rest, s, n) ==
  /\ Len(rest) = Len(s) - n /\ DOMAIN rest = 1 .. Len(s) - n
  /\ \A i \in 1 .. Len(s) - n : rest[i] = s[i + n]

\* What SubSeq leaves of a sequence.
LEMMA SubSeqRest ==
  ASSUME NEW S, NEW s \in Seq(S), NEW n \in 0 .. Len(s)
  PROVE  /\ SubSeq(s, n + 1, Len(s)) \in Seq(S)
         /\ IsRest(SubSeq(s, n + 1, Len(s)), s, n)
PROOF
<1> DEFINE rest == SubSeq(s, n + 1, Len(s))
           N == Len(s)
<1>1. N \in Nat /\ DOMAIN s = 1 .. N /\ \A i \in 1 .. N : s[i] \in S
  OBVIOUS
<1>2. /\ rest \in Seq(S) /\ Len(rest) = N - n /\ DOMAIN rest = 1 .. N - n
      /\ \A i \in 1 .. N - n : rest[i] = s[i + n]
  OBVIOUS
<1> HIDE DEF rest, N
<1> QED BY <1>2 DEF IsRest, rest, N

\* What is left when the first entries are gone.
LEMMA RestOf ==
  ASSUME NEW events \in Seq(AlertEntries), Unrepeated(events), NEW n \in 0 .. Len(events),
         NEW rest \in Seq(AlertEntries), IsRest(rest, events, n)
  PROVE  /\ rest \in Seq(AlertEntries) /\ Unrepeated(rest) /\ Len(rest) = Len(events) - n
         /\ ToSet(rest) \subseteq ToSet(events)
         /\ Checks(rest) = SubSeq(Checks(events), n + 1, Len(events))
PROOF
<1>1. /\ rest \in Seq(AlertEntries) /\ Len(rest) = Len(events) - n
      /\ Len(events) \in Nat /\ DOMAIN events = 1 .. Len(events)
      /\ DOMAIN rest = 1 .. Len(events) - n
      /\ \A i \in 1 .. Len(events) - n : rest[i] = events[i + n]
  BY DEF IsRest
<1>2. \A i \in 1 .. Len(events) - n : i + n \in 1 .. Len(events)
  BY <1>1
<1>3. Unrepeated(rest)
  <2> SUFFICES ASSUME NEW i \in DOMAIN rest, NEW j \in DOMAIN rest,
                      rest[i].event.check = rest[j].event.check
               PROVE  i = j
    BY DEF Unrepeated
  <2>1. /\ i + n \in DOMAIN events /\ rest[i] = events[i + n]
        /\ j + n \in DOMAIN events /\ rest[j] = events[j + n]
    BY <1>1, <1>2
  <2>2. i + n = j + n
    <3>1. events[i + n].event.check = events[j + n].event.check
      BY <2>1
    <3>2. \A a, b \in DOMAIN events : events[a].event.check = events[b].event.check => a = b
      BY DEF Unrepeated
    <3> QED BY ONLY <2>1, <3>1, <3>2
  <2>3. i \in Nat /\ j \in Nat /\ n \in Nat
    BY <1>1
  <2> QED BY ONLY <2>2, <2>3
<1>4. ToSet(rest) \subseteq ToSet(events)
  BY <1>1, <1>2 DEF ToSet
<1>5. Checks(rest) = SubSeq(Checks(events), n + 1, Len(events))
  <2> DEFINE part == SubSeq(Checks(events), n + 1, Len(events))
  <2>1. /\ Checks(events) \in Seq(ToSet(Alerting)) /\ Len(Checks(events)) = Len(events)
        /\ \A i \in 1 .. Len(events) : Checks(events)[i] = events[i].event.check
    BY ChecksOf
  <2>2. /\ Checks(rest) \in Seq(ToSet(Alerting)) /\ Len(Checks(rest)) = Len(events) - n
        /\ \A i \in 1 .. Len(events) - n : Checks(rest)[i] = rest[i].event.check
    BY <1>1, ChecksOf
  <2>3. /\ part \in Seq(ToSet(Alerting)) /\ Len(part) = Len(events) - n
        /\ \A i \in 1 .. Len(events) - n : part[i] = Checks(events)[i + n]
    <3>1. part \in Seq(ToSet(Alerting)) /\ IsRest(part, Checks(events), n)
      BY <2>1, SubSeqRest
    <3> QED BY <2>1, <3>1 DEF IsRest
  <2> HIDE DEF part
  <2>4. ASSUME NEW i \in 1 .. Len(events) - n PROVE part[i] = Checks(rest)[i]
    <3>1. i + n \in 1 .. Len(events) /\ part[i] = Checks(events)[i + n]
      BY <1>2, <2>3
    <3>2. Checks(events)[i + n] = events[i + n].event.check
      BY <2>1, <3>1
    <3>3. Checks(rest)[i] = rest[i].event.check /\ rest[i] = events[i + n]
      BY <1>1, <2>2
    <3> QED BY ONLY <3>1, <3>2, <3>3
  <2>5. part = Checks(rest)
    <3>1. /\ part \in Seq(ToSet(Alerting)) /\ Checks(rest) \in Seq(ToSet(Alerting))
          /\ Len(part) = Len(Checks(rest))
          /\ \A i \in 1 .. Len(part) : part[i] = Checks(rest)[i]
      BY <2>2, <2>3, <2>4
    <3> QED BY ONLY <3>1, SameSequences
  <2> QED BY <2>5 DEF part
<1> QED BY <1>1, <1>3, <1>4, <1>5

\* The limit on the queue is the capacity of the outbox.
LEMMA TrimmedChecks ==
  ASSUME NEW q \in Seq(AlertEntries), Unrepeated(q)
  PROVE  /\ Trim(q) \in Seq(AlertEntries) /\ Unrepeated(Trim(q)) /\ Len(Trim(q)) <= MaxEvents
         /\ ToSet(Trim(q)) \subseteq ToSet(q)
         /\ Checks(Trim(q)) =
              IF Len(Checks(q)) > MaxEvents
              THEN SubSeq(Checks(q), Len(Checks(q)) - MaxEvents + 1, Len(Checks(q)))
              ELSE Checks(q)
PROOF
<1>1. Len(q) \in Nat /\ MaxEvents \in Nat /\ Len(Checks(q)) = Len(q)
  BY QueueAssumption, ChecksOf
<1>2. CASE Len(q) > MaxEvents
  <2> DEFINE n == Len(q) - MaxEvents
  <2>1. n \in 0 .. Len(q) /\ Len(q) - n = MaxEvents
    BY <1>1, <1>2
  <2>2. Trim(q) = SubSeq(q, n + 1, Len(q))
    BY <1>2 DEF Trim
  <2> HIDE DEF n
  <2>a. Trim(q) \in Seq(AlertEntries) /\ IsRest(Trim(q), q, n)
    BY <2>1, <2>2, SubSeqRest
  <2>3. /\ Trim(q) \in Seq(AlertEntries) /\ Unrepeated(Trim(q)) /\ Len(Trim(q)) = Len(q) - n
        /\ ToSet(Trim(q)) \subseteq ToSet(q)
        /\ Checks(Trim(q)) = SubSeq(Checks(q), n + 1, Len(q))
    BY <2>1, <2>a, RestOf
  <2> QED BY <1>1, <1>2, <2>1, <2>3 DEF n
<1>3. CASE ~(Len(q) > MaxEvents)
  BY <1>1, <1>3 DEF Trim
<1> QED BY <1>2, <1>3

-----------------------------------------------------------------------------
(* Batches *)

\* The size of one line.
LEMMA SumOfOne ==
  ASSUME NEW events, Size[events[1].event.check] \in Nat
  PROVE  MapThenSumSet(LAMBDA i : Size[events[i].event.check], {1})
           = Size[events[1].event.check]
PROOF
<1> DEFINE size(i) == Size[events[i].event.check]
           any(s) == CHOOSE x \in s : TRUE
           Iter(g) == [s \in SUBSET {1} |-> IF s = {} THEN 0 ELSE size(any(s)) + g[s \ {any(s)}]]
           iter == CHOOSE g : g = Iter(g)
           sum == [s \in SUBSET {1} |-> IF s = {} THEN 0 ELSE size(1)]
<1>1. MapThenSumSet(LAMBDA i : Size[events[i].event.check], {1}) = iter[{1}]
  BY DEF MapThenSumSet, MapThenFoldSet
<1>2. /\ \A s \in SUBSET {1} : s = {} \/ s = {1}
      /\ {} \in SUBSET {1} /\ {1} \in SUBSET {1} /\ {1} # {} /\ {1} \ {1} = {}
  OBVIOUS
<1>3. any({1}) = 1
  <2>1. any({1}) \in {1}
    OBVIOUS
  <2> QED BY <2>1
<1>4. size(1) \in Nat
  OBVIOUS
<1> HIDE DEF any, size
<1>5. sum = Iter(sum)
  <2>1. sum[{}] = 0 /\ sum[{1}] = size(1)
    BY <1>2
  <2> HIDE DEF sum
  <2>2. ASSUME NEW s \in SUBSET {1}
        PROVE  sum[s] = IF s = {} THEN 0 ELSE size(any(s)) + sum[s \ {any(s)}]
    <3>1. CASE s = {}
      BY <2>1, <3>1
    <3>2. CASE s = {1}
      <4>1. s \ {any(s)} = {} /\ any(s) = 1 /\ s # {}
        BY <1>2, <1>3, <3>2
      <4>2. size(any(s)) + sum[s \ {any(s)}] = size(1)
        <5>1. size(any(s)) = size(1) /\ sum[s \ {any(s)}] = 0
          BY <2>1, <4>1, Zenon
        <5> QED BY <1>4, <5>1
      <4>3. sum[s] = size(1)
        BY <2>1, <3>2
      <4> QED BY <4>1, <4>2, <4>3, Zenon
    <3> QED BY <1>2, <3>1, <3>2
  <2> QED BY <2>2 DEF sum
<1> HIDE DEF sum
<1>6. iter = Iter(iter)
  BY <1>5
<1> HIDE DEF iter
<1>7. iter[{}] = 0
  <2>1. Iter(iter)[{}] = 0
    BY <1>2
  <2> HIDE DEF Iter
  <2> QED BY <1>6, <2>1
<1>8. iter[{1}] = size(1) + iter[{}]
  <2>1. Iter(iter)[{1}] = size(1) + iter[{}]
    BY <1>2, <1>3
  <2> HIDE DEF Iter
  <2> QED BY <1>6, <2>1
<1>9. iter[{1}] = size(1)
  BY <1>4, <1>7, <1>8
<1> QED BY <1>1, <1>9 DEF size

\* A message takes at least one event: one always fits.
LEMMA OneFits ==
  ASSUME NEW events \in Seq(AlertEntries), events # <<>>
  PROVE  Fits(events, 1)
PROOF
<1> DEFINE part == SubSeq(events, 1, 1)
           c == events[1].event.check
<1>1. Len(events) \in Nat /\ 1 \in 1 .. Len(events) /\ 1 \in DOMAIN events
  OBVIOUS
<1>2. /\ part \in Seq(AlertEntries) /\ Len(part) = 1 /\ DOMAIN part = 1 .. 1
      /\ part[1] = events[1]
  BY <1>1
<1> HIDE DEF part
<1>3. c \in ToSet(Alerting) /\ part[1].event.check = c
  <2>1. Checks(events)[1] = c /\ Checks(events) \in Seq(ToSet(Alerting))
        /\ Len(Checks(events)) = Len(events)
    BY <1>1, ChecksOf
  <2> QED BY <1>1, <1>2, <2>1
<1>4. DOMAIN part = {1}
  BY <1>2
<1>5. ToSet(Checks(part)) = {c}
  <2>1. DOMAIN Checks(part) = {1} /\ Checks(part)[1] = c
    BY <1>3, <1>4 DEF Checks
  <2> HIDE DEF c
  <2> QED BY <2>1 DEF ToSet
<1> HIDE DEF c
<1>6. {Section[d] : d \in ToSet(Checks(part))} = {Section[c]}
  BY <1>5
<1>7. Cardinality({Section[c]}) = 1
  BY FS_Singleton
<1>8. /\ Size[c] \in Nat /\ HeaderSize \in Nat /\ FrameSize \in Nat /\ MaxMessageBytes \in Nat
      /\ FrameSize + HeaderSize + Size[c] <= MaxMessageBytes
  BY <1>3, DeliveryAssumption
<1>9. MapThenSumSet(LAMBDA i : Size[part[i].event.check], {1}) = Size[c]
  BY <1>3, <1>8, SumOfOne
<1>10. BodySize(part) = FrameSize + HeaderSize * 1 + Size[c]
  BY <1>4, <1>6, <1>7, <1>9 DEF BodySize
<1> QED BY <1>8, <1>10 DEF Fits, part

\* BuildBatch takes some events, and the message about them fits.
LEMMA BatchIsSome ==
  ASSUME NEW events \in Seq(AlertEntries), events # <<>>
  PROVE  BatchCount(events) \in 1 .. Len(events) /\ Fits(events, BatchCount(events))
PROOF
<1> DEFINE N == Len(events)
           fitting == {n \in 0 .. N : \A m \in 1 .. n : Fits(events, m)}
           I == fitting \ {0}
<1>1. N \in Nat /\ 1 \in 0 .. N
  OBVIOUS
<1>2. 1 \in fitting
  <2>1. \A m \in 1 .. 1 : m = 1
    OBVIOUS
  <2> QED BY <1>1, <2>1, OneFits
<1>3. fitting \subseteq 0 .. N /\ \A n \in fitting : \A m \in 1 .. n : Fits(events, m)
  OBVIOUS
<1>4. BatchCount(events) = Max(fitting)
  BY DEF BatchCount
<1> HIDE DEF N, fitting
<1>5. I \in SUBSET (1 .. N) /\ I # {}
  BY <1>1, <1>2, <1>3
<1>6. PICK k \in I : \A i \in I : i <= k
  <2> HIDE DEF I
  <2>1. Max(I) \in I /\ \A i \in I : i <= Max(I)
    BY ONLY <1>1, <1>5, Greatest
  <2> QED BY <2>1
<1>7. \E x \in fitting : \A y \in fitting : x >= y
  <2>1. k \in 1 .. N /\ k \in fitting
    BY <1>5
  <2>2. ASSUME NEW y \in fitting PROVE k >= y
    <3>1. y \in I \/ y = 0
      OBVIOUS
    <3>2. y \in 0 .. N
      BY <1>3
    <3> QED BY <1>1, <1>6, <2>1, <3>1, <3>2
  <2> QED BY <2>1, <2>2
<1>8. Max(fitting) \in fitting /\ \A y \in fitting : Max(fitting) >= y
  BY <1>7 DEF Max
<1> DEFINE max == Max(fitting)
<1> HIDE DEF max
<1>9. max \in 1 .. N /\ max \in 1 .. max
  <2>1. max \in 0 .. N /\ max >= 1
    BY <1>2, <1>3, <1>8 DEF max
  <2> QED BY <1>1, <2>1
<1>10. Fits(events, max)
  BY <1>3, <1>8, <1>9 DEF max
<1> QED BY <1>4, <1>9, <1>10 DEF N, max

First(events, n) == {events[i].event.check : i \in 1 .. n}

\* The first alerts and the others.
LEMMA FirstAndRest ==
  ASSUME NEW events \in Seq(AlertEntries), Unrepeated(events), NEW n \in 0 .. Len(events),
         NEW rest \in Seq(AlertEntries), IsRest(rest, events, n)
  PROVE  /\ First(events, n) \subseteq ToSet(Checks(events))
         /\ {Checks(events)[i] : i \in 1 .. n} = First(events, n)
         /\ ToSet(Checks(SubSeq(events, 1, n))) = First(events, n)
         /\ \A c \in ToSet(Checks(events)) :
              c \in ToSet(Checks(rest)) <=> c \notin First(events, n)
PROOF
<1>1. /\ Len(events) \in Nat /\ \A i \in 1 .. n : i \in 1 .. Len(events)
      /\ DOMAIN Checks(events) = 1 .. Len(events)
      /\ \A i \in 1 .. Len(events) : Checks(events)[i] = events[i].event.check
  BY ChecksOf
<1>2. /\ DOMAIN Checks(rest) = 1 .. Len(events) - n
      /\ \A i \in 1 .. Len(events) - n : Checks(rest)[i] = events[i + n].event.check
  BY ChecksOf DEF IsRest
<1>3. First(events, n) \subseteq ToSet(Checks(events))
  BY <1>1 DEF First, ToSet
<1>4. {Checks(events)[i] : i \in 1 .. n} = First(events, n)
  BY <1>1 DEF First
<1>5. ToSet(Checks(SubSeq(events, 1, n))) = First(events, n)
  <2> DEFINE part == SubSeq(events, 1, n)
  <2>1. /\ part \in Seq(AlertEntries) /\ Len(part) = n /\ DOMAIN part = 1 .. n
        /\ \A i \in 1 .. n : part[i] = events[i]
    BY <1>1
  <2> HIDE DEF part
  <2>2. DOMAIN Checks(part) = 1 .. n /\ \A i \in 1 .. n : Checks(part)[i] = events[i].event.check
    BY <2>1 DEF Checks
  <2>3. ToSet(Checks(part)) = First(events, n)
    BY <2>2 DEF ToSet, First
  <2> QED BY <2>3 DEF part
<1>6. ASSUME NEW c \in ToSet(Checks(events))
      PROVE  c \in ToSet(Checks(rest)) <=> c \notin First(events, n)
  <2>1. PICK j \in 1 .. Len(events) : c = events[j].event.check
    BY <1>1 DEF ToSet
  <2>2. DOMAIN events = 1 .. Len(events)
    OBVIOUS
  <2>3. c \in First(events, n) <=> j <= n
    <3>1. j <= n => c \in First(events, n)
      <4>1. j <= n => j \in 1 .. n
        OBVIOUS
      <4> QED BY <2>1, <4>1 DEF First
    <3>2. ASSUME NEW i \in 1 .. n, c = events[i].event.check PROVE j <= n
      <4>1. i \in 1 .. Len(events) /\ i <= n
        BY <1>1, <3>2
      <4>2. i = j
        BY <2>1, <2>2, <3>2, <4>1 DEF Unrepeated
      <4> QED BY <4>1, <4>2
    <3> QED BY <3>1, <3>2 DEF First
  <2>4. c \in ToSet(Checks(rest)) <=> j > n
    <3>1. ASSUME j > n PROVE c \in ToSet(Checks(rest))
      <4>1. j - n \in 1 .. Len(events) - n /\ (j - n) + n = j
        BY <1>1, <3>1
      <4>2. Checks(rest)[j - n] = c
        BY <1>2, <2>1, <4>1
      <4> QED BY <1>2, <4>1, <4>2 DEF ToSet
    <3>2. ASSUME NEW i \in 1 .. Len(events) - n, c = events[i + n].event.check PROVE j > n
      <4>1. i + n \in 1 .. Len(events) /\ i + n > n
        BY <1>1
      <4> QED BY <2>1, <2>2, <3>2, <4>1 DEF Unrepeated
    <3> QED BY <1>2, <3>1, <3>2 DEF ToSet
  <2> QED BY <1>1, <2>3, <2>4
<1> QED BY <1>3, <1>4, <1>5, <1>6

-----------------------------------------------------------------------------
(* The invariant *)

Running == {"send", "acknowledged", "failed"}

\* A queue as the agent saves it; `turned` is what the clock was set back.
GoodQueue(queue, turned) ==
  /\ queue \in [events : Seq(AlertEntries), attempts : 0 .. MaxAttempts, nextAttemptAt : Int]
  /\ Len(queue.events) <= MaxEvents /\ Unrepeated(queue.events)
  /\ -MaxSetbacks <= queue.nextAttemptAt /\ queue.nextAttemptAt <= MaxBackoff + turned

\* The seconds of a run, those left and those gone.
InTime ==
  /\ left \in 0 .. Deadline
  /\ since \in {Missed} \cup 0 .. TimeLimit
  /\ phase \in Running => since # Missed /\ since + left <= Deadline

\* What a run holds against what is saved: the same events, or without those the
\* server has just accepted.
InHand ==
  /\ phase \in {"send", "failed"} => pending.events = queueFile.events
  /\ phase = "send" => pending.events # <<>>
  /\ phase = "acknowledged" =>
       \E n \in 1 .. Len(queueFile.events) :
         /\ IsRest(pending.events, queueFile.events, n)
         /\ First(queueFile.events, n) \subseteq told

\* An alert that is queued still though the reader was told has an excuse.
Excused ==
  /\ phase # "acknowledged" /\ told # {} => excused
  /\ phase = "acknowledged" /\ told \cap ToSet(Checks(pending.events)) # {} => excused

IInv ==
  /\ GoodQueue(queueFile, setbacks) /\ GoodQueue(pending, setbacks)
  /\ setbacks \in 0 .. MaxSetbacks /\ hung \subseteq HangingTools
  /\ phase \in {"idle", "late"} \cup Running
  /\ told \subseteq ToSet(Checks(queueFile.events))
  /\ InTime /\ InHand /\ Excused

\* The empty queue is a good one.
LEMMA EmptyIsGood ==
  ASSUME NEW turned \in Nat
  PROVE  GoodQueue(EmptyQueue, turned) /\ EmptyQueue.events = <<>>
PROOF
<1>1. EmptyQueue.events = <<>> /\ EmptyQueue.attempts = 0 /\ EmptyQueue.nextAttemptAt = 0
  BY DEF EmptyQueue, Immediately
<1>2. MaxSetbacks \in Nat /\ MaxAttempts \in Nat /\ MaxBackoff \in Nat /\ MaxEvents \in Nat
  BY DeliveryAssumption, QueueAssumption
<1>3. <<>> \in Seq(AlertEntries) /\ Unrepeated(<<>>) /\ Len(<<>>) = 0
  BY DEF Unrepeated
<1>4. EmptyQueue \in [events : Seq(AlertEntries), attempts : 0 .. MaxAttempts,
                      nextAttemptAt : Int]
  BY <1>2, <1>3 DEF EmptyQueue, Immediately
<1> QED BY <1>1, <1>2, <1>3, <1>4 DEF GoodQueue

\* A queue that is good now is good when the clock has been set back more often.
LEMMA GoodForLonger ==
  ASSUME NEW turned \in 0 .. MaxSetbacks, NEW t \in Nat, t >= turned,
         NEW queue, GoodQueue(queue, turned)
  PROVE  GoodQueue(queue, t)
PROOF
<1>1. /\ MaxSetbacks \in Nat /\ MaxBackoff \in Nat /\ turned \in Nat
      /\ queue.nextAttemptAt \in Int
  BY DeliveryAssumption, QueueAssumption DEF GoodQueue
<1>2. queue.nextAttemptAt <= MaxBackoff + turned
  BY DEF GoodQueue
<1>3. queue.nextAttemptAt <= MaxBackoff + t
  BY ONLY <1>1, <1>2, t \in Nat, t >= turned
<1> QED BY <1>3 DEF GoodQueue

\* Time passes, or the clock is set back: the events stay.
LEMMA LaterIsGood ==
  ASSUME NEW turned \in 0 .. MaxSetbacks, NEW queue, GoodQueue(queue, turned)
  PROVE  /\ GoodQueue(Later(queue, 1), turned) /\ Later(queue, 1).events = queue.events
         /\ GoodQueue(Later(queue, -1), turned + 1) /\ Later(queue, -1).events = queue.events
PROOF
<1> DEFINE R == [events : Seq(AlertEntries), attempts : 0 .. MaxAttempts, nextAttemptAt : Int]
<1>1. MaxSetbacks \in Nat /\ MaxBackoff \in Nat
  BY DeliveryAssumption, QueueAssumption
<1>2. queue \in R /\ queue.nextAttemptAt \in Int
  BY DEF GoodQueue
<1>3. ASSUME NEW units \in {1, -1}
      PROVE  \/ Later(queue, units) = queue
             \/ \E next \in Int :
                  /\ Later(queue, units) = [queue EXCEPT !.nextAttemptAt = next]
                  /\ next = IF queue.nextAttemptAt - units < -MaxSetbacks
                            THEN -MaxSetbacks ELSE queue.nextAttemptAt - units
  <2> DEFINE next == IF queue.nextAttemptAt - units < -MaxSetbacks
                     THEN -MaxSetbacks ELSE queue.nextAttemptAt - units
  <2>1. next \in Int
    BY <1>1, <1>2
  <2>2. Later(queue, units) = queue \/ Later(queue, units) = [queue EXCEPT !.nextAttemptAt = next]
    BY DEF Later
  <2> QED BY <2>1, <2>2
<1>4. ASSUME NEW units \in {1, -1}, NEW t \in Nat, t >= turned, t >= turned - units
      PROVE  GoodQueue(Later(queue, units), t) /\ Later(queue, units).events = queue.events
  <2>1. CASE Later(queue, units) = queue
    BY <1>4, <2>1, GoodForLonger
  <2>2. ASSUME NEW next \in Int, Later(queue, units) = [queue EXCEPT !.nextAttemptAt = next],
               next = IF queue.nextAttemptAt - units < -MaxSetbacks
                      THEN -MaxSetbacks ELSE queue.nextAttemptAt - units
        PROVE  GoodQueue(Later(queue, units), t) /\ Later(queue, units).events = queue.events
    <3> DEFINE later == [queue EXCEPT !.nextAttemptAt = next]
    <3>1. later \in R /\ later.events = queue.events /\ later.nextAttemptAt = next
      BY <1>2
    <3> HIDE DEF later
    <3>2. -MaxSetbacks <= next /\ next <= MaxBackoff + t
      <4>1. queue.nextAttemptAt <= MaxBackoff + turned /\ -MaxSetbacks <= queue.nextAttemptAt
        BY DEF GoodQueue
      <4>2. turned \in Nat /\ t \in Nat /\ units \in Int /\ next \in Int
            /\ t >= turned - units
        BY <1>1, <1>4
      <4>3. next = IF queue.nextAttemptAt - units < -MaxSetbacks
                   THEN -MaxSetbacks ELSE queue.nextAttemptAt - units
        BY <2>2
      <4> QED BY ONLY <1>1, <1>2, <4>1, <4>2, <4>3
    <3>3. GoodQueue(later, t)
      BY <3>1, <3>2 DEF GoodQueue
    <3> QED BY <2>2, <3>1, <3>3 DEF later
  <2> QED BY <1>3, <2>1, <2>2
<1> QED BY <1>1, <1>4

\* Adding a run's alerts posts some new ones, within the limit.
LEMMA AddPosts ==
  ASSUME NEW turned \in 0 .. MaxSetbacks, NEW queue, GoodQueue(queue, turned),
         NEW alerts \in SUBSET ToSet(Alerting),
         NEW added, added = Add(queue, Raised(alerts), 0)
  PROVE  /\ GoodQueue(added, turned)
         /\ \E q : Extends(q, queue.events, alerts) /\ added.events = Trim(q)
PROOF
<1> DEFINE R == [events : Seq(AlertEntries), attempts : 0 .. MaxAttempts, nextAttemptAt : Int]
           q == AddAll(queue.events, Raised(alerts), 0)
<1>1. MaxSetbacks \in Nat /\ MaxBackoff \in Nat /\ MaxAttempts \in Nat
  BY DeliveryAssumption, QueueAssumption
<1>2. queue \in R /\ queue.events \in Seq(AlertEntries) /\ Unrepeated(queue.events)
  BY DEF GoodQueue
<1>3. Extends(q, queue.events, alerts)
  BY <1>2, ExtendedByAll
<1>4. added = IF q = queue.events THEN [queue EXCEPT !.events = Trim(queue.events)]
              ELSE [events |-> Trim(q), attempts |-> 0, nextAttemptAt |-> Immediately]
  BY DEF Add
<1> HIDE DEF q
<1>5. q \in Seq(AlertEntries) /\ Unrepeated(q)
  BY <1>3 DEF Extends
<1>6. Trim(q) \in Seq(AlertEntries) /\ Unrepeated(Trim(q)) /\ Len(Trim(q)) <= MaxEvents
  BY <1>5, TrimmedChecks
<1>7. /\ added \in R /\ added.events = Trim(q)
      /\ added.nextAttemptAt \in {queue.nextAttemptAt, 0}
  <2>1. CASE q = queue.events
    <3>1. added = [queue EXCEPT !.events = Trim(q)]
      BY <1>4, <2>1
    <3> QED BY <1>2, <1>6, <3>1
  <2>2. CASE q # queue.events
    BY <1>1, <1>4, <1>6, <2>2 DEF Immediately
  <2> QED BY <2>1, <2>2
<1>8. -MaxSetbacks <= added.nextAttemptAt /\ added.nextAttemptAt <= MaxBackoff + turned
  BY <1>1, <1>7 DEF GoodQueue
<1>9. GoodQueue(added, turned)
  BY <1>6, <1>7, <1>8 DEF GoodQueue
<1> QED BY <1>3, <1>7, <1>9

\* A failure leaves the events and sets the next attempt within the limit.
LEMMA FailureIsGood ==
  ASSUME NEW turned \in 0 .. MaxSetbacks, NEW queue, GoodQueue(queue, turned), NEW failed,
         failed = [MarkFailure(queue, 0) EXCEPT !.attempts = IF @ > MaxAttempts
                                                             THEN MaxAttempts ELSE @]
  PROVE  /\ GoodQueue(failed, turned) /\ failed.events = queue.events
         /\ failed.attempts = IF queue.attempts + 1 > MaxAttempts
                              THEN MaxAttempts ELSE queue.attempts + 1
         /\ failed.nextAttemptAt = Backoff(queue.attempts + 1)
PROOF
<1> DEFINE R == [events : Seq(AlertEntries), attempts : 0 .. MaxAttempts, nextAttemptAt : Int]
           next == 0 + Backoff(queue.attempts + 1)
           attempts == IF queue.attempts + 1 > MaxAttempts
                       THEN MaxAttempts ELSE queue.attempts + 1
<1>1. MaxSetbacks \in Nat /\ MaxBackoff \in Nat /\ MaxAttempts \in Nat
  BY DeliveryAssumption, QueueAssumption
<1>2. queue \in R /\ queue.attempts \in 0 .. MaxAttempts
  BY DEF GoodQueue
<1>3. next \in 1 .. MaxBackoff
  <2>1. queue.attempts + 1 \in Nat \ {0}
    BY <1>1, <1>2
  <2>2. Backoff(queue.attempts + 1) \in 1 .. MaxBackoff
    BY <2>1, BackoffIsLimited
  <2> QED BY <1>1, <2>2
<1>4. attempts \in 0 .. MaxAttempts
  BY <1>1, <1>2
<1> DEFINE once == MarkFailure(queue, 0)
<1>5. /\ once.attempts = queue.attempts + 1 /\ once.events = queue.events
      /\ once.nextAttemptAt = next
  BY <1>2 DEF MarkFailure
<1>6. DOMAIN once = DOMAIN queue
  BY DEF MarkFailure
<1> HIDE DEF next, once
<1>a. failed = [once EXCEPT !.attempts = attempts]
  BY <1>5 DEF once
<1> HIDE DEF attempts
<1>b. DOMAIN queue = {"events", "attempts", "nextAttemptAt"}
  BY <1>2
<1>c. /\ DOMAIN failed = {"events", "attempts", "nextAttemptAt"}
      /\ failed.events = queue.events /\ failed.attempts = attempts
      /\ failed.nextAttemptAt = next
  BY <1>5, <1>6, <1>a, <1>b
<1>d. /\ failed \in R /\ failed.events = queue.events /\ failed.nextAttemptAt = next
  <2>1. failed = [events |-> queue.events, attempts |-> attempts, nextAttemptAt |-> next]
    BY <1>5, <1>6, <1>a, <1>b
  <2> QED BY <1>2, <1>3, <1>4, <1>c, <2>1
<1>7. -MaxSetbacks <= next /\ next <= MaxBackoff + turned
  BY <1>1, <1>3
<1>8. next = Backoff(queue.attempts + 1)
  <2>1. queue.attempts + 1 \in Nat \ {0}
    BY <1>1, <1>2
  <2>2. Backoff(queue.attempts + 1) \in 1 .. MaxBackoff
    BY <2>1, BackoffIsLimited
  <2> QED BY ONLY <1>1, <2>2 DEF next
<1>9. GoodQueue(failed, turned)
  BY <1>2, <1>7, <1>d DEF GoodQueue
<1> QED BY <1>8, <1>9, <1>c DEF attempts

-----------------------------------------------------------------------------
(* The steps *)

OutboxStep == InOutbox!Next \/ UNCHANGED InOutbox!vars

\* Outbox uses the same operators on sequences.
LEMMA SameOperators ==
  /\ \A s : InOutbox!ToSet(s) = ToSet(s)
  /\ \A S : InOutbox!SetToAllKPermutations(S) = SetToAllKPermutations(S)
PROOF
<1>1. \A s : InOutbox!ToSet(s) = ToSet(s)
  BY DEF ToSet, InOutbox!ToSet
<1>2. \A S : InOutbox!SetToSeqs(S) = SetToSeqs(S)
  <2>1. \A S : InOutbox!Cardinality(S) = Cardinality(S)
    BY DEF Cardinality, InOutbox!Cardinality
  <2> QED BY <2>1 DEF SetToSeqs, InOutbox!SetToSeqs
<1>3. \A S : InOutbox!SetToAllKPermutations(S) = SetToAllKPermutations(S)
  BY <1>2 DEF SetToAllKPermutations, InOutbox!SetToAllKPermutations
<1> QED BY <1>1, <1>3

\* The outbox does not see a step that leaves the events and who was told of them.
LEMMA SameEvents ==
  ASSUME queueFile'.events = queueFile.events, told' = told
  PROVE  OutboxStep
PROOF
<1>1. Checks(queueFile.events)' = Checks(queueFile.events)
  BY DEF Checks
<1> QED BY <1>1 DEF OutboxStep, InOutbox!vars

\* A run that gives up or fails early: only time passes.
LEMMA QuietStep ==
  ASSUME IInv, GiveUp \/ FailEarly
  PROVE  IInv' /\ OutboxStep
PROOF
<1>1. /\ GoodQueue(queueFile', setbacks) /\ queueFile'.events = queueFile.events
      /\ phase = "idle"
  BY LaterIsGood DEF IInv, GiveUp, FailEarly
<1>2. /\ since' = Missed /\ phase' \in {"idle", "late"}
      /\ UNCHANGED <<pending, left, hung, setbacks, told, excused>>
  BY <1>1 DEF GiveUp, FailEarly, ghosts
<1>3. (/\ GoodQueue(queueFile, setbacks) /\ GoodQueue(pending, setbacks)
       /\ setbacks \in 0 .. MaxSetbacks /\ hung \subseteq HangingTools
       /\ phase \in {"idle", "late"} \cup Running)'
  BY <1>1, <1>2 DEF IInv
<1>4. told' \subseteq ToSet(Checks(queueFile'.events))
  BY <1>1, <1>2 DEF IInv
<1>5. InTime'
  BY <1>1, <1>2 DEF IInv, InTime, Running
<1>6. InHand'
  BY <1>2 DEF InHand
<1>7. Excused'
  BY <1>1, <1>2, Zenon DEF IInv, Excused
<1>9. OutboxStep
  BY <1>1, <1>2, SameEvents
<1> QED BY <1>3, <1>4, <1>5, <1>6, <1>7, <1>9 DEF IInv

\* The clock is set back.
LEMMA SetBackStep ==
  ASSUME IInv, SetBack
  PROVE  IInv' /\ OutboxStep
PROOF
<1>1. /\ GoodQueue(queueFile', setbacks') /\ queueFile'.events = queueFile.events
      /\ phase = "idle"
  BY LaterIsGood DEF IInv, SetBack
<1>2. setbacks' \in 0 .. MaxSetbacks /\ setbacks' \in Nat /\ setbacks' >= setbacks
  BY DeliveryAssumption DEF IInv, SetBack
<1>3. GoodQueue(pending, setbacks')
  BY <1>2, GoodForLonger DEF IInv
<1>4. UNCHANGED <<phase, pending, left, since, hung, told, excused>>
  BY DEF SetBack, ghosts
<1>5. (/\ GoodQueue(queueFile, setbacks) /\ GoodQueue(pending, setbacks)
       /\ setbacks \in 0 .. MaxSetbacks /\ hung \subseteq HangingTools
       /\ phase \in {"idle", "late"} \cup Running)'
  BY <1>1, <1>2, <1>3, <1>4 DEF IInv
<1>6. told' \subseteq ToSet(Checks(queueFile'.events))
  BY <1>1, <1>4 DEF IInv
<1>7. InTime' /\ InHand'
  BY <1>1, <1>4 DEF IInv, InTime, InHand, Running
<1>8. Excused'
  BY <1>1, <1>4, Zenon DEF IInv, Excused
<1>10. OutboxStep
  BY <1>1, <1>4, SameEvents
<1> QED BY <1>5, <1>6, <1>7, <1>8, <1>10 DEF IInv

\* Tools hang and recover between two runs.
LEMMA HangStep ==
  ASSUME IInv, HangOrRecover
  PROVE  IInv' /\ OutboxStep
PROOF
<1>1. /\ phase = "idle" /\ hung' \subseteq HangingTools
      /\ UNCHANGED <<queueFile, phase, pending, left, since, setbacks, told, excused>>
  BY DEF HangOrRecover, ghosts
<1>2. InTime' /\ InHand'
  BY <1>1 DEF IInv, InTime, InHand
<1>3. Excused'
  BY <1>1, Zenon DEF IInv, Excused
<1>4. OutboxStep
  BY <1>1, SameEvents
<1> QED BY <1>1, <1>2, <1>3, <1>4 DEF IInv

\* A run posts its alerts, those of them that are new.
LEMMA CheckStep ==
  ASSUME IInv, Check
  PROVE  IInv' /\ OutboxStep
PROOF
<1> DEFINE earlier == Later(queueFile, 1)
<1>1. PICK answering \in AnswerTimes, alerts \in SUBSET ToSet(Alerting) :
        /\ ~Expired(hung, answering)
        /\ queueFile' = Add(earlier, Raised(alerts), 0)
        /\ told' = told \cap ToSet(Checks(queueFile'.events))
        /\ excused' = (excused /\ told' # {})
        /\ \/ /\ phase' = "send" /\ pending' = queueFile' /\ queueFile'.events # <<>>
              /\ left' = Deadline - Elapsed(hung, answering, Len(Commands))
           \/ UNCHANGED <<phase, pending, left>>
  BY Zenon DEF Check, Ready
<1>2. phase = "idle" /\ since' = 0 /\ UNCHANGED <<hung, setbacks>>
  BY DEF Check
<1>3. GoodQueue(earlier, setbacks) /\ earlier.events = queueFile.events
  BY LaterIsGood DEF IInv
<1> HIDE DEF earlier
<1>4. PICK q : Extends(q, queueFile.events, alerts) /\ queueFile'.events = Trim(q)
  BY <1>1, <1>3, AddPosts DEF IInv
<1>5. GoodQueue(queueFile', setbacks)
  BY <1>1, <1>3, AddPosts DEF IInv
<1>6. /\ queueFile.events \in Seq(AlertEntries) /\ q \in Seq(AlertEntries) /\ Unrepeated(q)
  BY <1>4 DEF IInv, GoodQueue, Extends
<1>7. OutboxStep
  <2>1. PICK new \in SetToAllKPermutations(ToSet(Alerting) \ ToSet(Checks(queueFile.events))) :
          Checks(q) = Checks(queueFile.events) \o new
    BY <1>4, <1>6, NewAlertsArePosted
  <2>2. Checks(queueFile'.events) =
          IF Len(Checks(q)) > MaxEvents
          THEN SubSeq(Checks(q), Len(Checks(q)) - MaxEvents + 1, Len(Checks(q)))
          ELSE Checks(q)
    BY <1>4, <1>6, TrimmedChecks
  <2>3. Checks(queueFile.events)' = Checks(queueFile'.events)
    BY DEF Checks
  <2>4. InOutbox!Post(new)
    BY <1>1, <2>1, <2>2, <2>3, SameOperators DEF InOutbox!Post
  <2> QED BY <2>1, <2>4, SameOperators DEF OutboxStep, InOutbox!Next
<1>8. phase' = "send" => left' \in 0 .. Deadline
  <2>1. Elapsed(hung, answering, Len(Commands)) \in Nat
    <3>1. answering \in Nat /\ Len(Commands) \in 0 .. Len(Commands)
      BY DeliveryAssumption, CheckRunAssumption, CommandsAre
    <3> QED BY <3>1, ElapsedAdds DEF Accumulates
  <2>2. Elapsed(hung, answering, Len(Commands)) < Deadline
    BY <1>1, <2>1 DEF Expired, Deadline
  <2>3. phase' = "send" => left' = Deadline - Elapsed(hung, answering, Len(Commands))
    BY <1>1, <1>2
  <2>4. \A e \in Nat : e < Deadline => Deadline - e \in 0 .. Deadline
    BY DEF Deadline
  <2> QED BY <2>1, <2>2, <2>3, <2>4
<1>9. phase' \in {"idle", "send"} /\ (phase' = "idle" => pending' = pending /\ left' = left)
  BY <1>1, <1>2
<1>10. (/\ GoodQueue(queueFile, setbacks) /\ GoodQueue(pending, setbacks)
        /\ setbacks \in 0 .. MaxSetbacks /\ hung \subseteq HangingTools
        /\ phase \in {"idle", "late"} \cup Running)'
  BY <1>1, <1>2, <1>5, <1>9 DEF IInv, Running
<1>11. told' \subseteq ToSet(Checks(queueFile'.events))
  BY <1>1
<1>12. InTime'
  BY <1>2, <1>8, <1>9 DEF IInv, InTime, Running, Missed, TimeLimit, Deadline
<1>13. InHand'
  BY <1>1, <1>2, <1>9 DEF InHand
<1>14. Excused'
  <2>1. told # {} => excused
    BY <1>2, Zenon DEF IInv, Excused
  <2>2. told' # {} => told # {}
    BY <1>1
  <2>3. told' # {} => excused'
    BY <1>1, <2>1, <2>2, Zenon
  <2>4. phase' # "acknowledged"
    BY <1>9
  <2> QED BY <2>3, <2>4, Zenon DEF Excused
<1> QED BY <1>7, <1>10, <1>11, <1>12, <1>13, <1>14 DEF IInv

\* The end of a run, for whatever reason.
LEMMA StopStep ==
  ASSUME IInv, Stop
  PROVE  IInv' /\ OutboxStep
PROOF
<1>1. /\ phase # "idle" /\ phase' = "idle" /\ pending' = EmptyQueue /\ left' = 0
      /\ since' \in {Missed} \cup {since + left + TimeLimit - Deadline : p \in {phase} \ {"late"}}
      /\ excused' = (excused \/ phase = "acknowledged")
      /\ UNCHANGED <<queueFile, hung, setbacks, told>>
  BY DEF Stop, Leave
<1>2. GoodQueue(pending', setbacks) /\ setbacks \in 0 .. MaxSetbacks
  BY <1>1, DeliveryAssumption, EmptyIsGood DEF IInv
<1>3. (/\ GoodQueue(queueFile, setbacks) /\ GoodQueue(pending, setbacks)
       /\ setbacks \in 0 .. MaxSetbacks /\ hung \subseteq HangingTools
       /\ phase \in {"idle", "late"} \cup Running)'
  BY <1>1, <1>2 DEF IInv
<1>4. told' \subseteq ToSet(Checks(queueFile'.events))
  BY <1>1 DEF IInv
<1>5. InTime'
  <2>1. since' # Missed => phase \in Running /\ since' = since + left + TimeLimit - Deadline
    BY <1>1 DEF IInv
  <2>2. phase \in Running => since \in 0 .. TimeLimit /\ left \in 0 .. Deadline
                              /\ since + left <= Deadline
    BY DEF IInv, InTime
  <2>3. left' = 0 /\ phase' = "idle" /\ since' \in {Missed} \cup 0 .. TimeLimit
    <3>1. left' = 0 /\ phase' = "idle"
      BY <1>1
    <3>2. since' # Missed => since' \in 0 .. TimeLimit
      <4> HAVE since' # Missed
      <4>1. /\ since \in Nat /\ left \in Nat /\ since + left <= Deadline
            /\ since' = since + left + TimeLimit - Deadline
        BY ONLY <2>1, <2>2, since' # Missed DEF TimeLimit, Deadline
      <4> QED BY ONLY <4>1 DEF TimeLimit, Deadline
    <3> QED BY ONLY <3>1, <3>2
  <2> QED BY ONLY <2>3 DEF InTime, Running, Deadline
<1>6. InHand'
  BY <1>1 DEF InHand
<1>7. Excused'
  <2>1. phase = "acknowledged" => excused'
    BY <1>1, Zenon
  <2>2. phase # "acknowledged" /\ told' # {} => excused'
    BY <1>1, Zenon DEF IInv, Excused
  <2>3. phase' # "acknowledged"
    BY <1>1
  <2> QED BY <2>1, <2>2, <2>3, Zenon DEF Excused
<1>9. OutboxStep
  BY <1>1, SameEvents
<1> QED BY <1>3, <1>4, <1>5, <1>6, <1>7, <1>9 DEF IInv

\* The failure of a delivery is saved.
LEMMA SaveFailureStep ==
  ASSUME IInv, SaveFailure
  PROVE  IInv' /\ OutboxStep
PROOF
<1>1. /\ phase = "failed" /\ queueFile' = pending
      /\ phase' = "idle" /\ pending' = EmptyQueue /\ left' = 0
      /\ UNCHANGED <<since, hung, setbacks, told, excused>>
  BY DEF SaveFailure, Leave, ghosts
<1>2. queueFile'.events = queueFile.events
  BY <1>1 DEF IInv, InHand
<1>3. GoodQueue(pending', setbacks) /\ setbacks \in 0 .. MaxSetbacks
  BY <1>1, DeliveryAssumption, EmptyIsGood DEF IInv
<1>4. (/\ GoodQueue(queueFile, setbacks) /\ GoodQueue(pending, setbacks)
       /\ setbacks \in 0 .. MaxSetbacks /\ hung \subseteq HangingTools
       /\ phase \in {"idle", "late"} \cup Running)'
  BY <1>1, <1>3 DEF IInv
<1>5. told' \subseteq ToSet(Checks(queueFile'.events))
  BY <1>1, <1>2 DEF IInv
<1>6. InTime'
  BY <1>1 DEF IInv, InTime, Running, Deadline
<1>7. InHand'
  BY <1>1 DEF InHand
<1>8. Excused'
  BY <1>1, Zenon DEF IInv, Excused
<1>10. OutboxStep
  BY <1>1, <1>2, SameEvents
<1> QED BY <1>4, <1>5, <1>6, <1>7, <1>8, <1>10 DEF IInv

\* What the server has accepted is forgotten once that is saved.
LEMMA SaveAcknowledgementStep ==
  ASSUME IInv, SaveAcknowledgement
  PROVE  IInv' /\ OutboxStep
PROOF
<1>1. /\ phase = "acknowledged" /\ queueFile' = pending
      /\ told' = told \cap ToSet(Checks(pending.events))
      /\ excused' = (excused /\ told' # {})
      /\ \/ /\ pending.events # <<>> /\ phase' = "send"
            /\ pending' = pending /\ left' = left
         \/ phase' = "idle" /\ pending' = EmptyQueue /\ left' = 0
      /\ UNCHANGED <<since, hung, setbacks>>
  BY Zenon DEF SaveAcknowledgement
<1>2. PICK n \in 1 .. Len(queueFile.events) :
        /\ IsRest(pending.events, queueFile.events, n)
        /\ First(queueFile.events, n) \subseteq told
  BY <1>1 DEF IInv, InHand
<1>3. /\ queueFile.events \in Seq(AlertEntries) /\ Unrepeated(queueFile.events)
      /\ pending.events \in Seq(AlertEntries) /\ told \subseteq ToSet(Checks(queueFile.events))
  BY DEF IInv, GoodQueue
<1>4. n \in 0 .. Len(queueFile.events)
  BY <1>2
<1>5. OutboxStep
  <2>1. {Checks(queueFile.events)[i] : i \in 1 .. n} = First(queueFile.events, n)
    BY <1>2, <1>3, <1>4, FirstAndRest
  <2>2. Checks(pending.events) = SubSeq(Checks(queueFile.events), n + 1, Len(queueFile.events))
    BY <1>2, <1>3, <1>4, RestOf
  <2>3. Len(Checks(queueFile.events)) = Len(queueFile.events)
    BY <1>3, ChecksOf
  <2>4. told' = told \ First(queueFile.events, n)
    <3>1. \A c \in ToSet(Checks(queueFile.events)) :
            c \in ToSet(Checks(pending.events)) <=> c \notin First(queueFile.events, n)
      BY <1>2, <1>3, <1>4, FirstAndRest
    <3> QED BY <1>1, <1>3, <3>1
  <2>5. Checks(queueFile.events)' = Checks(pending.events)
    BY <1>1 DEF Checks
  <2>6. InOutbox!Forget(n)
    BY <1>2, <2>1, <2>2, <2>3, <2>4, <2>5 DEF InOutbox!Forget, InOutbox!First
  <2> QED BY <1>2, <2>3, <2>6 DEF OutboxStep, InOutbox!Next
<1>6. /\ phase' \in {"idle", "send"}
      /\ phase' = "idle" => pending' = EmptyQueue /\ left' = 0
      /\ phase' = "send" => pending' = pending /\ left' = left /\ pending.events # <<>>
  BY <1>1
<1>7. GoodQueue(pending', setbacks) /\ setbacks \in 0 .. MaxSetbacks
  BY <1>6, DeliveryAssumption, EmptyIsGood DEF IInv
<1>8. (/\ GoodQueue(queueFile, setbacks) /\ GoodQueue(pending, setbacks)
       /\ setbacks \in 0 .. MaxSetbacks /\ hung \subseteq HangingTools
       /\ phase \in {"idle", "late"} \cup Running)'
  BY <1>1, <1>6, <1>7 DEF IInv, Running
<1>9. told' \subseteq ToSet(Checks(queueFile'.events))
  BY <1>1
<1>10. InTime'
  <2>1. /\ left \in 0 .. Deadline /\ since \in {Missed} \cup 0 .. TimeLimit
        /\ since # Missed /\ since + left <= Deadline
    BY <1>1 DEF IInv, InTime, Running
  <2>2. left' \in {left, 0} /\ since' = since /\ (phase' \in Running => left' = left)
    BY <1>1, <1>6 DEF Running
  <2> QED BY <2>1, <2>2 DEF InTime, Deadline
<1>11. InHand'
  BY <1>1, <1>6 DEF InHand
<1>12. Excused'
  <2>1. told' # {} => excused
    BY <1>1, Zenon DEF IInv, Excused
  <2>2. told' # {} => excused'
    BY <1>1, <2>1, Zenon
  <2>3. phase' # "acknowledged"
    BY <1>6
  <2> QED BY <2>2, <2>3, Zenon DEF Excused
<1> QED BY <1>5, <1>8, <1>9, <1>10, <1>11, <1>12 DEF IInv

\* The smaller of two numbers.
LEMMA MinOfTwo ==
  ASSUME NEW a \in Nat, NEW b \in Nat
  PROVE  /\ Min({a, b}) \in Nat /\ Min({a, b}) <= a /\ Min({a, b}) <= b
         /\ Min({a, b}) = a \/ Min({a, b}) = b
PROOF
<1>1. \E x \in {a, b} : \A y \in {a, b} : x <= y
  OBVIOUS
<1>2. Min({a, b}) \in {a, b} /\ \A y \in {a, b} : Min({a, b}) <= y
  BY <1>1 DEF Min
<1> QED BY <1>2

\* What is left when the server has accepted the first n alerts.
LEMMA DeliveredIsGood ==
  ASSUME NEW turned \in 0 .. MaxSetbacks, NEW queue, GoodQueue(queue, turned),
         NEW n \in 0 .. Len(queue.events), NEW delivered, delivered = MarkDelivered(queue, n)
  PROVE  GoodQueue(delivered, turned) /\ IsRest(delivered.events, queue.events, n)
PROOF
<1> DEFINE rest == SubSeq(queue.events, n + 1, Len(queue.events))
<1>1. /\ MaxSetbacks \in Nat /\ MaxBackoff \in Nat /\ MaxAttempts \in Nat /\ MaxEvents \in Nat
      /\ queue.events \in Seq(AlertEntries) /\ Unrepeated(queue.events)
      /\ Len(queue.events) \in Nat /\ Len(queue.events) <= MaxEvents
  BY DeliveryAssumption, QueueAssumption DEF GoodQueue
<1>2. rest \in Seq(AlertEntries) /\ IsRest(rest, queue.events, n)
  BY <1>1, SubSeqRest
<1>3. delivered = [events |-> rest, attempts |-> 0, nextAttemptAt |-> 0]
  BY DEF MarkDelivered, EmptyQueue, Immediately
<1> HIDE DEF rest
<1>4. Unrepeated(rest) /\ Len(rest) = Len(queue.events) - n
  BY <1>1, <1>2, RestOf
<1>5. delivered.events = rest /\ delivered.nextAttemptAt = 0
  BY <1>3
<1>6. delivered \in [events : Seq(AlertEntries), attempts : 0 .. MaxAttempts, nextAttemptAt : Int]
  BY <1>1, <1>2, <1>3
<1> QED BY <1>1, <1>2, <1>4, <1>5, <1>6 DEF GoodQueue

\* One message: the server stores it or not, the run learns that or not.
LEMMA SendStep ==
  ASSUME IInv, NEW answer \in Answers, NEW took \in {0, SendTimeout}, Send(answer, took)
  PROVE  IInv' /\ OutboxStep
PROOF
<1> DEFINE events == queueFile.events
           count == BatchCount(events)
           batch == ToSet(Checks(SubSeq(events, 1, count)))
           spent == Min({took, left})
           succeeds == IsAcknowledged(answer) /\ took < left
<1>1. phase = "send" /\ UNCHANGED <<queueFile, hung, setbacks>>
  BY DEF Send
<1>2. pending.events = events /\ events # <<>>
  BY <1>1 DEF IInv, InHand
<1>3. events \in Seq(AlertEntries) /\ Unrepeated(events) /\ setbacks \in 0 .. MaxSetbacks
  BY DEF IInv, GoodQueue
<1>4. count \in 1 .. Len(events) /\ Fits(events, count)
  BY <1>2, <1>3, BatchIsSome
<1>5. /\ told' = IF answer.stored THEN told \cup batch ELSE told
      /\ left' = left - spent /\ since' = since + spent
      /\ \/ /\ succeeds /\ phase' = "acknowledged" /\ pending' = MarkDelivered(pending, count)
         \/ /\ ~succeeds /\ phase' = "failed"
            /\ pending' = [MarkFailure(pending, 0) EXCEPT
                             !.attempts = IF @ > MaxAttempts THEN MaxAttempts ELSE @]
      /\ excused' = (excused \/ (answer.stored /\ ~succeeds))
  <2>1. Send(answer, took)!2!(count)
    BY <1>2 DEF Send
  <2>2. Succeeds(Fits(events, count), answer, took) <=> succeeds
    BY <1>4 DEF Succeeds
  <2> QED BY <1>2, <1>4, <2>1, <2>2, Zenon
<1>6. succeeds => answer.stored
  BY DEF IsAcknowledged, Answers
<1> DEFINE rest == SubSeq(events, count + 1, Len(events))
<1>7. rest \in Seq(AlertEntries) /\ IsRest(rest, events, count) /\ count \in 0 .. Len(events)
  <2>1. count \in 0 .. Len(events)
    BY <1>4
  <2> HIDE DEF count
  <2> QED BY <1>3, <2>1, SubSeqRest
<1>8. /\ batch = First(events, count) /\ batch \subseteq ToSet(Checks(events))
      /\ {Checks(events)[i] : i \in 1 .. count} = batch
      /\ \A c \in ToSet(Checks(events)) : c \in ToSet(Checks(rest)) <=> c \notin batch
  <2> HIDE DEF count, rest, events
  <2>1. ToSet(Checks(SubSeq(events, 1, count))) = First(events, count)
    BY <1>3, <1>7, FirstAndRest
  <2> QED BY <1>3, <1>7, <2>1, FirstAndRest
<1> HIDE DEF count, batch, rest, succeeds
<1>9. told \subseteq ToSet(Checks(events)) /\ told' \subseteq ToSet(Checks(events))
  BY <1>5, <1>8 DEF IInv
<1>10. told' = told \cup batch => OutboxStep
  <2> HAVE told' = told \cup batch
  <2>1. count \in 1 .. Len(Checks(events))
    BY <1>3, <1>4, ChecksOf
  <2>2. Checks(events)' = Checks(events)
    BY <1>1 DEF Checks
  <2>3. InOutbox!Tell(count)
    BY <1>8, <2>2 DEF InOutbox!Tell, InOutbox!First
  <2> QED BY <2>1, <2>3 DEF OutboxStep, InOutbox!Next
<1>11. OutboxStep
  BY <1>1, <1>5, <1>10, SameEvents
<1>12. InTime'
  <2>1. /\ left \in 0 .. Deadline /\ since \in {Missed} \cup 0 .. TimeLimit
        /\ since # Missed /\ since + left <= Deadline
    BY <1>1 DEF IInv, InTime, Running
  <2>2. left \in Nat /\ since \in Nat /\ took \in Nat
    <3>1. SendTimeout \in Nat
      BY DeliveryAssumption
    <3>2. took \in Nat
      BY <3>1
    <3> QED BY <2>1, <3>2 DEF Deadline, TimeLimit
  <2>3. spent \in Nat /\ spent <= left
    BY <2>2, MinOfTwo
  <2> HIDE DEF spent
  <2>4. /\ left' \in 0 .. Deadline /\ since' \in 0 .. TimeLimit /\ since' + left' <= Deadline
        /\ since' # Missed
    <3>1. left' = left - spent /\ since' = since + spent
      BY <1>5
    <3> QED BY ONLY <2>1, <2>2, <2>3, <3>1 DEF Deadline, TimeLimit, Missed
  <2> QED BY <2>4 DEF InTime
<1>13. /\ phase' = "acknowledged" =>
            /\ GoodQueue(pending', setbacks) /\ IsRest(pending'.events, events, count)
            /\ pending'.events = rest
       /\ phase' = "failed" => GoodQueue(pending', setbacks) /\ pending'.events = events
  <2>1. GoodQueue(pending, setbacks)
    BY DEF IInv
  <2>2. phase' = "acknowledged" => pending' = MarkDelivered(pending, count)
    BY <1>5
  <2>3. phase' = "acknowledged" =>
          GoodQueue(pending', setbacks) /\ IsRest(pending'.events, events, count)
    BY <1>2, <1>3, <1>7, <2>1, <2>2, DeliveredIsGood
  <2>4. MarkDelivered(pending, count).events = rest
    BY <1>2 DEF MarkDelivered, EmptyQueue, rest
  <2>5. phase' = "failed" => GoodQueue(pending', setbacks) /\ pending'.events = pending.events
    BY <1>3, <1>5, <2>1, FailureIsGood
  <2> QED BY <1>2, <2>2, <2>3, <2>4, <2>5
<1>14. phase' \in {"acknowledged", "failed"}
  BY <1>5
<1>15. (/\ GoodQueue(queueFile, setbacks) /\ GoodQueue(pending, setbacks)
        /\ setbacks \in 0 .. MaxSetbacks /\ hung \subseteq HangingTools
        /\ phase \in {"idle", "late"} \cup Running)'
  BY <1>1, <1>13, <1>14 DEF IInv, Running
<1>16. phase' = "acknowledged" => batch \subseteq told'
  BY <1>5, <1>6
<1>17. InHand'
  BY <1>1, <1>4, <1>8, <1>13, <1>14, <1>16 DEF InHand
<1>18. Excused'
  <2>1. told # {} => excused
    BY <1>1, Zenon DEF IInv, Excused
  <2>2. ASSUME phase' = "acknowledged", told' \cap ToSet(Checks(pending'.events)) # {}
        PROVE  excused'
    <3>1. told # {}
      BY <1>5, <1>8, <1>9, <1>13, <2>2
    <3> QED BY <1>5, <2>1, <3>1, Zenon
  <2>3. ASSUME phase' = "failed", told' # {}
        PROVE  excused'
    <3>1. ~succeeds
      BY <1>5, <2>3
    <3>2. answer.stored \/ told' = told
      BY <1>5
    <3> QED BY <1>5, <2>1, <2>3, <3>1, <3>2, Zenon
  <2>4. phase' = "acknowledged" \/ phase' = "failed"
    BY <1>14
  <2> QED BY <2>2, <2>3, <2>4, Zenon DEF Excused
<1>20. told' \subseteq ToSet(Checks(queueFile'.events))
  <2>1. Checks(queueFile'.events) = Checks(events)
    BY <1>1
  <2> QED BY <1>9, <2>1
<1> QED BY <1>11, <1>12, <1>15, <1>17, <1>18, <1>20 DEF IInv

\* The invariant holds at first.
LEMMA IInvInit == Init => IInv
PROOF
<1> SUFFICES ASSUME Init PROVE IInv
  OBVIOUS
<1>1. /\ queueFile = EmptyQueue /\ pending = EmptyQueue /\ phase = "idle" /\ left = 0
      /\ since = Missed /\ hung = {} /\ setbacks = 0 /\ told = {}
  BY DEF Init
<1>2. GoodQueue(EmptyQueue, 0) /\ 0 \in 0 .. MaxSetbacks
  BY EmptyIsGood, DeliveryAssumption
<1> QED BY <1>1, <1>2 DEF IInv, InTime, InHand, Excused, Running, Deadline

\* Every step keeps it and is one of the outbox or none.
LEMMA IInvNext ==
  ASSUME IInv, [Next]_vars
  PROVE  IInv' /\ OutboxStep
PROOF
<1>1. CASE Check
  BY <1>1, CheckStep
<1>2. CASE GiveUp \/ FailEarly
  BY <1>2, QuietStep
<1>3. ASSUME NEW answer \in Answers, NEW took \in {0, SendTimeout}, Send(answer, took)
      PROVE  IInv' /\ OutboxStep
  BY <1>3, SendStep
<1>4. CASE SaveAcknowledgement
  BY <1>4, SaveAcknowledgementStep
<1>5. CASE SaveFailure
  BY <1>5, SaveFailureStep
<1>6. CASE Stop
  BY <1>6, StopStep
<1>7. CASE SetBack
  BY <1>7, SetBackStep
<1>8. CASE HangOrRecover
  BY <1>8, HangStep
<1>9. CASE UNCHANGED vars
  <2>1. UNCHANGED <<queueFile, phase, pending, left, since, hung, setbacks, told, excused>>
    BY <1>9 DEF vars, ghosts
  <2>2. OutboxStep
    BY <2>1, SameEvents
  <2>3. InTime' /\ InHand'
    BY <2>1 DEF IInv, InTime, InHand
  <2>4. Excused'
    BY <2>1, Zenon DEF IInv, Excused
  <2> QED BY <2>1, <2>2, <2>3, <2>4 DEF IInv
<1> QED BY <1>1, <1>2, <1>3, <1>4, <1>5, <1>6, <1>7, <1>8, <1>9 DEF Next

\* So it always holds.
LEMMA Invariant == Spec => []IInv
PROOF
<1>1. Init => IInv
  BY IInvInit
<1>2. IInv /\ [Next]_vars => IInv'
  BY IInvNext
<1> QED BY <1>1, <1>2, PTL DEF Spec

-----------------------------------------------------------------------------
(* The delay between retries *)

\* The delay after one more failure.
Following(delay) == IF delay = 0 THEN 1 ELSE Min({2 * delay, MaxBackoff})

\* What the reader of the alerts expects is what the queue provides: its delay is
\* that of its attempts, and what is left of it adds up with what has passed.
Spaced ==
  /\ pause \in 0 .. MaxBackoff /\ waited \in 0 .. MaxBackoff
  /\ pause > 0 =>
       /\ queueFile.attempts > 0 /\ pause <= Backoff(queueFile.attempts)
       /\ waited >= pause \/ waited + queueFile.nextAttemptAt >= pause
  /\ phase = "send" => pending = queueFile
  /\ phase = "failed" =>
       /\ pending.attempts > 0 /\ Following(pause) <= Backoff(pending.attempts)
       /\ pending.nextAttemptAt >= Following(pause)

\* The delay after one more failure is at most twice the last one, and the limit.
LEMMA FollowingIs ==
  ASSUME NEW delay \in 0 .. MaxBackoff
  PROVE  /\ Following(delay) \in 1 .. MaxBackoff
         /\ delay > 0 => Following(delay) <= 2 * delay
PROOF
<1>1. MaxBackoff \in Nat \ {0} /\ delay \in Nat /\ 2 * delay \in Nat
  BY QueueAssumption
<1>2. /\ Min({2 * delay, MaxBackoff}) \in {2 * delay, MaxBackoff}
      /\ Min({2 * delay, MaxBackoff}) <= 2 * delay
      /\ Min({2 * delay, MaxBackoff}) <= MaxBackoff
  BY <1>1, MinOfTwo
<1> QED BY <1>1, <1>2 DEF Following

\* Time that passes brings the next attempt no nearer than it says, and a clock
\* that is set back puts it off.
LEMMA LaterIsNearer ==
  ASSUME NEW turned, NEW queue, GoodQueue(queue, turned), NEW units \in {1, -1}
  PROVE  /\ Later(queue, units).attempts = queue.attempts
         /\ queue.attempts > 0 =>
              Later(queue, units).nextAttemptAt >= queue.nextAttemptAt - units
PROOF
<1>1. /\ queue \in [events : Seq(AlertEntries), attempts : 0 .. MaxAttempts, nextAttemptAt : Int]
      /\ queue.nextAttemptAt \in Int /\ MaxSetbacks \in Nat
  BY DeliveryAssumption DEF GoodQueue
<1> DEFINE next == IF queue.nextAttemptAt - units < -MaxSetbacks
                   THEN -MaxSetbacks ELSE queue.nextAttemptAt - units
<1>2. CASE queue.attempts = 0
  BY <1>2 DEF Later
<1>3. CASE queue.attempts # 0
  <2>1. Later(queue, units) = [queue EXCEPT !.nextAttemptAt = next]
    BY <1>3 DEF Later
  <2>2. next >= queue.nextAttemptAt - units
    BY <1>1
  <2> HIDE DEF next
  <2>3. Later(queue, units).attempts = queue.attempts /\ Later(queue, units).nextAttemptAt = next
    BY <1>1, <2>1
  <2> QED BY <2>2, <2>3
<1> QED BY <1>2, <1>3

\* A queue is not extended by alerts it has.
LEMMA NothingNew ==
  ASSUME NEW events \in Seq(AlertEntries), NEW alerts, alerts \subseteq ToSet(Checks(events)),
         NEW q, Extends(q, events, alerts)
  PROVE  q = events
PROOF
<1>1. q \in Seq(AlertEntries)
  BY Zenon DEF Extends
<1>2. /\ Len(q) \in Nat /\ Len(events) \in Nat
      /\ DOMAIN q = 1 .. Len(q) /\ DOMAIN events = 1 .. Len(events)
  BY ONLY <1>1, events \in Seq(AlertEntries)
<1>3. /\ Unrepeated(q) /\ Len(events) <= Len(q)
      /\ \A i \in 1 .. Len(events) : q[i] = events[i]
  <2>1. Unrepeated(q) /\ Len(events) <= Len(q)
    BY Zenon DEF Extends
  <2>2. ASSUME NEW i \in 1 .. Len(events) PROVE q[i] = events[i]
    BY Zenon DEF Extends
  <2> QED BY ONLY <2>1, <2>2, Zenon
<1>4. PICK m, n \in Nat : m = Len(events) /\ n = Len(q)
  BY <1>2, Zenon
<1>5. ASSUME m < n PROVE FALSE
  <2>1. q[n].event.check \in alerts
    <3>1. n \in m + 1 .. n
      BY ONLY m \in Nat, n \in Nat, m < n
    <3>2. n \in Len(events) + 1 .. Len(q)
      BY ONLY <1>4, <3>1
    <3> QED BY <3>2, Zenon DEF Extends
  <2>2. q[n].event.check \in {events[j].event.check : j \in DOMAIN events}
    <3>1. DOMAIN Checks(events) = DOMAIN events
          /\ \A j \in DOMAIN events : Checks(events)[j] = events[j].event.check
      BY ONLY TRUE DEF Checks
    <3>2. q[n].event.check \in {Checks(events)[j] : j \in DOMAIN Checks(events)}
      BY <2>1, Zenon DEF ToSet
    <3> QED BY ONLY <3>1, <3>2, Zenon
  <2>3. PICK i \in 1 .. m : events[i].event.check = q[n].event.check
    BY <1>2, <1>4, <2>2, Zenon
  <2>4. i \in 1 .. n /\ i # n /\ n \in 1 .. n
    BY ONLY m \in Nat, n \in Nat, m < n, i \in 1 .. m
  <2>5. q[i] = events[i]
    BY <1>3, <1>4, <2>3, Zenon
  <2>6. \A j, k \in DOMAIN q : q[j].event.check = q[k].event.check => j = k
    BY <1>3, Zenon DEF Unrepeated
  <2>7. i \in DOMAIN q /\ n \in DOMAIN q
    BY <1>2, <1>4, <2>4, Zenon
  <2> QED BY ONLY <2>3, <2>4, <2>5, <2>6, <2>7, Zenon
<1>6. m = n
  <2>1. m <= n
    BY <1>3, <1>4, Zenon
  <2> QED BY ONLY m \in Nat, n \in Nat, <1>5, <2>1
<1>7. DOMAIN q = DOMAIN events /\ \A i \in DOMAIN events : q[i] = events[i]
  BY <1>2, <1>3, <1>4, <1>6, Zenon
<1>8. q = [i \in DOMAIN q |-> q[i]] /\ events = [i \in DOMAIN events |-> events[i]]
  BY ONLY <1>1, events \in Seq(AlertEntries)
<1> QED BY ONLY <1>7, <1>8, Zenon

\* Alerts that are queued already do not change when the queue is tried again.
LEMMA OldAlertsChangeNothing ==
  ASSUME NEW queue, NEW turned, GoodQueue(queue, turned), NEW alerts \in SUBSET ToSet(Alerting),
         alerts \subseteq ToSet(Checks(queue.events))
  PROVE  LET added == Add(queue, Raised(alerts), 0)
         IN added.attempts = queue.attempts /\ added.nextAttemptAt = queue.nextAttemptAt
PROOF
<1>1. /\ queue.events \in Seq(AlertEntries) /\ Unrepeated(queue.events)
      /\ queue \in [events : Seq(AlertEntries), attempts : 0 .. MaxAttempts, nextAttemptAt : Int]
  BY DEF GoodQueue
<1>2. AddAll(queue.events, Raised(alerts), 0) = queue.events
  BY <1>1, ExtendedByAll, NothingNew
<1>3. Add(queue, Raised(alerts), 0) = [queue EXCEPT !.events = Trim(queue.events)]
  BY <1>2 DEF Add
<1> QED BY <1>1, <1>3

\* A run comes a unit later.
LEMMA UnitKeepsSpaced ==
  ASSUME IInv, Spaced, UnitPasses,
         pause > 0 => /\ queueFile'.attempts = queueFile.attempts
                      /\ queueFile'.nextAttemptAt \in Int
                      /\ queueFile'.nextAttemptAt >= queueFile.nextAttemptAt - 1
  PROVE  /\ pause' \in 0 .. MaxBackoff /\ waited' \in 0 .. MaxBackoff
         /\ pause' > 0 =>
              /\ queueFile'.attempts > 0 /\ pause' <= Backoff(queueFile'.attempts)
              /\ waited' >= pause' \/ waited' + queueFile'.nextAttemptAt >= pause'
PROOF
<1>1. /\ pause' = pause /\ pause \in 0 .. MaxBackoff /\ waited \in 0 .. MaxBackoff
      /\ waited' = IF pause = 0 THEN 0 ELSE Min({waited + 1, MaxBackoff})
      /\ MaxBackoff \in Nat /\ queueFile.nextAttemptAt \in Int
  BY QueueAssumption DEF UnitPasses, Spaced, IInv, GoodQueue
<1>2. CASE pause = 0
  BY <1>1, <1>2
<1>3. CASE pause > 0
  <2>1. /\ Min({waited + 1, MaxBackoff}) \in {waited + 1, MaxBackoff}
        /\ Min({waited + 1, MaxBackoff}) <= MaxBackoff
    <3>1. waited + 1 \in Nat
      BY <1>1
    <3> QED BY <1>1, <3>1, MinOfTwo
  <2>2. waited' \in {waited + 1, MaxBackoff} /\ waited' <= MaxBackoff
    BY <1>1, <1>3, <2>1
  <2>3. waited >= pause \/ waited + queueFile.nextAttemptAt >= pause
    BY <1>3 DEF Spaced
  <2>4. waited' >= pause' \/ waited' + queueFile'.nextAttemptAt >= pause'
    BY ONLY <1>1, <1>3, <2>2, <2>3, pause > 0 =>
                      /\ queueFile'.attempts = queueFile.attempts
                      /\ queueFile'.nextAttemptAt \in Int
                      /\ queueFile'.nextAttemptAt >= queueFile.nextAttemptAt - 1
  <2>5. queueFile'.attempts > 0 /\ pause' <= Backoff(queueFile'.attempts)
    BY <1>1, <1>3 DEF Spaced
  <2>6. waited' \in 0 .. MaxBackoff
    BY <1>1, <2>2
  <2> QED BY <1>1, <2>4, <2>5, <2>6
<1> QED BY <1>1, <1>2, <1>3

\* A run that checks: only news lets it forget the failures.
LEMMA CheckKeepsSpaced ==
  ASSUME IInv, Spaced, Check
  PROVE  /\ Spaced'
         /\ phase' = "send" => waited' >= pause'
PROOF
<1> DEFINE earlier == Later(queueFile, 1)
<1>1. PICK alerts \in SUBSET ToSet(Alerting) :
        /\ queueFile' = Add(earlier, Raised(alerts), 0)
        /\ IF alerts \subseteq ToSet(Checks(queueFile.events))
           THEN UnitPasses ELSE pause' = 0 /\ waited' = 0
        /\ \/ phase' = "send" /\ pending' = queueFile' /\ 0 >= queueFile'.nextAttemptAt
           \/ phase' = phase
  BY Zenon DEF Check, Ready
<1>2. /\ GoodQueue(earlier, setbacks) /\ earlier.events = queueFile.events
      /\ earlier.attempts = queueFile.attempts
      /\ queueFile.attempts > 0 => earlier.nextAttemptAt >= queueFile.nextAttemptAt - 1
  BY LaterIsGood, LaterIsNearer DEF IInv
<1>3. \/ phase' = "idle"
      \/ phase' = "send" /\ pending' = queueFile' /\ 0 >= queueFile'.nextAttemptAt
  BY <1>1 DEF Check
<1> HIDE DEF earlier
<1>4. /\ pause' \in 0 .. MaxBackoff /\ waited' \in 0 .. MaxBackoff
      /\ pause' > 0 =>
           /\ queueFile'.attempts > 0 /\ pause' <= Backoff(queueFile'.attempts)
           /\ waited' >= pause' \/ waited' + queueFile'.nextAttemptAt >= pause'
  <2>1. CASE alerts \subseteq ToSet(Checks(queueFile.events))
    <3>1. /\ queueFile'.attempts = earlier.attempts
          /\ queueFile'.nextAttemptAt = earlier.nextAttemptAt
      BY <1>1, <1>2, <2>1, OldAlertsChangeNothing
    <3>2. pause > 0 => queueFile.attempts > 0
      BY DEF Spaced
    <3>3. earlier.nextAttemptAt \in Int
      BY <1>2 DEF GoodQueue
    <3> QED BY <1>1, <1>2, <2>1, <3>1, <3>2, <3>3, UnitKeepsSpaced
  <2>2. CASE ~(alerts \subseteq ToSet(Checks(queueFile.events)))
    BY <1>1, <2>2, QueueAssumption
  <2> QED BY <2>1, <2>2
<1>5. Spaced'
  BY <1>3, <1>4 DEF Spaced
<1>6. GoodQueue(queueFile', setbacks)
  BY <1>1, <1>2, AddPosts DEF IInv
<1>7. queueFile'.nextAttemptAt \in Int
  BY <1>6 DEF GoodQueue
<1>8. ASSUME phase' = "send" PROVE waited' >= pause'
  <2>1. 0 >= queueFile'.nextAttemptAt
    BY <1>3, <1>8
  <2>2. pause' \in Nat /\ waited' \in Nat
    BY <1>4, QueueAssumption
  <2> QED BY ONLY <1>4, <1>7, <2>1, <2>2
<1> QED BY <1>5, <1>8

\* A message fails or is accepted.
LEMMA SendKeepsSpaced ==
  ASSUME IInv, Spaced, NEW answer \in Answers, NEW took \in {0, SendTimeout}, Send(answer, took)
  PROVE  Spaced'
PROOF
<1> DEFINE a == queueFile.attempts
<1>1. phase = "send" /\ UNCHANGED <<queueFile, pause, waited>>
  BY DEF Send, spacing
<1>2. pending = queueFile
  BY <1>1 DEF Spaced
<1>3. /\ a \in Nat /\ MaxAttempts \in Nat \ {0} /\ MaxBackoff \in Nat \ {0}
      /\ Backoff(MaxAttempts) = MaxBackoff
  BY DeliveryAssumption, QueueAssumption DEF IInv, GoodQueue
<1>4. \/ phase' = "acknowledged"
      \/ /\ phase' = "failed"
         /\ pending' = [MarkFailure(queueFile, 0) EXCEPT
                          !.attempts = IF @ > MaxAttempts THEN MaxAttempts ELSE @]
  BY <1>2, Zenon DEF Send
<1>5. ASSUME phase' = "failed"
      PROVE  /\ pending'.attempts > 0 /\ Following(pause) <= Backoff(pending'.attempts)
             /\ pending'.nextAttemptAt >= Following(pause)
  <2>1. /\ pending'.attempts = IF a + 1 > MaxAttempts THEN MaxAttempts ELSE a + 1
        /\ pending'.nextAttemptAt = Backoff(a + 1)
    BY <1>4, <1>5, FailureIsGood DEF IInv
  <2>2. Following(pause) \in 1 .. MaxBackoff /\ (pause > 0 => Following(pause) <= 2 * pause)
    BY FollowingIs DEF Spaced
  <2>3. Backoff(a + 1) \in 1 .. MaxBackoff
    BY <1>3, BackoffIsLimited
  <2>4. Following(pause) <= Backoff(a + 1)
    <3>1. CASE pause = 0
      BY <1>3, <2>3, <3>1 DEF Following
    <3>2. CASE pause > 0
      <4>1. a \in Nat \ {0} /\ pause <= Backoff(a)
        BY <1>3, <3>2 DEF Spaced
      <4>2. Backoff(a + 1) = Limited(2 * Backoff(a)) /\ Backoff(a) \in 1 .. MaxBackoff
        BY <4>1, BackoffDoubles, BackoffIsLimited
      <4>3. pause \in Nat
        BY <1>3 DEF Spaced
      <4> QED BY ONLY <1>3, <2>2, <3>2, <4>1, <4>2, <4>3 DEF Limited
    <3>3. pause = 0 \/ pause > 0
      BY <1>3 DEF Spaced
    <3> QED BY <3>1, <3>2, <3>3
  <2>5. Following(pause) <= Backoff(pending'.attempts)
    <3>1. CASE a + 1 > MaxAttempts
      BY <1>3, <2>1, <2>2, <3>1
    <3>2. CASE ~(a + 1 > MaxAttempts)
      BY <2>1, <2>4, <3>2
    <3> QED BY <3>1, <3>2
  <2>6. pending'.attempts > 0
    BY <1>3, <2>1
  <2> QED BY <2>1, <2>4, <2>5, <2>6
<1>6. (pause > 0 =>
        /\ queueFile.attempts > 0 /\ pause <= Backoff(queueFile.attempts)
        /\ waited >= pause \/ waited + queueFile.nextAttemptAt >= pause)'
  BY <1>1 DEF Spaced
<1>7. phase' # "send" /\ Following(pause') = Following(pause)
  BY <1>1, <1>4
<1> QED BY <1>1, <1>5, <1>6, <1>7 DEF Spaced

\* Every other step.
LEMMA OtherStepsKeepSpaced ==
  ASSUME IInv, Spaced,
         \/ GiveUp \/ FailEarly \/ SaveAcknowledgement \/ SaveFailure \/ Stop
         \/ SetBack \/ HangOrRecover \/ UNCHANGED vars
  PROVE  Spaced' /\ ~(phase = "idle" /\ phase' = "send")
PROOF
<1>1. CASE GiveUp \/ FailEarly
  <2>1. UnitPasses /\ queueFile' = Later(queueFile, 1) /\ phase' \in {"idle", "late"}
    BY <1>1 DEF GiveUp, FailEarly
  <2>2. GoodQueue(queueFile', setbacks)
    BY <2>1, LaterIsGood DEF IInv
  <2>3. /\ queueFile'.attempts = queueFile.attempts /\ queueFile'.nextAttemptAt \in Int
        /\ queueFile.attempts > 0 => queueFile'.nextAttemptAt >= queueFile.nextAttemptAt - 1
    BY <2>1, <2>2, LaterIsNearer DEF IInv, GoodQueue
  <2>4. pause > 0 => queueFile.attempts > 0
    BY DEF Spaced
  <2> QED BY <2>1, <2>3, <2>4, UnitKeepsSpaced DEF Spaced
<1>2. CASE SaveAcknowledgement
  <2>1. /\ phase = "acknowledged" /\ pause' = 0 /\ waited' = 0 /\ queueFile' = pending
        /\ phase' = "idle" \/ (phase' = "send" /\ pending' = pending)
    BY <1>2 DEF SaveAcknowledgement
  <2> QED BY <2>1, QueueAssumption DEF Spaced
<1>3. CASE SaveFailure
  <2>1. /\ phase = "failed" /\ phase' = "idle" /\ queueFile' = pending
        /\ pause' = Following(pause) /\ waited' = 0
    BY <1>3 DEF SaveFailure, Leave, Following
  <2>2. Following(pause) \in 1 .. MaxBackoff
    BY FollowingIs DEF Spaced
  <2>3. pending.nextAttemptAt \in Int /\ MaxBackoff \in Nat
    BY QueueAssumption DEF IInv, GoodQueue
  <2>4. /\ pending.attempts > 0 /\ Following(pause) <= Backoff(pending.attempts)
        /\ 0 + pending.nextAttemptAt >= Following(pause)
    BY <2>1, <2>3 DEF Spaced
  <2> HIDE DEF Following
  <2>5. pause' \in 0 .. MaxBackoff /\ waited' \in 0 .. MaxBackoff
    BY <2>1, <2>2, <2>3
  <2> QED BY <2>1, <2>4, <2>5 DEF Spaced
<1>4. CASE Stop
  <2>1. phase' = "idle" /\ UNCHANGED <<queueFile, pause, waited>>
    BY <1>4 DEF Stop, Leave, spacing
  <2> QED BY <2>1 DEF Spaced
<1>5. CASE SetBack
  <2>1. /\ phase = "idle" /\ UNCHANGED <<phase, pause, waited>>
        /\ queueFile' = Later(queueFile, -1)
    BY <1>5 DEF SetBack, spacing
  <2>2. GoodQueue(queueFile', setbacks + 1)
    BY <2>1, LaterIsGood DEF IInv
  <2>3. /\ queueFile'.attempts = queueFile.attempts /\ queueFile'.nextAttemptAt \in Int
        /\ queueFile.attempts > 0 => queueFile'.nextAttemptAt >= queueFile.nextAttemptAt - (-1)
    BY <2>1, <2>2, LaterIsNearer DEF IInv, GoodQueue
  <2>4. /\ queueFile.nextAttemptAt \in Int /\ pause \in Int /\ waited \in Int
    BY QueueAssumption DEF IInv, GoodQueue, Spaced
  <2>5. ASSUME pause > 0
        PROVE  waited >= pause \/ waited + queueFile'.nextAttemptAt >= pause
    <3>1. /\ queueFile'.nextAttemptAt >= queueFile.nextAttemptAt - (-1)
          /\ waited >= pause \/ waited + queueFile.nextAttemptAt >= pause
      BY <2>3, <2>5 DEF Spaced
    <3> QED BY ONLY <2>3, <2>4, <3>1
  <2> QED BY <2>1, <2>3, <2>5 DEF Spaced
<1>6. CASE HangOrRecover \/ UNCHANGED vars
  <2>1. UNCHANGED <<queueFile, phase, pending, pause, waited>>
    BY <1>6 DEF HangOrRecover, vars, spacing
  <2> QED BY <2>1 DEF Spaced, Following
<1> QED BY <1>1, <1>2, <1>3, <1>4, <1>5, <1>6

\* So the delays are always as expected, and a run that sends has waited.
LEMMA SpacedNext ==
  ASSUME IInv, Spaced, [Next]_vars
  PROVE  /\ Spaced'
         /\ phase = "idle" /\ phase' = "send" => waited' >= pause'
PROOF
<1>1. ASSUME NEW answer \in Answers, NEW took \in {0, SendTimeout}, Send(answer, took)
      PROVE  Spaced' /\ phase # "idle"
  BY <1>1, SendKeepsSpaced DEF Send
<1> QED BY <1>1, CheckKeepsSpaced, OtherStepsKeepSpaced DEF Next

\* The invariant of the retries.
LEMMA SpacedAlways == Spec => []Spaced
PROOF
<1>1. Init => Spaced
  BY QueueAssumption DEF Init, Spaced
<1>2. IInv /\ Spaced /\ [Next]_vars => Spaced'
  BY SpacedNext
<1> QED BY <1>1, <1>2, Invariant, PTL DEF Spec

-----------------------------------------------------------------------------
(* Theorems *)

\* Type correctness: the queue stays within its limit and its delay below the
\* longest backoff, every run ends 120 seconds after it saved at the latest, and
\* the reader was only told of what is queued.
THEOREM TypesKept == Spec => []TypeOK
PROOF
<1> SUFFICES IInv /\ Spaced => TypeOK
  BY Invariant, SpacedAlways, PTL
<1> SUFFICES ASSUME IInv, Spaced PROVE TypeOK
  OBVIOUS
<1>1. MaxSetbacks \in Nat /\ MaxBackoff \in Nat /\ MaxAttempts \in Nat
  BY DeliveryAssumption, QueueAssumption
<1>2. queueFile \in [events : Seq([event : {Alert(c) : c \in ToSet(Alerting)},
                                   createdAt : {0}]),
                     attempts : 0 .. MaxAttempts,
                     nextAttemptAt : -MaxSetbacks .. MaxBackoff + MaxSetbacks]
  <2>1. /\ queueFile \in [events : Seq(AlertEntries), attempts : 0 .. MaxAttempts,
                          nextAttemptAt : Int]
        /\ -MaxSetbacks <= queueFile.nextAttemptAt
        /\ queueFile.nextAttemptAt <= MaxBackoff + setbacks /\ setbacks \in 0 .. MaxSetbacks
    BY DEF IInv, GoodQueue
  <2>2. queueFile.nextAttemptAt \in -MaxSetbacks .. MaxBackoff + MaxSetbacks
    BY <1>1, <2>1
  <2> QED BY <2>1, <2>2 DEF AlertEntries, AlertsAbout
<1> QED BY <1>2 DEF TypeOK, IInv, GoodQueue, InTime, Running, Spaced

\* deliverQueued forgets what the server has acknowledged before the next message:
\* the reader is told twice only when an answer was lost or a run was cut short
\* between the acknowledgement and its save.
THEOREM RepeatsHaveAReason == Spec => []NoNeedlessRepeat
PROOF
<1>1. IInv => NoNeedlessRepeat
  BY Zenon DEF IInv, Excused, NoNeedlessRepeat
<1> QED BY <1>1, Invariant, PTL

\* MarkFailure, Add and Ready space out the retries: after failures that were saved
\* in a row the next request waits for 5 minutes, doubled for each but the first,
\* up to the limit, unless a new alert comes, whatever is raised again, wherever a
\* run is cut short and however the clock is set back.
THEOREM RetriesWait == Spec => RetriesAreSpaced
PROOF
<1>1. IInv /\ Spaced /\ [Next]_vars =>
        [phase = "idle" /\ phase' = "send" => waited' >= pause']_vars
  BY SpacedNext
<1> QED BY <1>1, Invariant, SpacedAlways, PTL DEF Spec, RetriesAreSpaced

\* The queue, its limit, its batches and its saves deliver as the outbox promises:
\* in order, every batch from the oldest alert on, and nothing forgotten untold
\* but what newer alerts push out, whatever the server answers and wherever a run
\* is cut short.
THEOREM ImplementsOutbox == Spec => OutboxSafety
PROOF
<1>1. Init => InOutbox!Init
  <2>1. EmptyQueue.events = <<>> /\ Checks(<<>>) = <<>>
    BY DEF EmptyQueue, Checks
  <2> QED BY <2>1 DEF Init, InOutbox!Init
<1>2. IInv /\ [Next]_vars => [InOutbox!Next]_(InOutbox!vars)
  BY IInvNext DEF OutboxStep
<1> QED BY <1>1, <1>2, Invariant, PTL DEF Spec, OutboxSafety, InOutbox!Safety

\* Only a run's checks queue anything.
LEMMA OnlyChecksAlert ==
  ASSUME IInv, [Next]_vars, ~Check
  PROVE  ToSet(Checks(queueFile'.events)) \subseteq ToSet(Checks(queueFile.events))
PROOF
<1>1. CASE queueFile'.events = queueFile.events
  BY <1>1
<1>2. CASE SaveAcknowledgement
  <2>1. phase = "acknowledged" /\ queueFile' = pending
    BY <1>2 DEF SaveAcknowledgement
  <2>2. PICK n \in 1 .. Len(queueFile.events) : IsRest(pending.events, queueFile.events, n)
    BY <2>1 DEF IInv, InHand
  <2>3. /\ queueFile.events \in Seq(AlertEntries) /\ Unrepeated(queueFile.events)
        /\ pending.events \in Seq(AlertEntries) /\ n \in 0 .. Len(queueFile.events)
    BY <2>2 DEF IInv, GoodQueue
  <2>4. Checks(pending.events) = SubSeq(Checks(queueFile.events), n + 1, Len(queueFile.events))
    BY <2>2, <2>3, RestOf
  <2>5. /\ Checks(queueFile.events) \in Seq(ToSet(Alerting))
        /\ Len(Checks(queueFile.events)) = Len(queueFile.events)
    BY <2>3, ChecksOf
  <2>6. IsRest(Checks(pending.events), Checks(queueFile.events), n)
    BY <2>3, <2>4, <2>5, SubSeqRest
  <2>7. Len(queueFile.events) \in Nat /\ DOMAIN Checks(queueFile.events) = 1 .. Len(queueFile.events)
    BY <2>3, <2>5
  <2>8. ASSUME NEW c \in ToSet(Checks(pending.events))
        PROVE  c \in ToSet(Checks(queueFile.events))
    <3>1. PICK i \in 1 .. Len(queueFile.events) - n : c = Checks(queueFile.events)[i + n]
      BY <2>5, <2>6 DEF ToSet, IsRest
    <3>2. i + n \in 1 .. Len(queueFile.events)
      BY <2>3, <2>7
    <3> QED BY <2>7, <3>1, <3>2 DEF ToSet
  <2> QED BY <2>1, <2>8
<1>3. CASE SaveFailure
  <2>1. queueFile'.events = queueFile.events
    BY <1>3 DEF SaveFailure, IInv, InHand
  <2> QED BY <1>1, <2>1
<1>4. CASE GiveUp \/ FailEarly \/ SetBack
  <2>1. queueFile'.events = queueFile.events
    BY <1>4, LaterIsGood DEF IInv, GiveUp, FailEarly, SetBack
  <2> QED BY <1>1, <2>1
<1>5. CASE UNCHANGED queueFile
  BY <1>5
<1>6. Stop \/ HangOrRecover \/ UNCHANGED vars => UNCHANGED queueFile
  BY DEF Stop, HangOrRecover, vars
<1>7. (\E answer \in Answers, took \in {0, SendTimeout} : Send(answer, took))
        => UNCHANGED queueFile
  BY DEF Send
<1> QED BY <1>2, <1>3, <1>4, <1>5, <1>6, <1>7 DEF Next

\* What a run's checks queue is about a check that runs no command or about a tool
\* that hangs.
LEMMA NewAlertsAreAboutHangs ==
  ASSUME IInv, Check, NEW c \in CommandChecks, c \in ToSet(Checks(queueFile'.events)),
         c \notin ToSet(Checks(queueFile.events))
  PROVE  \E command \in ToSet(Commands) : c \in command.checks /\ command.tool \in hung
PROOF
<1> DEFINE earlier == Later(queueFile, 1)
<1>1. PICK answering \in AnswerTimes, alerts \in SUBSET ToSet(Alerting) :
        /\ ~Expired(hung, answering)
        /\ alerts \subseteq Measured \cup FailedChecks(hung, answering)
        /\ queueFile' = Add(earlier, Raised(alerts), 0)
  BY DEF Check
<1>2. GoodQueue(earlier, setbacks) /\ earlier.events = queueFile.events
  BY LaterIsGood DEF IInv
<1> HIDE DEF earlier
<1>3. PICK q : Extends(q, queueFile.events, alerts) /\ queueFile'.events = Trim(q)
  BY <1>1, <1>2, AddPosts DEF IInv
<1>4. /\ queueFile.events \in Seq(AlertEntries) /\ q \in Seq(AlertEntries) /\ Unrepeated(q)
      /\ Len(q) \in Nat /\ Len(queueFile.events) \in Nat
      /\ DOMAIN q = 1 .. Len(q) /\ DOMAIN queueFile.events = 1 .. Len(queueFile.events)
  BY <1>3 DEF IInv, GoodQueue, Extends
<1>5. c \in alerts
  <2>1. ToSet(Trim(q)) \subseteq ToSet(q)
    BY <1>4, TrimmedChecks
  <2>2. PICK entry \in ToSet(q) : c = entry.event.check
    <3>1. c \in ToSet(Checks(Trim(q)))
      BY <1>3
    <3> QED BY ONLY <2>1, <3>1 DEF Checks, ToSet
  <2>3. PICK i \in 1 .. Len(q) : c = q[i].event.check
    <3>1. DOMAIN q = 1 .. Len(q)
      BY <1>4
    <3> QED BY ONLY <2>2, <3>1 DEF ToSet
  <2>4. ASSUME i <= Len(queueFile.events) PROVE FALSE
    <3>1. i \in 1 .. Len(queueFile.events)
      BY <1>4, <2>4
    <3>2. c = queueFile.events[i].event.check
      BY <1>3, <2>3, <3>1 DEF Extends
    <3> QED BY <1>4, <3>1, <3>2 DEF Checks, ToSet
  <2>5. i \in Len(queueFile.events) + 1 .. Len(q)
    BY <1>4, <2>4
  <2> QED BY <1>3, <2>3, <2>5 DEF Extends
<1>6. c \in FailedChecks(hung, answering)
  BY <1>1, <1>5 DEF Measured
<1>7. PICK i \in DOMAIN Commands : Fails(hung, answering, i) /\ c \in Commands[i].checks
  BY <1>6 DEF FailedChecks
<1>8. /\ Len(Commands) \in Nat /\ i \in 1 .. Len(Commands) /\ i - 1 \in 0 .. Len(Commands)
      /\ Len(Commands) \in 0 .. Len(Commands) /\ answering \in Nat
  <2>1. Len(Commands) \in Nat /\ DOMAIN Commands = 1 .. Len(Commands)
    BY CommandsAre
  <2>2. answering \in Nat
    BY DeliveryAssumption
  <2> QED BY <2>1, <2>2
<1>9. ~(Elapsed(hung, answering, i - 1) >= Deadline)
  <2>1. /\ Elapsed(hung, answering, i - 1) \in Nat
        /\ Elapsed(hung, answering, Len(Commands)) \in Nat
    BY <1>8, ElapsedAdds DEF Accumulates
  <2>2. Elapsed(hung, answering, i - 1) <= Elapsed(hung, answering, Len(Commands))
    BY <1>8, ElapsedGrows
  <2>3. Elapsed(hung, answering, Len(Commands)) < Deadline
    BY <1>1, <2>1 DEF Expired, Deadline
  <2> QED BY <2>1, <2>2, <2>3 DEF Deadline
<1>10. Commands[i].tool \in hung
  BY <1>7, <1>9 DEF Fails
<1>11. Commands[i] \in ToSet(Commands)
  BY DEF ToSet
<1> QED BY <1>7, <1>10, <1>11

\* checks.Run's deadline raises no alert: an alert about a check that runs commands
\* is about a tool that hangs by itself, for any services, limits and delays.
THEOREM DeadlineBlamesNobody == Spec => NoBlameForTheDeadline
PROOF
<1> DEFINE Blames(c) ==
             \E command \in ToSet(Commands) : c \in command.checks /\ command.tool \in hung
<1>1. IInv /\ [Next]_vars =>
        [\A c \in CommandChecks :
           c \in ToSet(Checks(queueFile'.events)) \ ToSet(Checks(queueFile.events)) =>
             Blames(c)]_vars
  BY OnlyChecksAlert, NewAlertsAreAboutHangs
<1> QED BY <1>1, Invariant, PTL DEF Spec, NoBlameForTheDeadline

\* cli.check's deadline leaves time for one tool that hangs, with all its commands
\* and whatever services are configured: such a run gives up after its checks only
\* when the commands that answer take two seconds or more.  Their own limits allow
\* them to; with the six profiles nothing is in reserve.
THEOREM OneFaultIsInTime ==
  ASSUME NEW answering \in Nat, NEW hangs, NEW tool, hangs \subseteq {tool}
  PROVE  Expired(hangs, answering) => answering >= 2
PROOF
<1>1. Elapsed(hangs, answering, Len(Commands)) <= answering + 108
  BY OneToolIsInTime
<1>2. Elapsed(hangs, answering, Len(Commands)) \in Nat
  <2>1. Len(Commands) \in 0 .. Len(Commands)
    BY CommandsAre, CheckRunAssumption
  <2> QED BY <2>1, ElapsedAdds DEF Accumulates
<1> QED BY <1>1, <1>2 DEF Expired, Deadline

\* A run that comes within the interval and the timer's slack finds the agent's
\* last run recent, however long the checks and the deliveries took, for every
\* interval from 145 seconds on.
THEOREM TimerKeepsTheAgentFresh ==
  ASSUME Interval >= 145
  PROVE  Spec => []OnTimeIsFresh
PROOF
<1>1. ASSUME IInv, phase = "idle", since # Missed, NEW answering \in AnswerTimes,
             ~Expired(hung, answering),
             NEW spent, spent = Elapsed(hung, answering, Len(Commands) - Len(Services))
      PROVE  FreshnessResult(since + Interval + Slack + spent, Interval) = Ok
  <2>1. since \in 0 .. TimeLimit /\ answering \in Nat /\ Interval \in Nat
    BY <1>1, DeliveryAssumption DEF IInv, InTime
  <2>2. /\ Len(Commands) \in Nat /\ Len(Commands) - Len(Services) \in 0 .. Len(Commands)
        /\ Len(Commands) \in 0 .. Len(Commands)
    BY CommandsAre, CheckRunAssumption
  <2>3. spent \in Nat /\ Elapsed(hung, answering, Len(Commands)) \in Nat
    BY <1>1, <2>1, <2>2, ElapsedAdds DEF Accumulates
  <2>4. spent <= Elapsed(hung, answering, Len(Commands))
    BY <1>1, <2>1, <2>2, ElapsedGrows
  <2>5. Elapsed(hung, answering, Len(Commands)) < 110
    BY <1>1, <2>3 DEF Expired, Deadline
  <2> DEFINE age == since + Interval + Slack + spent
  <2>6. ~(age > 3 * Interval) /\ ~(age > 6 * Interval)
    BY <2>1, <2>3, <2>4, <2>5 DEF TimeLimit, Slack
  <2> QED BY <2>6 DEF FreshnessResult
<1>2. IInv => OnTimeIsFresh
  BY <1>1 DEF OnTimeIsFresh
<1> QED BY <1>2, Invariant, PTL
================================================================================
