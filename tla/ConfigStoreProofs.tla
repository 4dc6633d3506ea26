---------------------------- MODULE ConfigStoreProofs ----------------------------
(***************************************************************************)
(* Proofs about ConfigStore for every number of processes, connections,    *)
(* tokens, intervals and services.                                         *)
(*                                                                         *)
(* What is saved was tested because a command saves only what it has       *)
(* tested or what it has loaded.  The other properties need that no two    *)
(* commands overlap: then what a command loaded is still what is saved     *)
(* (Snapshot), whichever step it is at.                                    *)
(***************************************************************************)
EXTENDS ConfigStore, TLAPS

\* The commands take their steps in the order their kind prescribes, and all but
\* configure need a configuration.
InStep(p) ==
  command[p] # Idle =>
    /\ command[p].kind # "configure" => config # NoConfig
    /\ command[p].kind \in {"enable", "disable"} => command[p].service \in Services
    /\ At(p, "token") => command[p].kind = "proxy"
    /\ At(p, "test") =>
         /\ command[p].kind \in {"configure", "proxy"}
         /\ command[p].token # NoToken
    /\ At(p, "save token") => command[p].kind = "configure" /\ command[p].token # NoToken
    /\ At(p, "save config") => command[p].kind # "timer"
    /\ At(p, "override") \/ At(p, "reload") =>
         command[p].kind \in {"configure", "timer"} /\ config # NoConfig
    /\ At(p, "enable") => command[p].kind = "configure" /\ config # NoConfig
    /\ command[p].kind = "configure" /\ command[p].pc \notin {"test", "save token"} =>
         token # NoToken

Program == \A p \in Procs : InStep(p)

\* A command that is about to save has tested what it will save, or has loaded it.
AboutToSave ==
  \A p \in Procs : At(p, "save token") \/ At(p, "save config") =>
    IF command[p].kind \in {"configure", "proxy"}
    THEN <<command[p].config.conn, command[p].token>> \in tested
    ELSE \E t \in Tokens : <<command[p].config.conn, t>> \in tested

\* Commands that do not overlap run alone.
Alone ==
  ~overlapped =>
    \A p, q \in Procs : command[p] # Idle /\ command[q] # Idle => p = q

\* What a command has loaded is what is saved.
Current(p) ==
  /\ command[p] # Idle /\ command[p].kind \in {"proxy", "enable", "disable"} =>
       config # NoConfig /\ command[p].config = Change(command[p], config)
  /\ \/ At(p, "save config") /\ command[p].kind \in {"configure", "proxy"}
     \/ At(p, "test") /\ command[p].kind = "proxy"
     => token = command[p].token
  /\ At(p, "override") \/ At(p, "reload") =>
       config # NoConfig /\ config.interval = command[p].config.interval
  /\ At(p, "reload") => override = command[p].config.interval

\* That is so of every command if none overlap.
Snapshot == ~overlapped => \A p \in Procs : Current(p)

IInv ==
  /\ TypeOK
  /\ Program
  /\ SavedWasTested
  /\ TimerFindsSettings
  /\ AboutToSave
  /\ (config = NoConfig <=> intended = NoConfig)
  /\ Alone
  /\ Snapshot
  /\ PairWasTested
  /\ NoChangeLost
  /\ TimerFollowsConfig

-----------------------------------------------------------------------------
(* Lemmas *)

\* No configuration is not a configuration, and no command is not a command.
LEMMA NothingIsNothing ==
  NoConfig \notin Configs /\ Idle \notin Commands /\ Idle.pc = "idle"
<1>1. NoConfig.conn \notin Conns
  BY ConfigStoreAssumption
<1>2. \A conf \in Configs : conf.conn \in Conns
  BY DEF Configs
<1>3. \A c \in Commands : c.pc # "idle"
  BY DEF Commands
<1> QED
  BY <1>1, <1>2, <1>3 DEF Idle

\* The count of commands stays a number.
LEMMA Successor == \A n \in Nat : n + 1 \in Nat
OBVIOUS

\* A process is at a step only while a command runs.
LEMMA AtStep ==
  ASSUME TypeOK, NEW p \in Procs, NEW pc, At(p, pc), pc # "idle"
  PROVE  command[p] \in Commands /\ command[p] # Idle
BY NothingIsNothing DEF TypeOK, At, Idle

\* A process without a command has nothing to be wrong about.
LEMMA IdleIsInStep ==
  ASSUME NEW q, command'[q] = Idle
  PROVE  command'[q].pc = "idle" /\ InStep(q)' /\ Current(q)'
<1>1. command'[q].pc = "idle"
  BY ONLY command'[q] = Idle, NothingIsNothing
<1> QED
  BY ONLY command'[q] = Idle, <1>1 DEF InStep, Current, At

\* A command stays in step while another goes on, as long as no file disappears.
LEMMA UntouchedInStep ==
  ASSUME NEW q, command'[q] = command[q], InStep(q),
         config # NoConfig => config' # NoConfig, token # NoToken => token' # NoToken
  PROVE  InStep(q)'
BY DEF InStep, At

\* What a command has loaded stays what is saved as long as the files stay.
LEMMA UntouchedCurrent ==
  ASSUME NEW q, command'[q] = command[q], Current(q),
         config' = config, token' = token, override' = override
  PROVE  Current(q)'
BY DEF Current, At, Change

\* What the other commands are about to save stays tested.
LEMMA OthersStayTested ==
  ASSUME AboutToSave, NEW p \in Procs, \A q \in Procs \ {p} : command'[q] = command[q],
         tested \subseteq tested',
         command'[p].pc \in {"save token", "save config"} =>
           IF command'[p].kind \in {"configure", "proxy"}
           THEN <<command'[p].config.conn, command'[p].token>> \in tested'
           ELSE \E t \in Tokens : <<command'[p].config.conn, t>> \in tested'
  PROVE  AboutToSave'
<1> SUFFICES ASSUME NEW q \in Procs, command'[q].pc \in {"save token", "save config"}
             PROVE  IF command'[q].kind \in {"configure", "proxy"}
                    THEN <<command'[q].config.conn, command'[q].token>> \in tested'
                    ELSE \E t \in Tokens : <<command'[q].config.conn, t>> \in tested'
  BY DEF AboutToSave, At
<1>1. CASE q = p
  BY <1>1
<1>2. CASE q # p
  <2>1. command'[q] = command[q]
    BY <1>2
  <2>2. command[q].pc \in {"save token", "save config"}
    BY <2>1
  <2>3. IF command[q].kind \in {"configure", "proxy"}
        THEN <<command[q].config.conn, command[q].token>> \in tested
        ELSE \E t \in Tokens : <<command[q].config.conn, t>> \in tested
    BY ONLY AboutToSave, q \in Procs, <2>2 DEF AboutToSave, At
  <2> QED
    BY <2>1, <2>3
<1> QED
  BY <1>1, <1>2

\* Two processes never become busy at once when no new command begins.
LEMMA AloneStays ==
  ASSUME Alone, NEW p \in Procs, \A q \in Procs \ {p} : command'[q] = command[q],
         command[p] # Idle, overlapped' = overlapped
  PROVE  Alone'
BY DEF Alone

\* A step of one command keeps all in step if it keeps its own in step.
LEMMA ProgramStays ==
  ASSUME Program, NEW p \in Procs, \A q \in Procs \ {p} : command'[q] = command[q],
         config # NoConfig => config' # NoConfig, token # NoToken => token' # NoToken,
         InStep(p)'
  PROVE  Program'
<1> SUFFICES ASSUME NEW q \in Procs, q # p PROVE InStep(q)'
  BY DEF Program
<1>1. InStep(q) /\ command'[q] = command[q]
  BY DEF Program
<1> QED
  BY <1>1, UntouchedInStep

\* A step that changes no file leaves what the other commands have loaded what is saved.
LEMMA SnapshotStays ==
  ASSUME Snapshot, NEW p \in Procs, \A q \in Procs \ {p} : command'[q] = command[q],
         config' = config, token' = token, override' = override, overlapped' = overlapped,
         ~overlapped => Current(p)'
  PROVE  Snapshot'
<1> SUFFICES ASSUME ~overlapped, NEW q \in Procs, q # p PROVE Current(q)'
  BY DEF Snapshot
<1>1. Current(q) /\ command'[q] = command[q]
  BY DEF Snapshot
<1> QED
  BY <1>1, UntouchedCurrent

\* A step that changes a file disturbs no other command if none overlap.
LEMMA SnapshotOfOne ==
  ASSUME Alone, NEW p \in Procs, \A q \in Procs \ {p} : command'[q] = command[q],
         command[p] # Idle, overlapped' = overlapped, ~overlapped => Current(p)'
  PROVE  Snapshot'
<1> SUFFICES ASSUME ~overlapped, NEW q \in Procs, q # p PROVE Current(q)'
  BY DEF Snapshot
<1>1. command[q] = Idle
  BY DEF Alone
<1>2. command'[q] = Idle
  BY <1>1
<1> QED
  BY <1>2, IdleIsInStep

\* The invariant holds before the first command.
LEMMA InitialState == Init => IInv
<1> SUFFICES ASSUME Init PROVE IInv
  OBVIOUS
<1>1. \A p \in Procs : command[p] = Idle
  BY DEF Init
<1>2. TypeOK
  BY DEF Init, TypeOK
<1>3. Program /\ AboutToSave /\ Alone /\ Snapshot
  <2>1. \A p \in Procs : command[p].pc = "idle"
    BY <1>1, NothingIsNothing
  <2> QED
    BY <1>1, <2>1 DEF Program, InStep, AboutToSave, Alone, Snapshot, Current, At
<1>4. SavedWasTested /\ TimerFindsSettings /\ (config = NoConfig <=> intended = NoConfig)
  BY DEF Init, SavedWasTested, TimerFindsSettings
<1>5. PairWasTested /\ NoChangeLost /\ TimerFollowsConfig
  BY DEF Init, PairWasTested, NoChangeLost, TimerFollowsConfig
<1> QED
  BY <1>2, <1>3, <1>4, <1>5 DEF IInv

\* A command may begin at any step for which what it loaded qualifies it.
LEMMA BeginKeeps ==
  ASSUME IInv, NEW p \in Procs, NEW pc, NEW kind, NEW conf, NEW tok, NEW service,
         Begin(p, pc, kind, conf, tok, service),
         [pc |-> pc, kind |-> kind, config |-> conf, token |-> tok,
          service |-> service] \in Commands,
         pc \in {"token", "test", "save config", "override"},
         pc = "token" => kind = "proxy",
         pc = "test" => kind = "configure" /\ tok # NoToken,
         pc = "save config" =>
           kind \in {"enable", "disable"} /\ conf.conn = config.conn,
         pc = "override" => kind = "timer" /\ conf = config,
         kind # "configure" => config # NoConfig,
         kind \in {"enable", "disable"} => service \in Services,
         kind \in {"proxy", "enable", "disable"} =>
           conf = Change([pc |-> pc, kind |-> kind, config |-> conf, token |-> tok,
                          service |-> service], config)
  PROVE  IInv'
<1> DEFINE new == [pc |-> pc, kind |-> kind, config |-> conf, token |-> tok,
                   service |-> service]
<1>1. /\ command' = [command EXCEPT ![p] = new]
      /\ command[p] = Idle
      /\ commands' = commands + 1
      /\ overlapped' = (overlapped \/ \E q \in Procs \ {p} : command[q] # Idle)
      /\ UNCHANGED <<config, token, override, loaded, timerOn, tested, intended, tokenAhead,
                     timerBehind>>
  BY DEF Begin, files
<1>2. /\ new \in Commands /\ new # Idle
      /\ new.pc = pc /\ new.kind = kind /\ new.config = conf
      /\ new.token = tok /\ new.service = service
  BY NothingIsNothing
<1>a. /\ kind \in {"proxy", "enable", "disable"} => new.config = Change(new, config)
      /\ command' = [command EXCEPT ![p] = new]
  BY <1>1
<1> HIDE DEF new
<1>3. /\ command'[p] = new
      /\ \A q \in Procs \ {p} : command'[q] = command[q]
  BY <1>a DEF IInv, TypeOK
<1>4. overlapped \in BOOLEAN
  BY DEF IInv, TypeOK
<1>5. TypeOK'
  <2>1. command' \in [Procs -> Commands \cup {Idle}]
    BY <1>a, <1>2 DEF IInv, TypeOK
  <2>2. overlapped' \in BOOLEAN
    BY <1>1, <1>4, Zenon
  <2>3. commands' \in Nat
    <3>1. commands \in Nat /\ commands' = commands + 1
      BY DEF IInv, TypeOK, Begin
    <3> QED
      BY <3>1, Successor, Zenon
  <2> QED
    BY <2>1, <2>2, <2>3, <1>1 DEF IInv, TypeOK
<1>6. Program'
  <2> SUFFICES ASSUME NEW q \in Procs PROVE InStep(q)'
    BY DEF Program
  <2>1. CASE q = p
    BY <1>2, <1>3, <1>1, <2>1 DEF InStep, At
  <2>2. CASE q # p
    BY <1>1, <1>3, <2>2 DEF IInv, Program, InStep, At
  <2> QED
    BY <2>1, <2>2
<1>7. SavedWasTested' /\ TimerFindsSettings' /\ (config = NoConfig <=> intended = NoConfig)'
  BY <1>1 DEF IInv, SavedWasTested, TimerFindsSettings
<1>8. AboutToSave'
  <2> SUFFICES ASSUME NEW q \in Procs, command'[q].pc \in {"save token", "save config"}
               PROVE  IF command'[q].kind \in {"configure", "proxy"}
                      THEN <<command'[q].config.conn, command'[q].token>> \in tested
                      ELSE \E t \in Tokens : <<command'[q].config.conn, t>> \in tested
    BY <1>1 DEF AboutToSave, At
  <2>1. CASE q = p
    BY <2>1, <1>2, <1>3 DEF IInv, SavedWasTested, TimerFindsSettings
  <2>2. CASE q # p
    BY <2>2, <1>3 DEF IInv, AboutToSave, At
  <2> QED
    BY <2>1, <2>2
<1>9. Alone'
  <2> SUFFICES ASSUME ~overlapped', NEW q \in Procs, NEW s \in Procs,
                      command'[q] # Idle, command'[s] # Idle
               PROVE  q = s
    BY DEF Alone
  <2>1. \A z \in Procs \ {p} : command'[z] = Idle
    <3>1. ~ \E z \in Procs \ {p} : command[z] # Idle
      BY <1>1, Zenon
    <3> QED
      BY <1>3, <3>1
  <2> QED
    BY <2>1
<1>10. Snapshot'
  <2> SUFFICES ASSUME ~overlapped', NEW q \in Procs
               PROVE  Current(q)'
    BY DEF Snapshot
  <2>1. CASE q = p
    BY <2>1, <1>1, <1>2, <1>3, <1>a DEF Current, At, Change
  <2>2. CASE q # p
    <3>1. command'[q] = Idle
      BY <2>2, <1>1, <1>3
    <3>2. command'[q].pc = "idle"
      BY <3>1, NothingIsNothing
    <3> QED
      BY <3>1, <3>2 DEF Current, At
  <2> QED
    BY <2>1, <2>2
<1>11. PairWasTested' /\ NoChangeLost' /\ TimerFollowsConfig'
  BY <1>1, <1>4 DEF IInv, PairWasTested, NoChangeLost, TimerFollowsConfig
<1> QED
  BY <1>5, <1>6, <1>7, <1>8, <1>9, <1>10, <1>11 DEF IInv

Moves == {"test", "save token", "save config", "override", "reload", "enable"}

\* What Goto leaves of a command.
LEMMA GotoKeeps ==
  ASSUME TypeOK, NEW p \in Procs, NEW next \in Moves,
         command[p] \in Commands, Goto(p, next)
  PROVE  /\ command' \in [Procs -> Commands \cup {Idle}]
         /\ command'[p] \in Commands /\ command'[p] # Idle
         /\ command'[p].pc = next
         /\ command'[p].kind = command[p].kind
         /\ command'[p].config = command[p].config
         /\ command'[p].token = command[p].token
         /\ command'[p].service = command[p].service
         /\ \A q \in Procs \ {p} : command'[q] = command[q]
<1>1. command' = [command EXCEPT ![p] = [command[p] EXCEPT !.pc = next]]
  BY DEF Goto
<1>2. [command[p] EXCEPT !.pc = next] \in Commands
  BY DEF Commands, Moves
<1>3. /\ command'[p] = [command[p] EXCEPT !.pc = next]
      /\ \A q \in Procs \ {p} : command'[q] = command[q]
  BY <1>1 DEF TypeOK
<1>4. command' \in [Procs -> Commands \cup {Idle}]
  BY <1>1, <1>2 DEF TypeOK
<1> QED
  BY <1>2, <1>3, <1>4, NothingIsNothing DEF Commands

\* What End leaves of the commands.
LEMMA EndKeeps ==
  ASSUME TypeOK, NEW p \in Procs, End(p)
  PROVE  /\ command' \in [Procs -> Commands \cup {Idle}]
         /\ command'[p] = Idle
         /\ command'[p].pc = "idle"
         /\ \A q \in Procs \ {p} : command'[q] = command[q]
BY NothingIsNothing DEF End, TypeOK

\* A command that ends without saving anything disturbs nothing.
LEMMA StopKeeps ==
  ASSUME IInv, NEW p \in Procs, Stop(p)
  PROVE  IInv'
<1>1. /\ command' \in [Procs -> Commands \cup {Idle}]
      /\ command'[p] = Idle
      /\ command'[p].pc = "idle"
      /\ \A q \in Procs \ {p} : command'[q] = command[q]
  BY EndKeeps DEF Stop, IInv
<1>2. UNCHANGED <<config, token, override, loaded, timerOn, commands, tested, intended, overlapped,
                 tokenAhead, timerBehind>>
  BY DEF Stop, files, ghosts
<1>3. TypeOK'
  BY <1>1, <1>2 DEF IInv, TypeOK
<1>a. InStep(p)' /\ Current(p)'
  BY <1>1, IdleIsInStep
<1>4. Program'
  BY <1>1, <1>2, <1>a, ProgramStays DEF IInv
<1>5. AboutToSave'
  BY <1>1, <1>2, OthersStayTested DEF IInv
<1>6. Alone'
  BY <1>1, <1>2 DEF IInv, Alone
<1>7. Snapshot'
  BY <1>1, <1>2, <1>a, SnapshotStays DEF IInv
<1>8. /\ SavedWasTested' /\ TimerFindsSettings' /\ (config = NoConfig <=> intended = NoConfig)'
      /\ PairWasTested' /\ NoChangeLost' /\ TimerFollowsConfig'
  BY <1>2 DEF IInv, SavedWasTested, TimerFindsSettings, PairWasTested, NoChangeLost, TimerFollowsConfig
<1> QED
  BY <1>3, <1>4, <1>5, <1>6, <1>7, <1>8 DEF IInv

-----------------------------------------------------------------------------
(* The steps *)

\* configure begins with its test.
LEMMA BeginConfigureKeeps ==
  ASSUME IInv, NEW p \in Procs, BeginConfigure(p) PROVE IInv'
<1>1. PICK conf \in Configs, tok \in Tokens \cup (IF config = NoConfig THEN {} ELSE {token}) :
        /\ tok # NoToken
        /\ Begin(p, "test", "configure", conf, tok, "none")
  BY DEF BeginConfigure
<1>2. tok \in Tokens
  BY <1>1 DEF IInv, TypeOK
<1>3. [pc |-> "test", kind |-> "configure", config |-> conf, token |-> tok,
       service |-> "none"] \in Commands
  BY <1>2 DEF Commands
<1> QED
  BY <1>1, <1>2, <1>3, BeginKeeps

\* proxy loads the configuration before it reads the token.
LEMMA BeginProxyKeeps ==
  ASSUME IInv, NEW p \in Procs, BeginProxy(p) PROVE IInv'
<1>1. PICK conn \in Conns :
        Begin(p, "token", "proxy", [config EXCEPT !.conn = conn], NoToken, "none")
  BY DEF BeginProxy
<1>2. config # NoConfig /\ config \in Configs
  BY DEF BeginProxy, IInv, TypeOK
<1> DEFINE conf == [config EXCEPT !.conn = conn]
           new == [pc |-> "token", kind |-> "proxy", config |-> conf,
                   token |-> NoToken, service |-> "none"]
<1>3. conf \in Configs /\ conf.conn = conn
  BY <1>2 DEF Configs
<1>4. new \in Commands
  BY <1>3 DEF Commands
<1>5. conf = Change(new, config)
  BY <1>3 DEF Change
<1> QED
  BY <1>1, <1>2, <1>4, <1>5, BeginKeeps

\* services enable and disable go straight to saving what they loaded.
LEMMA BeginServicesKeeps ==
  ASSUME IInv, NEW p \in Procs, BeginServices(p) PROVE IInv'
<1>1. config # NoConfig /\ config \in Configs
  BY DEF BeginServices, IInv, TypeOK
<1>2. ASSUME NEW s \in Services,
             Begin(p, "save config", "enable", [config EXCEPT !.services = @ \cup {s}],
                   NoToken, s)
      PROVE  IInv'
  <2> DEFINE conf == [config EXCEPT !.services = @ \cup {s}]
             new == [pc |-> "save config", kind |-> "enable", config |-> conf,
                     token |-> NoToken, service |-> s]
  <2>1. conf \in Configs /\ conf.conn = config.conn
    BY <1>1 DEF Configs
  <2>2. new \in Commands
    BY <2>1 DEF Commands
  <2>3. conf = Change(new, config)
    BY DEF Change
  <2> QED
    BY <1>1, <1>2, <2>1, <2>2, <2>3, BeginKeeps
<1>3. ASSUME NEW s \in Services,
             Begin(p, "save config", "disable", [config EXCEPT !.services = @ \ {s}],
                   NoToken, s)
      PROVE  IInv'
  <2> DEFINE conf == [config EXCEPT !.services = @ \ {s}]
             new == [pc |-> "save config", kind |-> "disable", config |-> conf,
                     token |-> NoToken, service |-> s]
  <2>1. conf \in Configs /\ conf.conn = config.conn
    BY <1>1 DEF Configs
  <2>2. new \in Commands
    BY <2>1 DEF Commands
  <2>3. conf = Change(new, config)
    BY DEF Change
  <2> QED
    BY <1>1, <1>3, <2>1, <2>2, <2>3, BeginKeeps
<1> QED
  BY <1>2, <1>3 DEF BeginServices

\* timer sync goes straight to the override.
LEMMA BeginTimerSyncKeeps ==
  ASSUME IInv, NEW p \in Procs, BeginTimerSync(p) PROVE IInv'
<1>1. config # NoConfig /\ config \in Configs
  BY DEF BeginTimerSync, IInv, TypeOK
<1>2. [pc |-> "override", kind |-> "timer", config |-> config, token |-> NoToken,
       service |-> "none"] \in Commands
  BY <1>1 DEF Commands
<1> QED
  BY <1>1, <1>2, BeginKeeps DEF BeginTimerSync

\* proxy reads the token it is going to test.
LEMMA ReadTokenKeeps ==
  ASSUME IInv, NEW p \in Procs, ReadToken(p) PROVE IInv'
<1> DEFINE new == [command[p] EXCEPT !.pc = "test", !.token = token]
<1>1. /\ At(p, "token") /\ token # NoToken
      /\ command' = [command EXCEPT ![p] = new]
  BY DEF ReadToken
<1>2. UNCHANGED <<config, token, override, loaded, timerOn, commands, tested, intended, overlapped,
                 tokenAhead, timerBehind>>
  BY DEF ReadToken, files, ghosts
<1>3. command[p] \in Commands /\ command[p] # Idle
  BY <1>1, AtStep DEF IInv
<1>4. /\ new \in Commands /\ new # Idle
      /\ new.pc = "test" /\ new.kind = command[p].kind
      /\ new.config = command[p].config /\ new.token = token
      /\ new.service = command[p].service
  BY <1>3, NothingIsNothing DEF Commands, IInv, TypeOK
<1>5. /\ command'[p] = new
      /\ \A q \in Procs \ {p} : command'[q] = command[q]
  BY <1>1 DEF IInv, TypeOK
<1>6. command' \in [Procs -> Commands \cup {Idle}]
  BY <1>1, <1>4 DEF IInv, TypeOK
<1>7. command[p].kind = "proxy"
  BY <1>1, <1>3 DEF IInv, Program, InStep
<1> HIDE DEF new
<1>8. TypeOK'
  BY <1>2, <1>6 DEF IInv, TypeOK
<1>9. Program'
  <2> SUFFICES ASSUME NEW q \in Procs PROVE InStep(q)'
    BY DEF Program
  <2>1. CASE q = p
    <3>1. config # NoConfig
      BY <1>3, <1>7 DEF IInv, Program, InStep
    <3> QED
      BY <1>1, <1>2, <1>4, <1>5, <1>7, <2>1, <3>1 DEF InStep, At
  <2>2. CASE q # p
    BY <1>2, <1>5, <2>2, UntouchedInStep DEF IInv, Program
  <2> QED
    BY <2>1, <2>2
<1>10. AboutToSave'
  BY <1>2, <1>4, <1>5, OthersStayTested DEF IInv
<1>11. Alone'
  BY <1>2, <1>3, <1>5, AloneStays DEF IInv
<1>12. Snapshot'
  <2> SUFFICES ASSUME ~overlapped', NEW q \in Procs
               PROVE  Current(q)'
    BY DEF Snapshot
  <2>1. Current(q)
    BY <1>2 DEF IInv, Snapshot
  <2>2. CASE q = p
    <3>1. /\ config # NoConfig
          /\ command[p].config = [config EXCEPT !.conn = command[p].config.conn]
      BY <1>3, <1>7, <2>1, <2>2 DEF Current, Change
    <3>2. Change(new, config) = command[p].config
      BY <3>1, <1>4, <1>7 DEF Change
    <3> QED
      BY <1>2, <1>4, <1>5, <1>7, <2>2, <3>1, <3>2 DEF Current, At, Change
  <2>3. CASE q # p
    BY <1>2, <1>5, <2>1, <2>3, UntouchedCurrent
  <2> QED
    BY <2>2, <2>3
<1>13. /\ SavedWasTested' /\ TimerFindsSettings' /\ (config = NoConfig <=> intended = NoConfig)'
       /\ PairWasTested' /\ NoChangeLost' /\ TimerFollowsConfig'
  BY <1>2 DEF IInv, SavedWasTested, TimerFindsSettings, PairWasTested, NoChangeLost, TimerFollowsConfig
<1> QED
  BY <1>8, <1>9, <1>10, <1>11, <1>12, <1>13 DEF IInv

\* A test that succeeds qualifies its pair for being saved.
LEMMA TestKeeps ==
  ASSUME IInv, NEW p \in Procs, Test(p) PROVE IInv'
<1> DEFINE pair == <<command[p].config.conn, command[p].token>>
<1>1. /\ At(p, "test") /\ pair \in Accepted
      /\ tested' = tested \cup {pair} /\ Goto(p, AfterTest(p))
      /\ UNCHANGED <<config, token, override, loaded, timerOn, commands, intended, overlapped,
                     tokenAhead, timerBehind>>
  BY DEF Test, files
<1>2. command[p] \in Commands /\ command[p] # Idle
  BY <1>1, AtStep DEF IInv
<1>3. AfterTest(p) \in Moves
  BY DEF AfterTest, Moves
<1>4. /\ command' \in [Procs -> Commands \cup {Idle}]
      /\ command'[p] \in Commands /\ command'[p] # Idle
      /\ command'[p].pc = AfterTest(p)
      /\ command'[p].kind = command[p].kind
      /\ command'[p].config = command[p].config
      /\ command'[p].token = command[p].token
      /\ command'[p].service = command[p].service
      /\ \A q \in Procs \ {p} : command'[q] = command[q]
  BY <1>1, <1>2, <1>3, GotoKeeps DEF IInv
<1>5. /\ command[p].kind \in {"configure", "proxy"}
      /\ command[p].token # NoToken
  BY <1>1, <1>2 DEF IInv, Program, InStep
<1>6. TypeOK'
  BY <1>1, <1>4, ConfigStoreAssumption DEF IInv, TypeOK
<1>7. Program'
  <2> SUFFICES ASSUME NEW q \in Procs PROVE InStep(q)'
    BY DEF Program
  <2>1. InStep(q)
    BY DEF IInv, Program
  <2>2. CASE q = p
    BY <1>1, <1>2, <1>4, <1>5, <2>1, <2>2 DEF InStep, At, AfterTest
  <2>3. CASE q # p
    BY <1>1, <1>4, <2>1, <2>3, UntouchedInStep
  <2> QED
    BY <2>2, <2>3
<1>8. AboutToSave'
  <2>1. <<command'[p].config.conn, command'[p].token>> \in tested'
    BY <1>1, <1>4
  <2> QED
    BY <1>1, <1>4, <1>5, <2>1, OthersStayTested DEF IInv
<1>9. Alone'
  BY <1>1, <1>2, <1>4, AloneStays DEF IInv
<1>10. Snapshot'
  <2> SUFFICES ASSUME ~overlapped', NEW q \in Procs
               PROVE  Current(q)'
    BY DEF Snapshot
  <2>1. Current(q)
    BY <1>1 DEF IInv, Snapshot
  <2>2. CASE q = p
    BY <1>1, <1>2, <1>4, <1>5, <2>1, <2>2 DEF Current, At, Change, AfterTest
  <2>3. CASE q # p
    BY <1>1, <1>4, <2>1, <2>3, UntouchedCurrent
  <2> QED
    BY <2>2, <2>3
<1>11. /\ SavedWasTested' /\ TimerFindsSettings' /\ (config = NoConfig <=> intended = NoConfig)'
       /\ PairWasTested' /\ NoChangeLost' /\ TimerFollowsConfig'
  BY <1>1 DEF IInv, SavedWasTested, TimerFindsSettings, PairWasTested, NoChangeLost, TimerFollowsConfig
<1> QED
  BY <1>6, <1>7, <1>8, <1>9, <1>10, <1>11 DEF IInv

\* configure saves the token it has tested.
LEMMA SaveTokenKeeps ==
  ASSUME IInv, NEW p \in Procs, SaveToken(p) PROVE IInv'
<1>1. /\ At(p, "save token") /\ token' = command[p].token
      /\ tokenAhead' = (tokenAhead \/ token # command[p].token)
      /\ Goto(p, "save config")
      /\ UNCHANGED <<config, override, loaded, timerOn, commands, tested, intended, overlapped,
                     timerBehind>>
  BY DEF SaveToken
<1>2. command[p] \in Commands /\ command[p] # Idle
  BY <1>1, AtStep DEF IInv
<1>3. /\ command' \in [Procs -> Commands \cup {Idle}]
      /\ command'[p] \in Commands /\ command'[p] # Idle
      /\ command'[p].pc = "save config"
      /\ command'[p].kind = command[p].kind
      /\ command'[p].config = command[p].config
      /\ command'[p].token = command[p].token
      /\ command'[p].service = command[p].service
      /\ \A q \in Procs \ {p} : command'[q] = command[q]
  BY <1>1, <1>2, GotoKeeps DEF IInv, Moves
<1>5. /\ command[p].kind = "configure"
      /\ command[p].token \in Tokens /\ command[p].token # NoToken
      /\ command[p].config.conn \in Conns
      /\ <<command[p].config.conn, command[p].token>> \in tested
  BY <1>1, <1>2 DEF IInv, Program, InStep, AboutToSave, At, Commands, Configs
<1>6. TypeOK'
  BY <1>1, <1>3, <1>5 DEF IInv, TypeOK
<1>7. Program'
  <2>1. InStep(p)'
    BY <1>1, <1>3, <1>5 DEF InStep, At
  <2> QED
    BY <1>1, <1>3, <1>5, <2>1, ProgramStays DEF IInv
<1>8. AboutToSave'
  BY <1>1, <1>3, <1>5, OthersStayTested DEF IInv
<1>9. Alone'
  BY <1>1, <1>2, <1>3, AloneStays DEF IInv
<1>10. Snapshot'
  <2>1. Current(p)'
    BY <1>1, <1>3, <1>5 DEF Current, At, Change
  <2> QED
    BY <1>1, <1>2, <1>3, <2>1, SnapshotOfOne DEF IInv
<1>11. SavedWasTested' /\ TimerFindsSettings' /\ (config = NoConfig <=> intended = NoConfig)'
  BY <1>1, <1>5 DEF IInv, SavedWasTested, TimerFindsSettings
<1>12. PairWasTested'
  BY <1>1 DEF IInv, TypeOK, PairWasTested
<1>13. NoChangeLost' /\ TimerFollowsConfig'
  BY <1>1 DEF IInv, NoChangeLost, TimerFollowsConfig
<1> QED
  BY <1>6, <1>7, <1>8, <1>9, <1>10, <1>11, <1>12, <1>13 DEF IInv

\* The override gets the command's interval.
LEMMA WriteOverrideKeeps ==
  ASSUME IInv, NEW p \in Procs, WriteOverride(p) PROVE IInv'
<1>1. /\ At(p, "override") /\ override' = command[p].config.interval
      /\ Goto(p, "reload")
      /\ UNCHANGED <<config, token, loaded, timerOn, commands, tested, intended, overlapped,
                     tokenAhead, timerBehind>>
  BY DEF WriteOverride, ghosts
<1>2. command[p] \in Commands /\ command[p] # Idle
  BY <1>1, AtStep DEF IInv
<1>3. /\ command' \in [Procs -> Commands \cup {Idle}]
      /\ command'[p] \in Commands /\ command'[p] # Idle
      /\ command'[p].pc = "reload"
      /\ command'[p].kind = command[p].kind
      /\ command'[p].config = command[p].config
      /\ command'[p].token = command[p].token
      /\ command'[p].service = command[p].service
      /\ \A q \in Procs \ {p} : command'[q] = command[q]
  BY <1>1, <1>2, GotoKeeps DEF IInv, Moves
<1>5. /\ command[p].kind \in {"configure", "timer"}
      /\ command[p].config.interval \in Intervals
  BY <1>1, <1>2 DEF IInv, Program, InStep, Commands, Configs
<1>6. TypeOK'
  BY <1>1, <1>3, <1>5 DEF IInv, TypeOK
<1>7. Program'
  <2> SUFFICES ASSUME NEW q \in Procs PROVE InStep(q)'
    BY DEF Program
  <2>1. InStep(q)
    BY DEF IInv, Program
  <2>2. CASE q = p
    BY <1>1, <1>2, <1>3, <1>5, <2>1, <2>2 DEF InStep, At
  <2>3. CASE q # p
    BY <1>1, <1>3, <2>1, <2>3, UntouchedInStep
  <2> QED
    BY <2>2, <2>3
<1>8. AboutToSave'
  BY <1>1, <1>3, OthersStayTested DEF IInv
<1>9. Alone'
  BY <1>1, <1>2, <1>3, AloneStays DEF IInv
<1>10. Snapshot'
  <2>1. ASSUME ~overlapped PROVE Current(p)'
    <3>1. Current(p)
      BY <2>1 DEF IInv, Snapshot
    <3> QED
      BY <1>1, <1>3, <1>5, <3>1 DEF Current, At, Change
  <2> QED
    BY <1>1, <1>2, <1>3, <2>1, SnapshotOfOne DEF IInv
<1>11. /\ SavedWasTested' /\ TimerFindsSettings' /\ (config = NoConfig <=> intended = NoConfig)'
       /\ PairWasTested' /\ NoChangeLost' /\ TimerFollowsConfig'
  BY <1>1 DEF IInv, SavedWasTested, TimerFindsSettings, PairWasTested, NoChangeLost, TimerFollowsConfig
<1> QED
  BY <1>6, <1>7, <1>8, <1>9, <1>10, <1>11 DEF IInv

\* systemd loads the override.
LEMMA ReloadKeeps ==
  ASSUME IInv, NEW p \in Procs, Reload(p) PROVE IInv'
<1>1. /\ At(p, "reload") /\ loaded' = override /\ timerBehind' = FALSE
      /\ UNCHANGED <<config, token, override, timerOn, commands, tested, intended, overlapped,
                     tokenAhead>>
  BY DEF Reload
<1>2. command[p] \in Commands /\ command[p] # Idle
  BY <1>1, AtStep DEF IInv
<1>3. /\ command' \in [Procs -> Commands \cup {Idle}]
      /\ \A q \in Procs \ {p} : command'[q] = command[q]
      /\ \/ /\ command[p].kind = "configure"
            /\ command'[p].pc = "enable" /\ command'[p].kind = "configure"
         \/ command'[p] = Idle /\ command'[p].pc = "idle"
  BY <1>2, GotoKeeps, EndKeeps DEF Reload, IInv, Moves
<1>5. TypeOK'
  BY <1>1, <1>3 DEF IInv, TypeOK
<1>6. Program'
  <2>1. CASE command'[p] = Idle
    <3>1. InStep(p)'
      BY <2>1, IdleIsInStep
    <3> QED
      BY <1>1, <1>3, <3>1, ProgramStays DEF IInv
  <2>2. CASE command[p].kind = "configure" /\ command'[p].pc = "enable"
             /\ command'[p].kind = "configure"
    <3>1. config # NoConfig /\ token # NoToken
      BY <1>1, <1>2, <2>2 DEF IInv, Program, InStep, At
    <3>2. InStep(p)'
      BY <1>1, <2>2, <3>1 DEF InStep, At
    <3> QED
      BY <1>1, <1>3, <3>2, ProgramStays DEF IInv
  <2> QED
    BY <1>3, <2>1, <2>2
<1>7. AboutToSave'
  <2>1. command'[p].pc \notin {"save token", "save config"}
    BY <1>3
  <2> QED
    BY <1>1, <1>3, <2>1, OthersStayTested DEF IInv
<1>8. Alone'
  BY <1>1, <1>2, <1>3, AloneStays DEF IInv
<1>9. Snapshot'
  <2>1. Current(p)'
    BY <1>3 DEF Current, At
  <2> QED
    BY <1>1, <1>2, <1>3, <2>1, SnapshotOfOne DEF IInv
<1>10. /\ SavedWasTested' /\ TimerFindsSettings' /\ (config = NoConfig <=> intended = NoConfig)'
       /\ PairWasTested' /\ NoChangeLost'
  BY <1>1 DEF IInv, SavedWasTested, TimerFindsSettings, PairWasTested, NoChangeLost
<1>11. TimerFollowsConfig'
  BY <1>1 DEF IInv, Snapshot, Current, TimerFollowsConfig
<1> QED
  BY <1>5, <1>6, <1>7, <1>8, <1>9, <1>10, <1>11 DEF IInv

\* The timer is enabled only where configure has saved everything it needs.
LEMMA SetTimerKeeps ==
  ASSUME IInv, NEW p \in Procs, SetTimer(p) PROVE IInv'
<1>1. /\ At(p, "enable") /\ timerOn' \in BOOLEAN
      /\ UNCHANGED <<config, token, override, loaded, commands, tested, intended,
                     overlapped, tokenAhead, timerBehind>>
  BY DEF SetTimer, files, ghosts, IInv, TypeOK
<1>2. command[p] \in Commands /\ command[p] # Idle
  BY <1>1, AtStep DEF IInv
<1>3. /\ command' \in [Procs -> Commands \cup {Idle}]
      /\ command'[p] = Idle
      /\ command'[p].pc = "idle"
      /\ \A q \in Procs \ {p} : command'[q] = command[q]
  BY EndKeeps DEF SetTimer, IInv
<1>4. TypeOK'
  BY <1>1, <1>3 DEF IInv, TypeOK
<1>a. InStep(p)' /\ Current(p)'
  BY <1>3, IdleIsInStep
<1>5. Program'
  BY <1>1, <1>3, <1>a, ProgramStays DEF IInv
<1>6. AboutToSave'
  BY <1>1, <1>3, OthersStayTested DEF IInv
<1>7. Alone'
  BY <1>1, <1>2, <1>3, AloneStays DEF IInv
<1>8. Snapshot'
  BY <1>1, <1>3, <1>a, SnapshotStays DEF IInv
<1>9. config # NoConfig /\ token # NoToken
  <2>1. command[p].kind = "configure" /\ command[p].pc = "enable"
    BY <1>1, <1>2 DEF IInv, Program, InStep, At
  <2> QED
    BY <2>1, <1>1, <1>2 DEF IInv, Program, InStep
<1>10. /\ SavedWasTested' /\ TimerFindsSettings' /\ (config = NoConfig <=> intended = NoConfig)'
       /\ PairWasTested' /\ NoChangeLost' /\ TimerFollowsConfig'
  BY <1>1, <1>9 DEF IInv, SavedWasTested, TimerFindsSettings, PairWasTested,
                    NoChangeLost, TimerFollowsConfig
<1> QED
  BY <1>4, <1>5, <1>6, <1>7, <1>8, <1>10 DEF IInv

\* What a command changes of a configuration is a configuration.
LEMMA ChangeIsConfig ==
  ASSUME NEW c \in Commands, NEW conf, c.kind # "timer",
         c.kind # "configure" => conf \in Configs,
         c.kind \in {"enable", "disable"} => c.service \in Services
  PROVE  Change(c, conf) \in Configs
<1>1. c.kind \in {"configure", "proxy", "enable", "disable"} /\ c.config \in Configs
  BY DEF Commands
<1>2. CASE c.kind = "configure"
  BY <1>1, <1>2 DEF Change
<1>3. CASE c.kind = "proxy"
  BY <1>1, <1>3 DEF Change, Configs
<1>4. CASE c.kind = "enable"
  BY <1>1, <1>4 DEF Change, Configs
<1>5. CASE c.kind = "disable"
  BY <1>1, <1>5 DEF Change, Configs
<1> QED
  BY <1>1, <1>2, <1>3, <1>4, <1>5

\* What it leaves alone.
LEMMA ChangeKeeps ==
  ASSUME NEW c, NEW conf \in Configs
  PROVE  /\ c.kind = "proxy" => Change(c, conf).interval = conf.interval
         /\ c.kind \in {"enable", "disable"} =>
              /\ Change(c, conf).interval = conf.interval
              /\ Change(c, conf).conn = conf.conn
BY DEF Change, Configs

\* A command replaces the whole configuration by what it loaded and changed.
LEMMA SaveConfigKeeps ==
  ASSUME IInv, NEW p \in Procs, SaveConfig(p) PROVE IInv'
<1> DEFINE c == command[p]
<1>1. /\ At(p, "save config") /\ config' = c.config
      /\ intended' = Change(c, intended)
      /\ tokenAhead' = (tokenAhead /\ c.kind \notin {"configure", "proxy"})
      /\ UNCHANGED <<token, override, loaded, timerOn, commands, tested, overlapped>>
  BY DEF SaveConfig
<1>2. /\ c.kind = "configure" =>
           /\ Goto(p, "override")
           /\ timerBehind' = (timerBehind \/ loaded # c.config.interval)
      /\ c.kind # "configure" => End(p) /\ UNCHANGED timerBehind
  BY DEF SaveConfig
<1>3. c \in Commands /\ c # Idle /\ c.config \in Configs
  BY <1>1, AtStep DEF IInv, Commands
<1>4. /\ c.kind \in {"configure", "proxy", "enable", "disable"}
      /\ c.kind # "configure" => config \in Configs /\ intended \in Configs
      /\ c.kind = "configure" => token # NoToken
      /\ c.kind \in {"enable", "disable"} => c.service \in Services
  <2>1. InStep(p) /\ TypeOK /\ (config = NoConfig <=> intended = NoConfig)
    BY DEF IInv, Program
  <2> QED
    BY <1>1, <1>3, <2>1 DEF InStep, At, TypeOK, Commands
<1>5. /\ command' \in [Procs -> Commands \cup {Idle}]
      /\ \A q \in Procs \ {p} : command'[q] = command[q]
      /\ \/ /\ c.kind = "configure"
            /\ command'[p].pc = "override" /\ command'[p].kind = "configure"
            /\ command'[p].config = c.config
         \/ c.kind # "configure" /\ command'[p] = Idle /\ command'[p].pc = "idle"
  BY <1>2, <1>3, GotoKeeps, EndKeeps DEF IInv, Moves
<1>7. IF c.kind \in {"configure", "proxy"}
      THEN <<c.config.conn, c.token>> \in tested /\ c.token \in Tokens
      ELSE \E t \in Tokens : <<c.config.conn, t>> \in tested
  BY <1>1 DEF IInv, AboutToSave, TypeOK
<1>8. ~overlapped =>
        /\ c.kind # "configure" => c.config = Change(c, config)
        /\ c.kind \in {"configure", "proxy"} => token = c.token
  BY <1>1, <1>3, <1>4 DEF IInv, Snapshot, Current
<1>9. config' \in Configs /\ intended' \in Configs
  BY <1>1, <1>3, <1>4, ChangeIsConfig
<1>10. config' # NoConfig /\ intended' # NoConfig
  BY <1>9, NothingIsNothing
<1> HIDE DEF c
<1>11. TypeOK'
  <2>1. tokenAhead' \in BOOLEAN
    BY <1>1, Zenon
  <2>2. timerBehind' \in BOOLEAN
    BY <1>2, Zenon DEF IInv, TypeOK
  <2> QED
    BY <2>1, <2>2, <1>1, <1>5, <1>9 DEF IInv, TypeOK
<1>a. InStep(p)' /\ Current(p)'
  <2>1. CASE command'[p] = Idle
    BY <2>1, IdleIsInStep
  <2>2. CASE c.kind = "configure" /\ command'[p].pc = "override"
             /\ command'[p].kind = "configure" /\ command'[p].config = c.config
    <3>1. InStep(p)'
      BY <1>1, <1>4, <1>10, <2>2 DEF InStep, At
    <3>2. Current(p)'
      BY <1>1, <1>10, <2>2 DEF Current, At
    <3> QED
      BY <3>1, <3>2
  <2> QED
    BY <1>5, <2>1, <2>2
<1>12. Program'
  BY <1>1, <1>5, <1>10, <1>a, ProgramStays DEF IInv
<1>13. AboutToSave'
  <2>1. command'[p].pc \notin {"save token", "save config"}
    BY <1>5
  <2> QED
    BY <1>1, <1>5, <2>1, OthersStayTested DEF IInv
<1>14. Alone'
  BY <1>1, <1>3, <1>5, AloneStays DEF IInv, c
<1>15. Snapshot'
  BY <1>1, <1>3, <1>5, <1>a, SnapshotOfOne DEF IInv, c
<1>16. SavedWasTested' /\ TimerFindsSettings' /\ (config = NoConfig <=> intended = NoConfig)'
  BY <1>1, <1>7, <1>10 DEF IInv, SavedWasTested, TimerFindsSettings
<1>17. PairWasTested'
  <2> SUFFICES ASSUME ~overlapped, ~tokenAhead'
               PROVE  <<c.config.conn, token>> \in tested
    BY <1>1 DEF PairWasTested
  <2>1. CASE c.kind \in {"configure", "proxy"}
    BY <2>1, <1>7, <1>8
  <2>2. CASE c.kind \in {"enable", "disable"}
    <3>1. config \in Configs /\ c.config = Change(c, config)
      BY <2>2, <1>4, <1>8
    <3>2. c.config.conn = config.conn
      BY ONLY <2>2, <3>1, ChangeKeeps
    <3>3. ~tokenAhead
      <4>1. c.kind \notin {"configure", "proxy"}
        BY ONLY <2>2
      <4> QED
        BY <1>1, <4>1, Zenon
    <3>4. config # NoConfig
      BY ONLY <3>1, NothingIsNothing
    <3> QED
      BY <3>2, <3>3, <3>4 DEF IInv, PairWasTested
  <2> QED
    BY <2>1, <2>2, <1>4
<1>18. NoChangeLost'
  BY <1>1, <1>4, <1>8 DEF IInv, NoChangeLost, Change
<1>19. TimerFollowsConfig'
  <2>1. CASE c.kind = "configure"
    BY <2>1, <1>1, <1>2 DEF TimerFollowsConfig
  <2>2. CASE c.kind # "configure"
    <3>1. ~overlapped => c.config.interval = config.interval /\ config # NoConfig
      BY <2>2, <1>4, <1>8, ChangeKeeps, NothingIsNothing
    <3>2. UNCHANGED <<loaded, overlapped, timerBehind>> /\ config' = c.config
      BY <2>2, <1>1, <1>2
    <3> QED
      BY <3>1, <3>2 DEF IInv, TimerFollowsConfig
  <2> QED
    BY <2>1, <2>2
<1> QED
  BY <1>11, <1>12, <1>13, <1>14, <1>15, <1>16, <1>17, <1>18, <1>19 DEF IInv

\* A manual edit finds no command running.
LEMMA EditIntervalKeeps == IInv /\ EditInterval => IInv'
<1> SUFFICES ASSUME IInv, EditInterval PROVE IInv'
  OBVIOUS
<1>1. PICK i \in Intervals :
        /\ config' = [config EXCEPT !.interval = i]
        /\ intended' = [intended EXCEPT !.interval = i]
  BY DEF EditInterval
<1>2. /\ config # NoConfig /\ timerBehind' = TRUE /\ commands' = commands + 1
      /\ \A p \in Procs : command[p] = Idle
      /\ UNCHANGED <<token, override, loaded, timerOn, command, tested, overlapped, tokenAhead>>
  BY DEF EditInterval
<1>3. config \in Configs /\ intended \in Configs
  BY <1>2 DEF IInv, TypeOK
<1>4. config' \in Configs /\ intended' \in Configs /\ config'.conn = config.conn
  BY <1>1, <1>3 DEF Configs
<1>5. TypeOK'
  <2>1. commands' \in Nat
    BY <1>2, Successor, Zenon DEF IInv, TypeOK
  <2> QED
    BY <2>1, <1>2, <1>4 DEF IInv, TypeOK
<1>6. \A p \in Procs : command'[p] = Idle /\ command'[p].pc = "idle"
  BY <1>2, NothingIsNothing
<1>7. Program' /\ AboutToSave' /\ Alone' /\ Snapshot'
  BY <1>6 DEF Program, InStep, AboutToSave, Alone, Snapshot, Current, At
<1>8. config' # NoConfig /\ intended' # NoConfig
  BY <1>4, NothingIsNothing
<1>9. SavedWasTested' /\ TimerFindsSettings' /\ (config = NoConfig <=> intended = NoConfig)' /\ PairWasTested'
  BY <1>2, <1>4, <1>8 DEF IInv, SavedWasTested, TimerFindsSettings, PairWasTested
<1>10. NoChangeLost' /\ TimerFollowsConfig'
  BY <1>1, <1>2 DEF IInv, NoChangeLost, TimerFollowsConfig
<1> QED
  BY <1>5, <1>7, <1>8, <1>9, <1>10 DEF IInv

-----------------------------------------------------------------------------
(* The theorems *)

\* Every step keeps the invariant.
THEOREM Invariance == Spec => []IInv
<1>1. IInv /\ [Next]_vars => IInv'
  <2> SUFFICES ASSUME IInv, [Next]_vars PROVE IInv'
    OBVIOUS
  <2>1. ASSUME NEW p \in Procs, Step(p) PROVE IInv'
    BY <2>1, BeginConfigureKeeps, BeginProxyKeeps, BeginServicesKeeps,
       BeginTimerSyncKeeps, ReadTokenKeeps, TestKeeps, SaveTokenKeeps,
       SaveConfigKeeps, WriteOverrideKeeps, ReloadKeeps, SetTimerKeeps, StopKeeps DEF Step
  <2>2. CASE EditInterval
    BY <2>2, EditIntervalKeeps
  <2>3. CASE UNCHANGED vars
    <3>1. /\ UNCHANGED <<config, token, override, loaded, timerOn, command, commands>>
          /\ UNCHANGED <<tested, intended, overlapped, tokenAhead, timerBehind>>
      BY <2>3 DEF vars, files, ghosts
    <3>2. TypeOK' /\ Alone'
      BY <3>1 DEF IInv, TypeOK, Alone
    <3>3. Program' /\ AboutToSave'
      BY <3>1 DEF IInv, Program, InStep, At, AboutToSave
    <3>4. Snapshot'
      BY <3>1 DEF IInv, Snapshot, Current, At, Change
    <3>5. SavedWasTested' /\ TimerFindsSettings' /\ (config = NoConfig <=> intended = NoConfig)'
      BY <3>1 DEF IInv, SavedWasTested, TimerFindsSettings
    <3>6. PairWasTested' /\ NoChangeLost' /\ TimerFollowsConfig'
      BY <3>1 DEF IInv, PairWasTested, NoChangeLost, TimerFollowsConfig
    <3> QED
      BY <3>2, <3>3, <3>4, <3>5, <3>6 DEF IInv
  <2> QED
    BY <2>1, <2>2, <2>3 DEF Next
<1> QED
  BY InitialState, <1>1, PTL DEF Spec

\* Whatever overlaps and wherever it ends, what is saved was tested (cli.go lines
\* 222 and 342).
THEOREM SavedConnectionsWereTested == Spec => []SavedWasTested
<1>1. IInv => SavedWasTested
  BY DEF IInv
<1> QED
  BY Invariance, <1>1, PTL

\* Whatever overlaps and wherever it ends, an enabled timer finds a configuration and a
\* token (cli.go lines 233 to 245).
THEOREM EnabledTimersFindSettings == Spec => []TimerFindsSettings
<1>1. IInv => TimerFindsSettings
  BY DEF IInv
<1> QED
  BY Invariance, <1>1, PTL

\* Without overlaps, the connection and the token were tested together (cli.go lines
\* 233 and 236).
THEOREM SavedPairsWereTested == Spec => []PairWasTested
<1>1. IInv => PairWasTested
  BY DEF IInv
<1> QED
  BY Invariance, <1>1, PTL

\* Without overlaps, no command undoes another's change (cli.go lines 345, 420, 440).
THEOREM ChangesAreKept == Spec => []NoChangeLost
<1>1. IInv => NoChangeLost
  BY DEF IInv
<1> QED
  BY Invariance, <1>1, PTL

\* Without overlaps, the timer has the configured interval (systemd.go line 52).
THEOREM TimerIsConfigured == Spec => []TimerFollowsConfig
<1>1. IInv => TimerFollowsConfig
  BY DEF IInv
<1> QED
  BY Invariance, <1>1, PTL
================================================================================
