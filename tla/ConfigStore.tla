------------------------------ MODULE ConfigStore ------------------------------
(***************************************************************************)
(* The settings of the agent: config.toml, the token file and the timer's  *)
(* override, and the commands that replace them: configure, proxy          *)
(* enable|disable, services enable|disable and timer sync (internal/cli).  *)
(* A command works on the configuration it loaded at its start and holds   *)
(* no lock; several may run at once.                                       *)
(*                                                                         *)
(* Abstractions.                                                           *)
(*   - A connection is the server's URL with the proxy it is reached by.   *)
(*   - The answers to all of a command's questions are given at once.      *)
(*     They pass Validate; a command that is refused or cancelled before   *)
(*     it saves anything is a Stop.                                        *)
(*   - The initial baseline at the end of configure leaves these files     *)
(*     alone and is left out.                                              *)
(*   - External: which token a server accepts over which connection.       *)
(***************************************************************************)
EXTENDS Naturals

CONSTANTS
  Procs,       \* the processes that run commands
  Conns,       \* the connections
  Tokens,      \* the tokens
  Accepted,    \* the pairs of both with which a message is delivered
  Intervals,   \* the check intervals
  Services,    \* the services that can be checked
  MaxCommands  \* bound on the commands and manual edits

NoConfig == [conn |-> "none"]
NoToken == "none"
NoInterval == "none"

ASSUME ConfigStoreAssumption ==
  /\ NoConfig.conn \notin Conns /\ NoToken \notin Tokens /\ NoInterval \notin Intervals
  /\ Accepted \subseteq Conns \X Tokens
  /\ MaxCommands \in Nat

VARIABLES
  config,      \* config.toml
  token,       \* the token file
  override,    \* the interval in the timer's override file
  loaded,      \* the interval systemd has loaded
  timerOn,     \* the timer is enabled
  command,     \* what each process is doing
  commands,    \* the commands so far
  tested,      \* ghost: the pairs with which a test message was delivered
  intended,    \* ghost: the configuration if no change were lost
  overlapped,  \* ghost: two commands have run at once
  tokenAhead,  \* ghost: a new token is saved, its configuration is not
  timerBehind  \* ghost: a new interval is saved, systemd has not loaded it

files == <<config, token, override, loaded>>
ghosts == <<tested, intended, overlapped, tokenAhead, timerBehind>>
vars == <<files, timerOn, command, commands, ghosts>>

Configs == [conn : Conns, interval : Intervals, services : SUBSET Services]
Idle == [pc |-> "idle"]
Commands ==
  [pc : {"token", "test", "save token", "save config", "override", "reload", "enable"},
   kind : {"configure", "proxy", "enable", "disable", "timer"},
   config : Configs,
   token : Tokens \cup {NoToken},
   service : Services \cup {"none"}]

Init ==
  /\ config = NoConfig
  /\ token = NoToken
  /\ override = NoInterval
  /\ loaded = NoInterval
  /\ timerOn = FALSE
  /\ command = [p \in Procs |-> Idle]
  /\ commands = 0
  /\ tested = {}
  /\ intended = NoConfig
  /\ overlapped = FALSE
  /\ tokenAhead = FALSE
  /\ timerBehind = FALSE

Begin(p, pc, kind, conf, tok, service) ==
  /\ command[p] = Idle /\ commands < MaxCommands
  /\ commands' = commands + 1
  /\ command' = [command EXCEPT ![p] =
                   [pc |-> pc, kind |-> kind, config |-> conf, token |-> tok,
                    service |-> service]]
  /\ overlapped' = (overlapped \/ \E q \in Procs \ {p} : command[q] # Idle)
  /\ UNCHANGED <<files, timerOn, tested, intended, tokenAhead, timerBehind>>

At(p, pc) == command[p].pc = pc
Goto(p, pc) == command' = [command EXCEPT ![p].pc = pc]
End(p) == command' = [command EXCEPT ![p] = Idle]

-----------------------------------------------------------------------------
(* The start of each command *)

\* configure asks for everything; a token may be left as it is, if there is a
\* configuration that names its file.
BeginConfigure(p) ==
  \E conf \in Configs, tok \in Tokens \cup (IF config = NoConfig THEN {} ELSE {token}) :
    /\ tok # NoToken
    /\ Begin(p, "test", "configure", conf, tok, "none")

BeginProxy(p) ==
  /\ config # NoConfig
  /\ \E conn \in Conns :
       Begin(p, "token", "proxy", [config EXCEPT !.conn = conn], NoToken, "none")

\* Mutant of BeginServices: the other services are forgotten.
BeginOnlyService(p) ==
  /\ config # NoConfig
  /\ \E s \in Services :
       Begin(p, "save config", "enable", [config EXCEPT !.services = {s}], NoToken, s)

BeginServices(p) ==
  /\ config # NoConfig
  /\ \E s \in Services :
       \/ Begin(p, "save config", "enable", [config EXCEPT !.services = @ \cup {s}],
                NoToken, s)
       \/ /\ s \in config.services
          /\ Begin(p, "save config", "disable", [config EXCEPT !.services = @ \ {s}],
                   NoToken, s)

BeginTimerSync(p) ==
  /\ config # NoConfig
  /\ Begin(p, "override", "timer", config, NoToken, "none")

-----------------------------------------------------------------------------
(* Their steps *)

ReadToken(p) ==
  /\ At(p, "token") /\ token # NoToken
  /\ command' = [command EXCEPT ![p].pc = "test", ![p].token = token]
  /\ UNCHANGED <<files, timerOn, commands, ghosts>>

\* Mutant of AfterTest: configure forgets the token.
AfterTestConfig(p) == "save config"

AfterTest(p) == IF command[p].kind = "configure" THEN "save token" ELSE "save config"

\* Mutant of Test: the command goes on after a failed test.
TestIgnored(p) ==
  /\ At(p, "test")
  /\ LET pair == <<command[p].config.conn, command[p].token>>
     IN tested' = IF pair \in Accepted THEN tested \cup {pair} ELSE tested
  /\ Goto(p, AfterTest(p))
  /\ UNCHANGED <<files, timerOn, commands, intended, overlapped, tokenAhead, timerBehind>>

\* SendTestWithValues; a test that fails is a Stop.
Test(p) ==
  /\ At(p, "test")
  /\ LET pair == <<command[p].config.conn, command[p].token>>
     IN pair \in Accepted /\ tested' = tested \cup {pair}
  /\ Goto(p, AfterTest(p))
  /\ UNCHANGED <<files, timerOn, commands, intended, overlapped, tokenAhead, timerBehind>>

\* Mutant of SaveToken: a token that exists is kept.
SaveFirstToken(p) ==
  /\ At(p, "save token")
  /\ token' = IF token = NoToken THEN command[p].token ELSE token
  /\ tokenAhead' = TRUE
  /\ Goto(p, "save config")
  /\ UNCHANGED <<config, override, loaded, timerOn, commands, tested, intended, overlapped,
                 timerBehind>>

SaveToken(p) ==
  /\ At(p, "save token")
  /\ token' = command[p].token
  /\ tokenAhead' = (tokenAhead \/ token # command[p].token)
  /\ Goto(p, "save config")
  /\ UNCHANGED <<config, override, loaded, timerOn, commands, tested, intended, overlapped,
                 timerBehind>>

\* What a command is meant to change of a configuration.
Change(c, conf) ==
  CASE c.kind = "configure" -> c.config
    [] c.kind = "proxy" -> [conf EXCEPT !.conn = c.config.conn]
    [] c.kind = "enable" -> [conf EXCEPT !.services = @ \cup {c.service}]
    [] c.kind = "disable" -> [conf EXCEPT !.services = @ \ {c.service}]

\* WriteConfig replaces the whole file; configure goes on with the timer.
SaveConfig(p) ==
  /\ At(p, "save config")
  /\ config' = command[p].config
  /\ intended' = Change(command[p], intended)
  /\ tokenAhead' = (tokenAhead /\ command[p].kind \notin {"configure", "proxy"})
  /\ IF command[p].kind = "configure"
     THEN /\ Goto(p, "override")
          /\ timerBehind' = (timerBehind \/ loaded # command[p].config.interval)
     ELSE End(p) /\ UNCHANGED timerBehind
  /\ UNCHANGED <<token, override, loaded, timerOn, commands, tested, overlapped>>

\* WriteTimerOverride: the file, then daemon-reload.
WriteOverride(p) ==
  /\ At(p, "override")
  /\ override' = command[p].config.interval
  /\ Goto(p, "reload")
  /\ UNCHANGED <<config, token, loaded, timerOn, commands, ghosts>>

\* Mutant of Reload: systemd is not told.
ReloadNothing(p) ==
  /\ At(p, "reload")
  /\ timerBehind' = FALSE
  /\ End(p)
  /\ UNCHANGED <<files, timerOn, commands, tested, intended, overlapped, tokenAhead>>

Reload(p) ==
  /\ At(p, "reload")
  /\ loaded' = override
  /\ timerBehind' = FALSE
  /\ IF command[p].kind = "configure" THEN Goto(p, "enable") ELSE End(p)
  /\ UNCHANGED <<config, token, override, timerOn, commands, tested, intended, overlapped,
                 tokenAhead>>

\* configure ends with enabling the timer or, with failures ignored, disabling it.
SetTimer(p) ==
  /\ At(p, "enable")
  /\ \/ timerOn' = TRUE
     \/ timerOn' \in {timerOn, FALSE}
  /\ End(p)
  /\ UNCHANGED <<files, commands, ghosts>>

\* A step fails, the operator cancels, or the process is killed: the command
\* ends and what it has saved remains.
Stop(p) ==
  /\ command[p] # Idle
  /\ End(p)
  /\ UNCHANGED <<files, timerOn, commands, ghosts>>

\* External: the operator edits the interval, with no command running.
EditInterval ==
  /\ config # NoConfig /\ commands < MaxCommands
  /\ \A p \in Procs : command[p] = Idle
  /\ \E i \in Intervals \ {config.interval} :
       /\ config' = [config EXCEPT !.interval = i]
       /\ intended' = [intended EXCEPT !.interval = i]
  /\ commands' = commands + 1
  /\ timerBehind' = TRUE
  /\ UNCHANGED <<token, override, loaded, timerOn, command, tested, overlapped, tokenAhead>>

Step(p) ==
  \/ BeginConfigure(p)
  \/ BeginProxy(p)
  \/ BeginServices(p)
  \/ BeginTimerSync(p)
  \/ ReadToken(p)
  \/ Test(p)
  \/ SaveToken(p)
  \/ SaveConfig(p)
  \/ WriteOverride(p)
  \/ Reload(p)
  \/ SetTimer(p)
  \/ Stop(p)

Next == (\E p \in Procs : Step(p)) \/ EditInterval

Spec == Init /\ [][Next]_vars

-----------------------------------------------------------------------------
(* Properties *)

TypeOK ==
  /\ config \in Configs \cup {NoConfig}
  /\ token \in Tokens \cup {NoToken}
  /\ override \in Intervals \cup {NoInterval}
  /\ loaded \in Intervals \cup {NoInterval}
  /\ timerOn \in BOOLEAN
  /\ command \in [Procs -> Commands \cup {Idle}]
  /\ commands \in Nat
  /\ tested \subseteq Conns \X Tokens
  /\ intended \in Configs \cup {NoConfig}
  /\ overlapped \in BOOLEAN
  /\ tokenAhead \in BOOLEAN
  /\ timerBehind \in BOOLEAN

\* cli.go lines 222 and 342: whatever commands overlap and wherever they end, the
\* connection and the token that are saved have each delivered a test message.
SavedWasTested ==
  /\ config # NoConfig => \E t \in Tokens : <<config.conn, t>> \in tested
  /\ token # NoToken => \E c \in Conns : <<c, token>> \in tested

\* cli.go lines 233 to 245: an enabled timer finds a configuration and a token, whatever
\* commands overlap and wherever they end.
TimerFindsSettings == timerOn => config # NoConfig /\ token # NoToken

\* Commands run one at a time leave a connection and a token that were tested
\* together, unless a configure ended between saving the two (cli.go lines 233 and
\* 236); the next configure or proxy command that succeeds repairs that.
PairWasTested ==
  ~overlapped /\ ~tokenAhead /\ config # NoConfig =>
    <<config.conn, token>> \in tested

\* Commands run one at a time keep each other's changes, although each writes the
\* whole configuration.
NoChangeLost == ~overlapped => config = intended

\* Commands run one at a time leave the timer at the configured interval, unless
\* one ended before it told systemd or the file was edited; timer sync repairs that
\* (README.md line 93).
TimerFollowsConfig ==
  ~overlapped /\ ~timerBehind /\ config # NoConfig => loaded = config.interval
================================================================================
