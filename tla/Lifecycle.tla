----------------------------- MODULE Lifecycle ------------------------------
(***************************************************************************)
(* One life of the program after the other on one machine: main of         *)
(* src/src/main.rs is started by a supervisor with the same command line,  *)
(* fetches and reads its config (fetch_config_limited of src/src/config.rs),*)
(* fixes its settings, binds, syncs the hosts file and reloads, until it   *)
(* dies anywhere.  What outlives it are the config source and the managed  *)
(* blocks of the hosts files.                                              *)
(*                                                                         *)
(* Reload has the reload loop in full, HostsFile a sync; here they are the *)
(* few steps between which a death or an edit makes a difference.          *)
(***************************************************************************)
EXTENDS Settings

CONSTANTS
    Kinds,        \* of sources: "watched" file, "polled" file, "url"
    Clis,         \* command lines: [listen, hosts, noHosts, noHttp, refresh]
    Documents,    \* texts of the source: [size, utf8, yaml]
    Mixed,        \* more texts a read can find while a file is written over
    MaxBytes,     \* MAX_CONFIG_BYTES
    Path,         \* hosts files
    ConfigHost,   \* the host of the config URL
    Urls,         \* the proxy URLs ProxyConfig::parse accepts
    Sites,        \* the keys of rules is_valid_hostname accepts
    Lower         \* to_ascii_lowercase of a key

ASSUME KindsAssumption == Kinds \subseteq {"watched", "polled", "url"}
ASSUME MaxBytesAssumption == MaxBytes \in Nat

Text == Documents \cup Mixed
ASSUME DocumentsAssumption == \A d \in Text : d.size \in Nat /\ d.utf8 \in BOOLEAN
ASSUME ClisAssumption ==
    \A c \in Clis : IsOption(c.listen, Addr) /\ IsOption(c.hosts, Path) /\ IsOption(c.refresh, Nat)

VARIABLES
    kind,      \* the kind of the source
    cli,       \* the command line
    document,  \* what the source holds
    pc,        \* where the process stands, or "down"
    opened,    \* the text that is being fetched or installed, or NoText
    buf,       \* how many bytes of it have been read
    settings,  \* StaticSettings
    table,     \* the config whose Runtime is published
    lastYaml,  \* last_yaml
    bound,     \* the listeners: <<address, port>>
    blocks,    \* the managed block of each hosts file
    synced,    \* history: the last sync of this life succeeded
    due,       \* an event of the config file waits
    lost,      \* history: a change of the source left no trace but in the source
    calm       \* history: nothing fails or is edited any more

machine == <<kind, cli>>
configs == <<settings, table, lastYaml>>
watch == <<due, lost>>
vars == <<machine, document, pc, opened, buf, configs, bound, blocks, synced, watch, calm>>

NoBlock == [ip |-> "none", names |-> {}]
NoText == [size |-> 0, utf8 |-> FALSE, yaml |-> <<>>]

HostNames(c) == DOMAIN c.rules \ DefaultKeys

\* Mutant of Block: the address is that of the config at hand.
BlockOfYaml(c) == [ip |-> Listen(c, cli), names |-> HostNames(c)]

\* The block sync_hosts writes: the listen address of the start.
Block(c) == [ip |-> settings.listen, names |-> HostNames(c)]

\* from_yaml: every URL is one of a proxy, every key but the default a host
\* name, and every proxy a rule names is there (no list of names is empty).
Builds(c) ==
    /\ Range(c.proxies) \subseteq Urls
    /\ DOMAIN c.rules \ DefaultKeys \subseteq Sites
    /\ \A k \in DOMAIN c.rules : ToSet(c.rules[k]) \subseteq DOMAIN c.proxies

\* What parse_yaml and from_yaml make of a whole text.
Config == [d \in Text |->
    IF d.utf8 /\ ParseYaml(d.yaml).ok /\ Builds(ParseYaml(d.yaml)) THEN ParseYaml(d.yaml) ELSE Err]

\* Path has every hosts file the settings may choose.
ASSUME PathAssumption ==
    DefaultHosts \in Path /\ \A d \in Text, c \in Clis : Config[d].ok => IsOption(HostsPath(Config[d], c), Path)

\* No key but the spellings of "default" becomes one of them.
ASSUME LowerAssumption ==
    \A c \in Range(Config) \ {Err} : \A k \in DOMAIN c.rules : Lower[k] \in DefaultKeys <=> k \in DefaultKeys

LowerNames(c) == {Lower[k] : k \in HostNames(c)}

\* What the fingerprint tells apart.
Routing(c) == <<c.proxies, {<<Lower[k], c.rules[k]>> : k \in DOMAIN c.rules}>>

Init ==
    /\ kind \in Kinds /\ cli \in Clis /\ document \in Documents
    /\ pc = "down"
    /\ opened = NoText /\ buf = 0
    /\ settings = Err /\ table = Err /\ lastYaml = Err
    /\ bound = {} /\ synced = FALSE
    /\ blocks = [p \in Path |-> NoBlock]
    /\ due = FALSE /\ lost = FALSE
    /\ calm \in BOOLEAN

Goto(from, to) == pc = from /\ pc' = to

\* No listener yet: main is on its way to the accept loops.
Starting == bound = {}

Close == opened' = NoText /\ buf' = 0

\* The process ends; a new one finds only the source and the blocks.
Exit ==
    /\ pc' = "down" /\ Close
    /\ settings' = Err /\ table' = Err /\ lastYaml' = Err
    /\ bound' = {} /\ synced' = FALSE /\ due' = FALSE /\ lost' = FALSE

\* Nothing but the source itself remembers the change; polling does not mind.
Miss == lost' = (kind = "watched")

\* An error on the way: main returns it, a reload logs it and keeps the table.
GiveUp ==
    \/ Starting /\ Exit
    \/ /\ ~Starting
       /\ pc' = "idle" /\ Miss /\ Close
       /\ UNCHANGED <<configs, bound, synced, due>>

-----------------------------------------------------------------------------
(***************************************************************************)
(* fetch_config_limited.                                                   *)
(***************************************************************************)

\* The source is opened, or the body asked for.
Fetch(from) ==
    /\ Goto(from, "fetch")
    /\ opened' = document /\ buf' = 0
    /\ due' = FALSE /\ lost' = FALSE
    /\ UNCHANGED <<machine, document, configs, bound, blocks, synced, calm>>

\* The supervisor starts the program.
Start == Fetch("down")

\* An event applies, or the interval is over: reload_once.
Reload == (kind = "watched" => due) /\ Fetch("idle")

\* Mutant of Taken: one byte less.
TakenExactly == MaxBytes

\* file.take(max_bytes + 1): one byte more tells that the file is too large.
Taken == MaxBytes + 1

\* The name of the config URL points to this machine, where nobody listens.
Hairpinned == kind = "url" /\ Starting /\ ConfigHost \in blocks[DefaultHosts].names

\* k bytes are read; a chunk that makes it too many is not kept.
ReadChunk(k) ==
    /\ pc = "fetch" /\ ~Hairpinned
    /\ buf + k <= opened.size
    /\ buf + k <= IF kind # "url" THEN Taken ELSE MaxBytes
    /\ buf' = buf + k
    /\ UNCHANGED <<machine, document, pc, opened, configs, bound, blocks, synced, watch, calm>>

AtEnd == buf = opened.size \/ (kind # "url" /\ buf = Taken)

\* A file longer than the limit; a body whose Content-Length, or next chunk,
\* goes beyond it.
TooLarge ==
    /\ pc = "fetch" /\ ~Hairpinned
    /\ IF kind # "url" THEN AtEnd /\ buf > MaxBytes ELSE opened.size > MaxBytes
    /\ GiveUp
    /\ UNCHANGED <<machine, document, blocks, calm>>

\* Any other error: of the file, DNS, the server, the hard timeout, no slot.
FetchFails ==
    /\ pc = "fetch" /\ (~calm \/ Hairpinned)
    /\ GiveUp
    /\ UNCHANGED <<machine, document, blocks, calm>>

Complete == pc = "fetch" /\ ~Hairpinned /\ AtEnd /\ buf <= MaxBytes

\* The text is UTF-8, parse_yaml and from_yaml accept it, and at start-up
\* merge_settings does; a reload does not ask it.
Accepted(c) == c.ok /\ (Starting => MergeSettings(c, cli).ok)

Refused ==
    /\ Complete /\ ~Accepted(Config[opened])
    /\ GiveUp
    /\ UNCHANGED <<machine, document, blocks, calm>>

-----------------------------------------------------------------------------
(***************************************************************************)
(* main and reload_once behind the fetch.                                  *)
(***************************************************************************)

StartConfig ==
    /\ Complete /\ Starting /\ Accepted(Config[opened])
    /\ pc' = "bind" /\ Close
    /\ settings' = MergeSettings(Config[opened], cli)
    /\ table' = Config[opened] /\ lastYaml' = Config[opened]
    /\ UNCHANGED <<machine, document, bound, blocks, synced, watch, calm>>

\* Mutant of Bind: a port that is taken is no reason to stop.
BindAnyway ==
    /\ Goto("bind", "startHosts")
    /\ bound' = {settings.listen} \X {80}
    /\ UNCHANGED <<machine, document, opened, buf, configs, blocks, synced, watch, calm>>

\* Both listeners are bound, or main returns: another instance has them.
Bind ==
    /\ pc = "bind"
    /\ \/ /\ pc' = "startHosts"
          /\ bound' = {settings.listen} \X (IF settings.http THEN {443, 80} ELSE {443})
          /\ UNCHANGED <<opened, buf, configs, synced, watch>>
       \/ ~calm /\ Exit
    /\ UNCHANGED <<machine, document, blocks, calm>>

\* apply_hosts: sync_hosts on the path of the settings; a failure is logged.
ApplyHosts(c) ==
    \/ settings.hostsPath = None /\ UNCHANGED <<blocks, synced, lost>>
    \/ /\ settings.hostsPath # None
       /\ blocks' = [blocks EXCEPT ![Head(settings.hostsPath)] = Block(c)]
       /\ synced' = TRUE /\ UNCHANGED lost
    \/ /\ settings.hostsPath # None /\ ~calm
       /\ synced' = FALSE /\ Miss /\ UNCHANGED blocks

StartHosts ==
    /\ Goto("startHosts", "spawnLoop")
    /\ ApplyHosts(table)
    /\ UNCHANGED <<machine, document, opened, buf, configs, bound, due, calm>>

\* run_reload_loop: from here on the watcher sees changes of the file.
SpawnLoop ==
    /\ Goto("spawnLoop", "idle")
    /\ UNCHANGED <<machine, document, opened, buf, configs, bound, blocks, synced, watch, calm>>

ReloadConfig ==
    /\ Complete /\ ~Starting /\ Accepted(Config[opened])
    /\ pc' = "hosts"
    /\ UNCHANGED <<machine, document, opened, buf, configs, bound, blocks, synced, watch, calm>>

\* Mutant of ReloadHosts: nothing is done if the routing did not change.
ReloadHostsIfChanged ==
    /\ Goto("hosts", "publish")
    /\ \/ Routing(table) # Routing(Config[opened]) /\ ApplyHosts(Config[opened])
       \/ Routing(table) = Routing(Config[opened]) /\ UNCHANGED <<blocks, synced, lost>>
    /\ UNCHANGED <<machine, document, opened, buf, configs, bound, due, calm>>

ReloadHosts ==
    /\ Goto("hosts", "publish")
    /\ ApplyHosts(Config[opened])
    /\ UNCHANGED <<machine, document, opened, buf, configs, bound, due, calm>>

Publish ==
    /\ Goto("publish", "idle") /\ Close
    /\ table' = IF Routing(table) = Routing(Config[opened]) THEN table ELSE Config[opened]
    /\ lastYaml' = Config[opened]
    /\ UNCHANGED <<machine, document, settings, bound, blocks, synced, watch, calm>>

-----------------------------------------------------------------------------
(***************************************************************************)
(* The environment.                                                        *)
(***************************************************************************)

\* A kill, an error of accept, the watchdog's _exit.
Die ==
    /\ pc # "down" /\ ~calm
    /\ Exit
    /\ UNCHANGED <<machine, document, blocks, calm>>

Watching == kind = "watched" /\ pc \in {"idle", "fetch", "hosts", "publish"} /\ ~Starting

\* What is being read when the source becomes d: the old text, if it is a body
\* or the new one came as a file of its own; else d, or, if some of the old
\* text was read already, that and the rest of d, which together may be any
\* text of that size.
Overwrite(d) ==
    \/ UNCHANGED opened
    \/ /\ pc = "fetch" /\ kind # "url"
       /\ opened' \in IF buf = 0 THEN {d}
                     ELSE {t \in Text : t.size = IF buf < d.size THEN d.size ELSE buf}

\* A new text; without a watcher, or if its event is lost, nobody is told.
Edit(d) ==
    /\ ~calm /\ d # document
    /\ document' = d /\ Overwrite(d)
    /\ \/ Watching /\ due' = TRUE /\ UNCHANGED lost
       \/ Miss /\ UNCHANGED due
    /\ UNCHANGED <<machine, pc, buf, configs, bound, blocks, synced, calm>>

CalmDown ==
    /\ ~calm /\ calm' = TRUE
    /\ UNCHANGED <<machine, document, pc, opened, buf, configs, bound, blocks, synced, watch>>

Read == (\E k \in 1..Taken : ReadChunk(k)) \/ TooLarge \/ FetchFails \/ Refused
Install == StartConfig \/ Bind \/ StartHosts \/ SpawnLoop \/ ReloadConfig \/ ReloadHosts \/ Publish

Next ==
    \/ Start \/ Reload \/ Read \/ Install
    \/ Die \/ CalmDown
    \/ \E d \in Documents : Edit(d)

Spec == Init /\ [][Next]_vars

\* The supervisor restarts what ended (README.md:76), the executor runs the
\* task, fetches end.
FairSpec == Spec /\ WF_vars(Start) /\ WF_vars(Reload) /\ WF_vars(Read) /\ WF_vars(Install)

-----------------------------------------------------------------------------
(***************************************************************************)
(* Properties.                                                             *)
(***************************************************************************)

\* Types of the state.
TypeOK ==
    /\ kind \in Kinds /\ cli \in Clis /\ document \in Documents
    /\ pc \in {"down", "fetch", "bind", "startHosts", "spawnLoop", "idle", "hosts", "publish"}
    /\ opened \in Text \cup {NoText} /\ buf \in 0..Taken
    /\ table \in Range(Config) \cup {Err} /\ lastYaml \in Range(Config) \cup {Err}
    /\ \/ settings = Err
       \/ settings.ok /\ settings.listen \in Loopback /\ IsOption(settings.hostsPath, Path)
    /\ bound \subseteq Loopback \X {443, 80}
    /\ blocks \in [Path -> [ip : Loopback, names : {HostNames(c) : c \in Range(Config) \ {Err}}] \cup {NoBlock}]
    /\ synced \in BOOLEAN /\ due \in BOOLEAN /\ lost \in BOOLEAN /\ calm \in BOOLEAN

\* Between reloads the block this process wrote has the address it listens on,
\* whatever listen, hosts and http say in the configs reloaded since, and names
\* only hosts its table has a rule for (in whatever case they are spelled).
BlockIsOurs ==
    (synced /\ pc \in {"spawnLoop", "idle", "fetch", "hosts"}) =>
        /\ settings.hostsPath # None
        /\ blocks[Head(settings.hostsPath)].ip = settings.listen
        /\ blocks[Head(settings.hostsPath)].names = HostNames(lastYaml)
        /\ <<settings.listen, 443>> \in bound
        /\ LowerNames(lastYaml) = LowerNames(table)

\* A hosts file is only written while the address it will name is listened on,
\* so a second instance that finds the ports taken leaves the block alone.
BlockBacked ==
    [][\A p \in Path : blocks'[p] # blocks[p] => <<blocks'[p].ip, 443>> \in bound']_vars

\* No more than a byte beyond the limit is kept, and what goes into force was
\* read to its end: a text beyond the limit is refused, never cut off at it,
\* while one at the limit is not refused for its size.  A file that is written
\* in place can be read half new, half old, or before it is complete, but what
\* differs from the source in force is then sure to be read again: of a
\* watched file an event waits, unless it was lost.
WholeText ==
    [][/\ buf' <= MaxBytes + 1
       /\ (pc = "fetch" /\ pc' \in {"bind", "hosts"}) =>
              /\ buf = opened.size /\ opened.size <= MaxBytes
              /\ opened = document \/ kind # "watched" \/ due \/ lost
       /\ (pc = "fetch" /\ pc' \in {"down", "idle"} /\ calm /\ ~Hairpinned /\ Accepted(Config[opened])) =>
              opened.size > MaxBytes]_vars

\* A config that is in force may be refused by the next start with the same
\* command line, but only for a listen or refresh of its own that the command
\* line does not override (reload_once does not call merge_settings).
RestartRefusedOnlyFor ==
    (~Starting /\ ~MergeSettings(lastYaml, cli).ok) =>
        \/ cli.listen = None /\ lastYaml.listen # None /\ Head(lastYaml.listen) \notin Loopback
        \/ cli.refresh = None /\ lastYaml.refresh = <<0>>

\* Once nothing fails any more, the program is back in service with the table
\* and the block the source asks for, whatever earlier lives left in the hosts
\* file, if a start accepts the source and can reach it.  Only a watched file
\* can be out of date: its event, its reload or its sync was lost.
Good == Config[document].ok /\ document.size <= MaxBytes /\ MergeSettings(Config[document], cli).ok
InForce ==
    /\ Good /\ Routing(table) = Routing(Config[document])
    /\ settings.hostsPath # None => blocks[Head(settings.hostsPath)] = Block(Config[document])
BackInService ==
    <>[](calm /\ Good /\ ~Hairpinned) => <>[](~Starting /\ (InForce \/ lost))
=============================================================================
