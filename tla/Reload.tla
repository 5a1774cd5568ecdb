------------------------------- MODULE Reload -------------------------------
(***************************************************************************)
(* Start-up (main of src/src/main.rs) and the reload loop (run_reload_loop,*)
(* watch_file, poll_source, reload_once and apply_hosts of                 *)
(* src/src/reload.rs), on top of the fetches of module Fetch.  The loop    *)
(* keeps three copies of the configuration in step: the routing table it   *)
(* publishes to the connection handlers, last_yaml, and the managed block  *)
(* of the hosts file.  Fetch threads, the file watcher, users who edit the *)
(* source or the hosts file, and failures interleave with it.              *)
(***************************************************************************)
EXTENDS Fetch, Sequences, SequencesExt

CONSTANTS
    SourceKind,   \* "file" or "url": ConfigSource
    Valid,        \* texts that parse_yaml and Runtime::from_yaml accept
    Starts,       \* of these, the ones merge_settings accepts too
    Fingerprint,  \* routing_fingerprint of a valid text
    HostNames,    \* Runtime::hostnames of a valid text
    HostsPath,    \* settings.hosts_path is Some: the hosts file is kept in sync
    MaxEvents     \* bound: events a user's work in the directory queues up

ASSUME SourceKindAssumption == SourceKind \in {"file", "url"}
ASSUME ValidAssumption == Valid \subseteq Text /\ Starts \subseteq Valid
ASSUME HostsPathAssumption == HostsPath \in BOOLEAN
ASSUME MaxEventsAssumption == MaxEvents \in Nat

VARIABLES
    pc,             \* where main, then the reload task, stands
    mode,           \* "watch" (watch_file) or "poll" (poll_source)
    table,          \* the Runtime in the watch channel
    lastYaml,       \* last_yaml
    routingChanged, \* the local of reload_once
    receivers,      \* some accept loop still holds a watch::Receiver
    hosts,          \* the names in the managed block of the hosts file
    hostsOk,        \* history: the last sync succeeded, nobody touched it since
    kernel,         \* file events not yet handed to the watcher's callback
    events,         \* the unbounded channel between callback and watch_file
    calm            \* history: the environment makes no more failures

loopVars == <<pc, mode, table, lastYaml, routingChanged, receivers>>
hostsVars == <<hosts, hostsOk>>
watchVars == <<kernel, events>>
reloadVars == <<loopVars, hostsVars, watchVars, calm>>
vars == <<fetchVars, reloadVars>>

PC == {"start", "startFetch", "bind", "startHosts", "spawnLoop",
       "tick", "debounce", "pollFetch", "pollHosts", "publish", "exited"}

\* The three kinds of thing the watcher reports: the config file was changed;
\* it was only read (Access); or another file, a rescan or an error.
Event == {"modify", "access", "foreign"}

NoNames == "none"     \* the hosts file has no managed block
Torn == "torn"        \* it was damaged by a user or by a failed write

NameSets == {HostNames[x] : x \in Valid} \cup {NoNames, Torn}

Init ==
    /\ FetchInit
    /\ pc = "start"
    /\ mode = IF SourceKind = "file" THEN "watch" ELSE "poll"
    /\ table = NoConfig
    /\ lastYaml = NoConfig
    /\ routingChanged = FALSE
    /\ receivers = TRUE
    /\ hosts = NoNames
    /\ hostsOk = FALSE
    /\ kernel = <<>>
    /\ events = <<>>
    /\ calm \in BOOLEAN

Goto(from, to) == pc = from /\ pc' = to

-----------------------------------------------------------------------------
(***************************************************************************)
(* apply_hosts.                                                            *)
(***************************************************************************)

\* sync_hosts on the blocking pool writes the names of c, or fails; a failed
\* write can leave the file damaged.  Its errors are logged and dropped.
ApplyHosts(c) ==
    \/ /\ ~HostsPath
       /\ UNCHANGED hostsVars
    \/ /\ HostsPath
       /\ hosts' = HostNames[c.text]
       /\ hostsOk' = TRUE
    \/ /\ HostsPath /\ ~calm
       /\ hosts' \in {hosts, Torn}
       /\ hostsOk' = FALSE

-----------------------------------------------------------------------------
(***************************************************************************)
(* main, up to the spawn of the reload task.                               *)
(***************************************************************************)

Start ==
    /\ Goto("start", "startFetch")
    /\ Call
    /\ UNCHANGED <<mode, table, lastYaml, routingChanged, receivers,
                   hostsVars, watchVars, calm>>

\* The first config is there: it becomes the table and last_yaml.
StartConfig ==
    /\ Goto("startFetch", "bind")
    /\ call = "idle"
    /\ ret.tag = "ok" /\ ret.cfg.text \in Starts
    /\ table' = ret.cfg
    /\ lastYaml' = ret.cfg
    /\ UNCHANGED <<fetchVars, mode, routingChanged, receivers, hostsVars, watchVars, calm>>

\* The fetch, parse_yaml, merge_settings or from_yaml failed.
StartRefused ==
    /\ Goto("startFetch", "exited")
    /\ call = "idle"
    /\ ~(ret.tag = "ok" /\ ret.cfg.text \in Starts)
    /\ UNCHANGED <<fetchVars, mode, table, lastYaml, routingChanged, receivers,
                   hostsVars, watchVars, calm>>

\* The listeners on 443 and 80 are bound, or main returns the error.
Bind ==
    /\ \/ Goto("bind", "startHosts")
       \/ ~calm /\ Goto("bind", "exited")
    /\ UNCHANGED <<fetchVars, mode, table, lastYaml, routingChanged, receivers,
                   hostsVars, watchVars, calm>>

StartHosts ==
    /\ Goto("startHosts", "spawnLoop")
    /\ ApplyHosts(table)
    /\ UNCHANGED <<fetchVars, mode, table, lastYaml, routingChanged, receivers,
                   watchVars, calm>>

\* run_reload_loop: the watcher is registered; without one, and for a URL,
\* the source is polled.
SpawnLoop ==
    /\ Goto("spawnLoop", "tick")
    /\ \/ mode' = mode
       \/ ~calm /\ mode' = "poll"
    /\ UNCHANGED <<fetchVars, table, lastYaml, routingChanged, receivers,
                   hostsVars, watchVars, calm>>

-----------------------------------------------------------------------------
(***************************************************************************)
(* poll_source and watch_file.                                             *)
(***************************************************************************)

\* interval.tick(): reload_once begins.
PollTick ==
    /\ mode = "poll"
    /\ Goto("tick", "pollFetch")
    /\ Call
    /\ UNCHANGED <<mode, table, lastYaml, routingChanged, receivers,
                   hostsVars, watchVars, calm>>

\* Mutant of EventApplies: the kind of the event is not looked at.
EventOfAnyKind(e) == e # "foreign"

\* event_applies: Create, Modify, Remove or Any, on the file's own name.
EventApplies(e) == e = "modify"

\* rx.recv(): an event that does not apply is dropped.
WatchRecv ==
    /\ mode = "watch" /\ events # <<>>
    /\ Goto("tick", IF EventApplies(Head(events)) THEN "debounce" ELSE "tick")
    /\ events' = Tail(events)
    /\ UNCHANGED <<fetchVars, mode, table, lastYaml, routingChanged, receivers,
                   hostsVars, kernel, calm>>

\* After 200 ms: drain the channel, then reload_once.
Debounce ==
    /\ Goto("debounce", "pollFetch")
    /\ events' = <<>>
    /\ Call
    /\ UNCHANGED <<mode, table, lastYaml, routingChanged, receivers,
                   hostsVars, kernel, calm>>

-----------------------------------------------------------------------------
(***************************************************************************)
(* reload_once.                                                            *)
(***************************************************************************)

PollParsed ==
    /\ Goto("pollFetch", "pollHosts")
    /\ call = "idle"
    /\ ret.tag = "ok" /\ ret.cfg.text \in Valid
    /\ routingChanged' = (Fingerprint[table.text] # Fingerprint[ret.cfg.text])
    /\ UNCHANGED <<fetchVars, mode, table, lastYaml, receivers,
                   hostsVars, watchVars, calm>>

\* "config poll skipped" (InFlight) and "config poll failed".
PollFailed ==
    /\ Goto("pollFetch", "tick")
    /\ call = "idle"
    /\ ~(ret.tag = "ok" /\ ret.cfg.text \in Valid)
    /\ UNCHANGED <<fetchVars, mode, table, lastYaml, routingChanged, receivers,
                   hostsVars, watchVars, calm>>

PollHosts ==
    /\ Goto("pollHosts", "publish")
    /\ ApplyHosts(ret.cfg)
    /\ UNCHANGED <<fetchVars, mode, table, lastYaml, routingChanged, receivers,
                   watchVars, calm>>

\* Mutant of Publish: last_yaml is assigned even when the send failed.
PublishYamlAnyway ==
    /\ Goto("publish", "tick")
    /\ table' = IF routingChanged /\ receivers THEN ret.cfg ELSE table
    /\ lastYaml' = ret.cfg
    /\ UNCHANGED <<fetchVars, mode, routingChanged, receivers, hostsVars, watchVars, calm>>

\* Mutant of Publish: last_yaml is assigned only when routing changed.
PublishYamlIfChanged ==
    /\ Goto("publish", "tick")
    /\ table' = IF routingChanged /\ receivers THEN ret.cfg ELSE table
    /\ lastYaml' = IF routingChanged /\ receivers THEN ret.cfg ELSE lastYaml
    /\ UNCHANGED <<fetchVars, mode, routingChanged, receivers, hostsVars, watchVars, calm>>

\* Mutant of Publish: the channel is drained after the reload.
PublishDrains ==
    /\ Goto("publish", "tick")
    /\ table' = IF routingChanged /\ receivers THEN ret.cfg ELSE table
    /\ lastYaml' = IF routingChanged /\ ~receivers THEN lastYaml ELSE ret.cfg
    /\ events' = <<>>
    /\ UNCHANGED <<fetchVars, mode, routingChanged, receivers, hostsVars, kernel, calm>>

\* runtime_tx.send, if routing changed; last_yaml follows unless it failed.
Publish ==
    /\ Goto("publish", "tick")
    /\ table' = IF routingChanged /\ receivers THEN ret.cfg ELSE table
    /\ lastYaml' = IF routingChanged /\ ~receivers THEN lastYaml ELSE ret.cfg
    /\ UNCHANGED <<fetchVars, mode, routingChanged, receivers, hostsVars, watchVars, calm>>

-----------------------------------------------------------------------------
(***************************************************************************)
(* The steps of Fetch, with the failures that end when calm begins.        *)
(***************************************************************************)

Running == pc # "exited"

FetchCaller ==
    /\ pc \in {"startFetch", "pollFetch"}
    /\ \/ TryAcquire
       \/ \E t \in Thread : SpawnOk(t)
       \/ ~calm /\ SpawnFail
       \/ Receive
       \/ Timeout /\ (calm => thr[rx] = "hung")
    /\ UNCHANGED reloadVars

\* The watcher is registered, so the kernel queues events.
Watching == mode = "watch" /\ pc \notin {"start", "startFetch", "bind", "startHosts", "spawnLoop"}

\* The kernel queues e; it merges e with an equal event just before it.
Queue(e) ==
    kernel' = IF ~Watching \/ (kernel # <<>> /\ Last(kernel) = e)
              THEN kernel ELSE Append(kernel, e)

\* Reading the watched file is itself an event, an Access.
ThreadReads(t) ==
    /\ Running
    /\ FetchText(t)
    /\ Queue("access")
    /\ UNCHANGED <<loopVars, hostsVars, events, calm>>

ThreadFails(t) ==
    /\ Running /\ ~calm
    /\ FetchFail(t) \/ FetchHang(t) \/ FetchPanic(t)
    /\ UNCHANGED reloadVars

ThreadWakes(t) ==
    /\ Running
    /\ FetchWake(t)
    /\ UNCHANGED reloadVars

ThreadEnds(t) ==
    /\ Running
    /\ DropSender(t) \/ Send(t) \/ DropGuard(t)
    /\ UNCHANGED reloadVars

-----------------------------------------------------------------------------
(***************************************************************************)
(* The environment.                                                        *)
(***************************************************************************)

Edit(text) ==
    /\ Running
    /\ EditSource(text)
    /\ Queue("modify")
    /\ UNCHANGED <<loopVars, hostsVars, events, calm>>

\* Another file of the directory changes, or the inotify queue overflows and
\* all it held is lost but for a rescan notice.
ForeignEvent ==
    /\ Running /\ Watching /\ ~calm
    /\ \/ Len(kernel \o events) < MaxEvents /\ Queue("foreign")
       \/ kernel # <<>> /\ kernel' = <<"foreign">>
    /\ UNCHANGED <<fetchVars, loopVars, hostsVars, events, calm>>

\* The watcher's callback puts an event into the channel.
NotifyDeliver ==
    /\ Running /\ kernel # <<>>
    /\ kernel' = Tail(kernel)
    /\ events' = Append(events, Head(kernel))
    /\ UNCHANGED <<fetchVars, loopVars, hostsVars, calm>>

\* A user damages or removes the managed block.
TamperHosts ==
    /\ Running /\ ~calm /\ HostsPath /\ hosts # Torn
    /\ hosts' = Torn
    /\ hostsOk' = FALSE
    /\ UNCHANGED <<fetchVars, loopVars, watchVars, calm>>

\* accept fails: the accept loops and their receivers end, main returns.  (The
\* receivers of connections still running, with which a send may succeed until
\* main has returned, are left out.)
AcceptFails ==
    /\ ~calm /\ receivers
    /\ pc \notin {"start", "startFetch", "bind", "startHosts", "spawnLoop", "exited"}
    /\ receivers' = FALSE
    /\ UNCHANGED <<fetchVars, pc, mode, table, lastYaml, routingChanged,
                   hostsVars, watchVars, calm>>

MainReturns ==
    /\ Running /\ ~receivers
    /\ pc' = "exited"
    /\ UNCHANGED <<fetchVars, mode, table, lastYaml, routingChanged, receivers,
                   hostsVars, watchVars, calm>>

\* From here on nothing fails any more.
CalmDown ==
    /\ Running /\ ~calm
    /\ calm' = TRUE
    /\ UNCHANGED <<fetchVars, loopVars, hostsVars, watchVars>>

Main == Start \/ StartConfig \/ StartRefused \/ Bind \/ StartHosts \/ SpawnLoop

ReloadLoop ==
    \/ PollTick \/ WatchRecv \/ Debounce
    \/ PollParsed \/ PollFailed \/ PollHosts \/ Publish

Environment ==
    \/ \E text \in Text : Edit(text)
    \/ ForeignEvent \/ TamperHosts \/ AcceptFails \/ MainReturns \/ CalmDown

Next ==
    \/ Main \/ ReloadLoop \/ FetchCaller
    \/ \E t \in Thread :
          ThreadReads(t) \/ ThreadFails(t) \/ ThreadWakes(t) \/ ThreadEnds(t)
    \/ NotifyDeliver
    \/ Environment

Spec == Init /\ [][Next]_vars

\* The executor runs the task and its timers, the OS runs the threads and the
\* watcher, and file writes end.  A hung fetch need not wake up, and nothing
\* is assumed of the users.
Fairness ==
    /\ WF_vars(Main)
    /\ WF_vars(ReloadLoop)
    /\ WF_vars(FetchCaller)
    /\ WF_vars(NotifyDeliver)
    /\ \A t \in Thread : WF_vars(ThreadReads(t) \/ ThreadFails(t) \/ ThreadEnds(t))

FairSpec == Spec /\ Fairness

-----------------------------------------------------------------------------
(***************************************************************************)
(* Properties.                                                             *)
(***************************************************************************)

\* Types of the state.
ReloadTypeOK ==
    /\ FetchTypeOK
    /\ pc \in PC
    /\ mode \in {"watch", "poll"}
    /\ table \in Config /\ lastYaml \in Config
    /\ routingChanged \in BOOLEAN /\ receivers \in BOOLEAN
    /\ hosts \in NameSets /\ hostsOk \in BOOLEAN
    /\ kernel \in Seq(Event) /\ events \in Seq(Event)
    /\ calm \in BOOLEAN

Published == pc \notin {"start", "startFetch", "exited"}

\* The published table and last_yaml route alike at every step, so the next
\* poll compares the new config with what is really in force, whatever
\* failed in between (a send without receivers, a skipped poll).
TableMatchesYaml ==
    Published => /\ table.text \in Valid /\ lastYaml.text \in Valid
                 /\ Fingerprint[table.text] = Fingerprint[lastYaml.text]
                 /\ table.ver <= lastYaml.ver

\* Between polls the managed block holds the names of last_yaml, if the last
\* sync succeeded and nobody touched the file since.
HostsMatchYaml ==
    (pc \in {"spawnLoop", "tick", "debounce", "pollFetch"} /\ hostsOk /\ receivers) =>
        hosts = HostNames[lastYaml.text]

\* The table never goes back: a new one was read from the source after the
\* poll that installs it began, and is newer than the one it replaces.  The
\* late answer of an abandoned fetch is never installed.
TableAdvances ==
    [][table' # table => table'.ver > table.ver /\ table'.ver >= callVer]_vars

\* Every fetch_with_hard_timeout returns, even when its thread hangs for ever:
\* a stuck getaddrinfo costs start-up or a poll CONFIG_FETCH_HARD_TIMEOUT.
CallReturns == (call # "idle") ~> (call = "idle" \/ pc = "exited")

HungThreads == {t \in Thread : thr[t] = "hung"}

\* Table and hosts file say what the source says (an invalid source leaves
\* the last good table in force).
Reflected ==
    source.text \in Valid =>
        /\ Fingerprint[table.text] = Fingerprint[source.text]
        /\ HostsPath => hosts = HostNames[source.text]

\* Polling heals everything: once failures stop, table and hosts file end up
\* as the source says, whatever was lost, torn or abandoned before, provided
\* one of the MAX_IN_FLIGHT_FETCHES slots is not held by a hung fetch.
PollConverges ==
    (<>[](calm /\ mode = "poll" /\ Cardinality(HungThreads) < MaxInFlight))
        => <>[](Reflected \/ ~receivers \/ pc = "exited")

\* Watching loses no edit: one whose event is queued after failures stopped
\* is in force in the end (or a newer one is), unless the reload it caused
\* found all slots taken and was skipped.  In particular draining the
\* channel before the reload drops no event of an edit the fetch misses.
EditNoticed ==
    \A v \in 1..MaxVersion :
        (calm /\ source.ver = v /\ Contains(kernel \o events, "modify"))
            ~> (Reflected \/ source.ver # v \/ ret.tag = "InFlight" \/ ~receivers)

\* The loop does not feed itself: its own reads of the watched file cause no
\* reload, so it comes to rest when nobody edits the file.
WatchQuiesces == <>[](calm /\ mode = "watch") => <>[](pc \in {"tick", "exited"})
=============================================================================
