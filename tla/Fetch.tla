-------------------------------- MODULE Fetch --------------------------------
(***************************************************************************)
(* fetch_with_hard_timeout of src/src/reload.rs.  The caller (start-up,    *)
(* then the reload loop) takes an in-flight slot, spawns a detached thread *)
(* that runs the blocking fetch, and waits on a oneshot channel for at     *)
(* most CONFIG_FETCH_HARD_TIMEOUT.  When the timeout wins, the thread is   *)
(* abandoned: it keeps its slot until it ends, and its answer finds the    *)
(* receiver gone.                                                          *)
(*                                                                         *)
(* try_acquire is one step here; InFlight.tla shows that the               *)
(* compare-and-exchange loop behaves like that.                            *)
(***************************************************************************)
EXTENDS Naturals, FiniteSets

CONSTANTS Thread,      \* identities of fetch threads, reused once they end
          NoThread,    \* "the caller holds no receiver"
          MaxInFlight, \* MAX_IN_FLIGHT_FETCHES
          Text,        \* what a config source may contain
          MaxVersion   \* bound: how often the source is edited, plus one

ASSUME ThreadAssumption == IsFiniteSet(Thread) /\ NoThread \notin Thread
ASSUME MaxInFlightAssumption == MaxInFlight \in Nat
ASSUME TextAssumption == Text # {}
ASSUME MaxVersionAssumption == MaxVersion \in Nat

VARIABLES
    source,   \* the config file or URL: its text and how often it was edited
    callVer,  \* history: version of the source when the current call began
    slots,    \* InFlightFetches::current
    thr,      \* thr[t]: where fetch thread t stands
    res,      \* res[t]: what fetcher.fetch returned in t
    rx,       \* thread whose oneshot receiver the caller holds
    chan,     \* content of that oneshot channel
    call,     \* where the fetch_with_hard_timeout future stands
    ret       \* what it returned; tag "none" until it did

fetchVars == <<source, callVer, slots, thr, res, rx, chan, call, ret>>

Config == [ver : Nat, text : Text]
NoConfig == [ver |-> 0, text |-> CHOOSE t \in Text : TRUE]

\* "ok" carries the text; the others are the variants of FetchError, and
\* "none" says there is no value.
Tag == {"none", "ok", "Failed", "ThreadDropped", "TimedOut", "InFlight", "ThreadSpawn"}
Msg == [tag : Tag, cfg : Config]
Plain(tag) == [tag |-> tag, cfg |-> NoConfig]

ThreadPC == {"none",      \* no such thread
             "fetching",  \* inside fetcher.fetch
             "hung",      \* inside fetcher.fetch, stuck (getaddrinfo)
             "fetched",   \* fetch returned, tx.send still to come
             "sent",      \* tx.send done, _guard not yet dropped
             "unwound"}   \* fetch panicked, _guard dropped, tx not yet dropped

\* The threads that own an InFlightGuard.
InFlightThreads == {t \in Thread : thr[t] \in {"fetching", "hung", "fetched", "sent"}}

FetchInit ==
    /\ source \in [ver : {1}, text : Text]
    /\ callVer = 1
    /\ slots = 0
    /\ thr = [t \in Thread |-> "none"]
    /\ res = [t \in Thread |-> Plain("none")]
    /\ rx = NoThread
    /\ chan = Plain("none")
    /\ call = "idle"
    /\ ret = Plain("none")

-----------------------------------------------------------------------------
(***************************************************************************)
(* The caller.                                                             *)
(***************************************************************************)

\* fetch_with_hard_timeout is called; what an earlier call returned is used up.
Call ==
    /\ call = "idle"
    /\ call' = "acquire"
    /\ callVer' = source.ver
    /\ ret' = Plain("none")
    /\ UNCHANGED <<source, slots, thr, res, rx, chan>>

\* The call returns m.  Its receiver, if any, is dropped with its future.
Return(m) ==
    /\ call' = "idle"
    /\ ret' = m
    /\ rx' = NoThread
    /\ chan' = Plain("none")

\* in_flight.try_acquire(): a guard, or FetchError::InFlight.
TryAcquire ==
    /\ call = "acquire"
    /\ \/ /\ slots < MaxInFlight
          /\ slots' = slots + 1
          /\ call' = "spawn"
          /\ UNCHANGED <<rx, chan, ret>>
       \/ /\ slots >= MaxInFlight
          /\ Return(Plain("InFlight"))
          /\ UNCHANGED slots
    /\ UNCHANGED <<source, callVer, thr, res>>

\* The thread is spawned; the guard and the sender move into its closure.
SpawnOk(t) ==
    /\ call = "spawn"
    /\ thr[t] = "none"
    /\ thr' = [thr EXCEPT ![t] = "fetching"]
    /\ rx' = t
    /\ call' = "await"
    /\ UNCHANGED <<source, callVer, slots, res, chan, ret>>

\* Mutant of SpawnFail: the guard is forgotten with the closure.
SpawnFailLeaks ==
    /\ call = "spawn"
    /\ Return(Plain("ThreadSpawn"))
    /\ UNCHANGED <<source, callVer, slots, thr, res>>

\* The spawn fails; the closure, and the guard in it, is dropped.
SpawnFail ==
    /\ call = "spawn"
    /\ slots' = slots - 1
    /\ Return(Plain("ThreadSpawn"))
    /\ UNCHANGED <<source, callVer, thr, res>>

\* timeout(hard_timeout, rx): the answer, or a closed channel, is there.
Receive ==
    /\ call = "await"
    /\ chan.tag # "none"
    /\ Return(chan)
    /\ UNCHANGED <<source, callVer, slots, thr, res>>

\* Mutant of Timeout: it gives the slot of the abandoned thread back.
TimeoutReleases ==
    /\ call = "await"
    /\ chan.tag = "none"
    /\ slots' = slots - 1
    /\ Return(Plain("TimedOut"))
    /\ UNCHANGED <<source, callVer, thr, res>>

\* Mutant of Timeout: the timer is not polled while name resolution blocks.
TimeoutUnlessHung ==
    /\ call = "await"
    /\ chan.tag = "none"
    /\ thr[rx] # "hung"
    /\ Return(Plain("TimedOut"))
    /\ UNCHANGED <<source, callVer, slots, thr, res>>

\* The hard timeout elapses.  tokio polls rx before the timer, so this
\* happens only while the channel is empty.
Timeout ==
    /\ call = "await"
    /\ chan.tag = "none"
    /\ Return(Plain("TimedOut"))
    /\ UNCHANGED <<source, callVer, slots, thr, res>>

-----------------------------------------------------------------------------
(***************************************************************************)
(* The fetch thread t.                                                     *)
(***************************************************************************)

ThreadStep(t, from, to) ==
    /\ thr[t] = from
    /\ thr' = [thr EXCEPT ![t] = to]

\* Mutant of Deliver: one channel for all fetches.
DeliverShared(t, m) == chan' = m

\* What the receiver of t sees, if the caller still holds it.
Deliver(t, m) == chan' = IF rx = t THEN m ELSE chan

\* fetcher.fetch reads the source, here, and returns its text.
FetchText(t) ==
    /\ ThreadStep(t, "fetching", "fetched")
    /\ res' = [res EXCEPT ![t] = [tag |-> "ok", cfg |-> source]]
    /\ UNCHANGED <<source, callVer, slots, rx, chan, call, ret>>

\* fetcher.fetch returns an error: I/O, HTTP status, size limit, UTF-8.
FetchFail(t) ==
    /\ ThreadStep(t, "fetching", "fetched")
    /\ res' = [res EXCEPT ![t] = Plain("Failed")]
    /\ UNCHANGED <<source, callVer, slots, rx, chan, call, ret>>

\* Name resolution blocks: no timeout of the HTTP client reaches it.
FetchHang(t) ==
    /\ ThreadStep(t, "fetching", "hung")
    /\ UNCHANGED <<source, callVer, slots, res, rx, chan, call, ret>>

\* The blocked resolution comes back.
FetchWake(t) ==
    /\ ThreadStep(t, "hung", "fetching")
    /\ UNCHANGED <<source, callVer, slots, res, rx, chan, call, ret>>

\* fetcher.fetch panics: unwinding drops the local _guard first ...
FetchPanic(t) ==
    /\ ThreadStep(t, "fetching", "unwound")
    /\ slots' = slots - 1
    /\ UNCHANGED <<source, callVer, res, rx, chan, call, ret>>

\* Mutant of DropSender: the channel is not closed.
DropSenderSilently(t) ==
    /\ ThreadStep(t, "unwound", "none")
    /\ UNCHANGED <<source, callVer, slots, res, rx, chan, call, ret>>

\* Mutant of DropSender: the slot is given back a second time.
DropSenderReleases(t) ==
    /\ ThreadStep(t, "unwound", "none")
    /\ slots' = slots - 1
    /\ Deliver(t, Plain("ThreadDropped"))
    /\ UNCHANGED <<source, callVer, res, rx, call, ret>>

\* ... and then the captured sender, which closes the channel.
DropSender(t) ==
    /\ ThreadStep(t, "unwound", "none")
    /\ Deliver(t, Plain("ThreadDropped"))
    /\ UNCHANGED <<source, callVer, slots, res, rx, call, ret>>

\* tx.send(result); the value is lost when the receiver is gone.
Send(t) ==
    /\ ThreadStep(t, "fetched", "sent")
    /\ Deliver(t, res[t])
    /\ res' = [res EXCEPT ![t] = Plain("none")]
    /\ UNCHANGED <<source, callVer, slots, rx, call, ret>>

\* The closure ends and drops _guard, after the send.
DropGuard(t) ==
    /\ ThreadStep(t, "sent", "none")
    /\ slots' = slots - 1
    /\ UNCHANGED <<source, callVer, res, rx, chan, call, ret>>

FetchThread(t) ==
    \/ FetchText(t) \/ FetchFail(t) \/ FetchHang(t) \/ FetchWake(t)
    \/ FetchPanic(t) \/ DropSender(t) \/ Send(t) \/ DropGuard(t)

-----------------------------------------------------------------------------
\* Someone edits the config file or publishes a new one at the URL.
EditSource(text) ==
    /\ source.ver < MaxVersion
    /\ source' = [ver |-> source.ver + 1, text |-> text]
    /\ UNCHANGED <<callVer, slots, thr, res, rx, chan, call, ret>>

FetchNext ==
    \/ Call \/ TryAcquire \/ SpawnFail \/ Receive \/ Timeout
    \/ \E t \in Thread : SpawnOk(t) \/ FetchThread(t)
    \/ \E text \in Text : EditSource(text)

FetchSpec == FetchInit /\ [][FetchNext]_fetchVars

-----------------------------------------------------------------------------
(***************************************************************************)
(* Properties.                                                             *)
(***************************************************************************)

\* Types of the state; slots, a usize that fetch_sub would wrap, stays a
\* natural number.
FetchTypeOK ==
    /\ source \in Config
    /\ callVer \in Nat
    /\ slots \in Nat
    /\ thr \in [Thread -> ThreadPC]
    /\ res \in [Thread -> Msg]
    /\ rx \in Thread \cup {NoThread}
    /\ chan \in Msg
    /\ call \in {"idle", "acquire", "spawn", "await"}
    /\ ret \in Msg

\* The guard the caller itself holds between try_acquire and spawn.
CallerGuards == IF call = "spawn" THEN 1 ELSE 0

\* Every path that ends a fetch (answer, error, panic, failed spawn, hard
\* timeout and late end) gives back exactly the slot it took: the counter is
\* the number of guards alive, and never exceeds MAX_IN_FLIGHT_FETCHES.
SlotAccounting ==
    /\ slots = Cardinality(InFlightThreads) + CallerGuards
    /\ slots <= MaxInFlight

\* A call that returns a text returns what the source held at some moment
\* after the call began; the late answer of an abandoned fetch is never
\* taken for the answer to a newer call.
FreshAnswer == ret.tag = "ok" => ret.cfg.ver >= callVer

\* The caller never waits for a thread that can no longer answer: while the
\* channel is empty, its thread is before its tx.send or its drop of tx.
AnswerStillComing ==
    (call = "await" /\ chan.tag = "none") =>
        /\ rx \in Thread
        /\ thr[rx] \in {"fetching", "hung", "fetched", "unwound"}
=============================================================================
