---------------------------- MODULE ReloadProofs ----------------------------
(***************************************************************************)
(* Proofs about modules Fetch and Reload, for any texts, fingerprints and  *)
(* host names, any finite set of threads, any limit and any number of      *)
(* edits, files and URLs alike.  Of a fetch: the slots are those of the    *)
(* threads that hold them, an answer is never older than the call that     *)
(* gets it, and the caller waits only for a thread that will still answer. *)
(* Of the reload loop: main and the reload task use fetches only as module *)
(* Fetch allows, the table and last_yaml route alike, the managed block    *)
(* follows last_yaml, and the table never goes back to an older config.    *)
(***************************************************************************)
EXTENDS Reload, TLAPS, FiniteSetTheorems, SequenceTheorems

-----------------------------------------------------------------------------
(***************************************************************************)
(* What holds of a fetch.                                                  *)
(***************************************************************************)

\* Who waits for what: the caller has a receiver exactly while it awaits, and
\* the channel is empty otherwise; a thread that fetched has a result.
Waiting ==
    /\ rx \in Thread <=> call = "await"
    /\ chan.tag # "none" => call = "await"
    /\ \A t \in Thread : thr[t] = "fetched" => res[t].tag # "none"

\* What is on its way to the caller was read after the call began.
FreshOnTheWay ==
    /\ callVer <= source.ver
    /\ chan.tag = "ok" => chan.cfg.ver >= callVer
    /\ (rx \in Thread /\ thr[rx] = "fetched" /\ res[rx].tag = "ok") =>
          res[rx].cfg.ver >= callVer

\* The inductive invariant of a fetch.
FetchInv ==
    /\ FetchTypeOK
    /\ Waiting
    /\ AnswerStillComing
    /\ FreshOnTheWay
    /\ FreshAnswer
    /\ SlotAccounting

-----------------------------------------------------------------------------
(***************************************************************************)
(* Counting threads.                                                       *)
(***************************************************************************)

\* The states in which a thread owns its guard.
Owning == {"fetching", "hung", "fetched", "sent"}

\* The threads with a guard are a finite set, so they can be counted.
LEMMA InFlightFinite == IsFiniteSet(InFlightThreads) /\ Cardinality(InFlightThreads) \in Nat
<1>1. IsFiniteSet(InFlightThreads)
  BY ThreadAssumption, FS_Subset DEF InFlightThreads
<1> QED BY <1>1, FS_CardinalityType

\* A thread that starts makes them one more.
LEMMA ThreadAdded ==
    ASSUME NEW t \in Thread, thr \in [Thread -> ThreadPC], thr[t] \notin Owning,
           thr' = [thr EXCEPT ![t] = "fetching"]
    PROVE  Cardinality(InFlightThreads') = Cardinality(InFlightThreads) + 1
<1>1. InFlightThreads' = InFlightThreads \cup {t} /\ t \notin InFlightThreads
  BY DEF InFlightThreads, Owning
<1> QED BY <1>1, InFlightFinite, FS_AddElement

\* A thread that drops its guard makes them one less.
LEMMA ThreadRemoved ==
    ASSUME NEW t \in Thread, NEW s, s \notin Owning, thr \in [Thread -> ThreadPC],
           thr[t] \in Owning, thr' = [thr EXCEPT ![t] = s]
    PROVE  /\ Cardinality(InFlightThreads') = Cardinality(InFlightThreads) - 1
           /\ Cardinality(InFlightThreads') \in Nat
<1>1. InFlightThreads' = InFlightThreads \ {t} /\ t \in InFlightThreads
  BY DEF InFlightThreads, Owning
<1>2. IsFiniteSet(InFlightThreads')
  BY <1>1, InFlightFinite, FS_RemoveElement
<1> QED BY <1>1, <1>2, InFlightFinite, FS_RemoveElement, FS_CardinalityType

\* Any other step of a thread leaves their number alone.
LEMMA ThreadKept ==
    ASSUME NEW t \in Thread, NEW s, thr \in [Thread -> ThreadPC],
           thr[t] \in Owning <=> s \in Owning, thr' = [thr EXCEPT ![t] = s]
    PROVE  InFlightThreads' = InFlightThreads
BY DEF InFlightThreads, Owning

-----------------------------------------------------------------------------
(***************************************************************************)
(* The invariant of a fetch is inductive.                                  *)
(***************************************************************************)

\* NoConfig is a config and Plain makes messages.
LEMMA MessageTypes ==
    /\ NoConfig \in Config
    /\ \A tag \in Tag : Plain(tag) \in Msg /\ Plain(tag).tag = tag
<1>1. NoConfig \in Config
  BY TextAssumption DEF NoConfig, Config
<1> QED BY <1>1 DEF Plain, Msg

\* The invariant holds at first.
LEMMA InitFetchInv == FetchInit => FetchInv
<1> SUFFICES ASSUME FetchInit PROVE FetchInv
  OBVIOUS
<1> USE DEF FetchInit
<1>1. FetchTypeOK
  BY MessageTypes DEF FetchTypeOK, Config, ThreadPC, Tag
<1>2. Waiting /\ AnswerStillComing /\ FreshAnswer
  BY MessageTypes, ThreadAssumption DEF Waiting, AnswerStillComing, FreshAnswer, Tag
<1>3. FreshOnTheWay
  BY MessageTypes, ThreadAssumption DEF FreshOnTheWay, Tag
<1>4. InFlightThreads = {}
  BY DEF InFlightThreads
<1>5. SlotAccounting
  BY <1>4, FS_EmptySet, MaxInFlightAssumption DEF SlotAccounting, CallerGuards
<1> QED BY <1>1, <1>2, <1>3, <1>5 DEF FetchInv

\* The steps of the caller keep it: call, acquire, spawn, answer, timeout.
LEMMA CallerKeepsInv ==
    ASSUME FetchInv,
           Call \/ TryAcquire \/ SpawnFail \/ Receive \/ Timeout \/ \E t \in Thread : SpawnOk(t)
    PROVE  FetchInv'
<1> USE ThreadAssumption, MaxInFlightAssumption, MessageTypes
    DEF FetchInv, FetchTypeOK
<1>1. CASE Call
  <2> USE <1>1 DEF Call
  <2>1. FetchTypeOK'
    BY DEF Config, Tag
  <2>2. Waiting' /\ AnswerStillComing' /\ FreshAnswer'
    BY DEF Waiting, AnswerStillComing, FreshAnswer, Tag
  <2>3. FreshOnTheWay'
    BY DEF FreshOnTheWay, Waiting, Config
  <2>4. SlotAccounting'
    BY DEF SlotAccounting, CallerGuards, InFlightThreads
  <2> QED BY <2>1, <2>2, <2>3, <2>4
<1>2. CASE TryAcquire
  <2> USE <1>2 DEF TryAcquire, Return
  <2>1. FetchTypeOK'
    BY DEF Tag
  <2>2. Waiting' /\ AnswerStillComing' /\ FreshAnswer'
    BY DEF Waiting, AnswerStillComing, FreshAnswer, Tag
  <2>3. FreshOnTheWay'
    BY DEF FreshOnTheWay, Waiting, Tag
  <2>4. InFlightThreads' = InFlightThreads
    BY DEF InFlightThreads
  <2>5. SlotAccounting'
    BY <2>4, InFlightFinite DEF SlotAccounting, CallerGuards
  <2> QED BY <2>1, <2>2, <2>3, <2>5
<1>3. CASE SpawnFail
  <2> USE <1>3 DEF SpawnFail, Return
  <2>1. slots' \in Nat
    BY InFlightFinite DEF SlotAccounting, CallerGuards
  <2>2. FetchTypeOK'
    BY <2>1 DEF Tag
  <2>3. Waiting' /\ AnswerStillComing' /\ FreshAnswer'
    BY DEF Waiting, AnswerStillComing, FreshAnswer, Tag
  <2>4. FreshOnTheWay'
    BY DEF FreshOnTheWay, Waiting, Tag
  <2>5. InFlightThreads' = InFlightThreads
    BY DEF InFlightThreads
  <2>6. SlotAccounting'
    BY <2>5, InFlightFinite DEF SlotAccounting, CallerGuards
  <2> QED BY <2>2, <2>3, <2>4, <2>6
<1>4. CASE Receive
  <2> USE <1>4 DEF Receive, Return
  <2>1. FetchTypeOK'
    BY DEF Tag
  <2>2. Waiting' /\ AnswerStillComing' /\ FreshAnswer'
    BY DEF Waiting, AnswerStillComing, FreshAnswer, FreshOnTheWay, Tag
  <2>3. FreshOnTheWay'
    BY DEF FreshOnTheWay, Waiting, Tag
  <2>4. SlotAccounting'
    BY DEF SlotAccounting, CallerGuards, InFlightThreads
  <2> QED BY <2>1, <2>2, <2>3, <2>4
<1>5. CASE Timeout
  <2> USE <1>5 DEF Timeout, Return
  <2>1. FetchTypeOK'
    BY DEF Tag
  <2>2. Waiting' /\ AnswerStillComing' /\ FreshAnswer'
    BY DEF Waiting, AnswerStillComing, FreshAnswer, Tag
  <2>3. FreshOnTheWay'
    BY DEF FreshOnTheWay, Waiting, Tag
  <2>4. SlotAccounting'
    BY DEF SlotAccounting, CallerGuards, InFlightThreads
  <2> QED BY <2>1, <2>2, <2>3, <2>4
<1>6. ASSUME NEW t \in Thread, SpawnOk(t) PROVE FetchInv'
  <2> USE <1>6 DEF SpawnOk
  <2>1. FetchTypeOK'
    BY DEF ThreadPC
  <2>2. Waiting' /\ AnswerStillComing' /\ FreshAnswer'
    BY DEF Waiting, AnswerStillComing, FreshAnswer
  <2>3. FreshOnTheWay'
    BY DEF FreshOnTheWay, Waiting
  <2>4. Cardinality(InFlightThreads') = Cardinality(InFlightThreads) + 1
    BY ThreadAdded DEF Owning
  <2>5. SlotAccounting'
    BY <2>4, InFlightFinite DEF SlotAccounting, CallerGuards
  <2> QED BY <2>1, <2>2, <2>3, <2>5
<1> QED BY <1>1, <1>2, <1>3, <1>4, <1>5, <1>6

\* The steps of a fetch thread keep it.
LEMMA ThreadKeepsInv ==
    ASSUME FetchInv, NEW t \in Thread, FetchThread(t)
    PROVE  FetchInv'
<1> USE ThreadAssumption, MaxInFlightAssumption, MessageTypes
    DEF FetchInv, FetchTypeOK, ThreadStep
<1>1. CASE FetchText(t)
  <2> USE <1>1 DEF FetchText
  <2>1. FetchTypeOK'
    BY DEF ThreadPC, Msg, Tag
  <2>2. Waiting' /\ AnswerStillComing' /\ FreshAnswer'
    BY DEF Waiting, AnswerStillComing, FreshAnswer
  <2>3. FreshOnTheWay'
    BY DEF FreshOnTheWay
  <2>4. SlotAccounting'
    BY ThreadKept DEF SlotAccounting, CallerGuards, Owning
  <2> QED BY <2>1, <2>2, <2>3, <2>4
<1>2. CASE FetchFail(t)
  <2> USE <1>2 DEF FetchFail
  <2>1. FetchTypeOK'
    BY DEF ThreadPC, Tag
  <2>2. Waiting' /\ AnswerStillComing' /\ FreshAnswer'
    BY DEF Waiting, AnswerStillComing, FreshAnswer, Tag
  <2>3. FreshOnTheWay'
    BY DEF FreshOnTheWay, Tag
  <2>4. SlotAccounting'
    BY ThreadKept DEF SlotAccounting, CallerGuards, Owning
  <2> QED BY <2>1, <2>2, <2>3, <2>4
<1>3. CASE FetchHang(t)
  <2> USE <1>3 DEF FetchHang
  <2>1. FetchTypeOK'
    BY DEF ThreadPC
  <2>2. Waiting' /\ AnswerStillComing' /\ FreshAnswer'
    BY DEF Waiting, AnswerStillComing, FreshAnswer
  <2>3. FreshOnTheWay'
    BY DEF FreshOnTheWay
  <2>4. SlotAccounting'
    BY ThreadKept DEF SlotAccounting, CallerGuards, Owning
  <2> QED BY <2>1, <2>2, <2>3, <2>4
<1>4. CASE FetchWake(t)
  <2> USE <1>4 DEF FetchWake
  <2>1. FetchTypeOK'
    BY DEF ThreadPC
  <2>2. Waiting' /\ AnswerStillComing' /\ FreshAnswer'
    BY DEF Waiting, AnswerStillComing, FreshAnswer
  <2>3. FreshOnTheWay'
    BY DEF FreshOnTheWay
  <2>4. SlotAccounting'
    BY ThreadKept DEF SlotAccounting, CallerGuards, Owning
  <2> QED BY <2>1, <2>2, <2>3, <2>4
<1>5. CASE FetchPanic(t)
  <2> USE <1>5 DEF FetchPanic
  <2>1. /\ Cardinality(InFlightThreads') = Cardinality(InFlightThreads) - 1
        /\ Cardinality(InFlightThreads') \in Nat
    BY ThreadRemoved DEF Owning
  <2>2. SlotAccounting' /\ slots' \in Nat
    BY <2>1, InFlightFinite DEF SlotAccounting, CallerGuards
  <2>3. FetchTypeOK'
    BY <2>2 DEF ThreadPC
  <2>4. Waiting' /\ AnswerStillComing' /\ FreshAnswer'
    BY DEF Waiting, AnswerStillComing, FreshAnswer
  <2>5. FreshOnTheWay'
    BY DEF FreshOnTheWay
  <2> QED BY <2>2, <2>3, <2>4, <2>5
<1>6. CASE DropSender(t)
  <2> USE <1>6 DEF DropSender, Deliver
  <2>1. FetchTypeOK'
    BY DEF ThreadPC, Tag
  <2>2. Waiting' /\ AnswerStillComing' /\ FreshAnswer'
    BY DEF Waiting, AnswerStillComing, FreshAnswer, Tag
  <2>3. FreshOnTheWay'
    BY DEF FreshOnTheWay, Tag
  <2>4. SlotAccounting'
    BY ThreadKept DEF SlotAccounting, CallerGuards, Owning
  <2> QED BY <2>1, <2>2, <2>3, <2>4
<1>7. CASE Send(t)
  <2> USE <1>7 DEF Send, Deliver
  <2>1. FetchTypeOK'
    BY DEF ThreadPC, Tag
  <2>2. Waiting' /\ AnswerStillComing' /\ FreshAnswer'
    BY DEF Waiting, AnswerStillComing, FreshAnswer, Tag
  <2>3. FreshOnTheWay'
    BY DEF FreshOnTheWay, Tag
  <2>4. SlotAccounting'
    BY ThreadKept DEF SlotAccounting, CallerGuards, Owning
  <2> QED BY <2>1, <2>2, <2>3, <2>4
<1>8. CASE DropGuard(t)
  <2> USE <1>8 DEF DropGuard
  <2>1. /\ Cardinality(InFlightThreads') = Cardinality(InFlightThreads) - 1
        /\ Cardinality(InFlightThreads') \in Nat
    BY ThreadRemoved DEF Owning
  <2>2. SlotAccounting' /\ slots' \in Nat
    BY <2>1, InFlightFinite DEF SlotAccounting, CallerGuards
  <2>3. FetchTypeOK'
    BY <2>2 DEF ThreadPC
  <2>4. Waiting' /\ AnswerStillComing' /\ FreshAnswer'
    BY DEF Waiting, AnswerStillComing, FreshAnswer
  <2>5. FreshOnTheWay'
    BY DEF FreshOnTheWay
  <2> QED BY <2>2, <2>3, <2>4, <2>5
<1> QED BY <1>1, <1>2, <1>3, <1>4, <1>5, <1>6, <1>7, <1>8 DEF FetchThread

\* An edit of the source keeps it: versions only grow.
LEMMA EditKeepsInv ==
    ASSUME FetchInv, NEW text \in Text, EditSource(text)
    PROVE  FetchInv'
<1> USE DEF FetchInv, FetchTypeOK, EditSource
<1>1. FetchTypeOK'
  BY DEF Config
<1>2. Waiting' /\ AnswerStillComing' /\ FreshAnswer'
  BY DEF Waiting, AnswerStillComing, FreshAnswer
<1>3. FreshOnTheWay'
  BY DEF FreshOnTheWay, Config
<1>4. SlotAccounting'
  BY DEF SlotAccounting, CallerGuards, InFlightThreads
<1> QED BY <1>1, <1>2, <1>3, <1>4

\* Every step keeps it, and so does a step that changes nothing.
LEMMA NextKeepsInv == FetchInv /\ [FetchNext]_fetchVars => FetchInv'
<1> SUFFICES ASSUME FetchInv, [FetchNext]_fetchVars PROVE FetchInv'
  OBVIOUS
<1>1. CASE UNCHANGED fetchVars
  <2> USE <1>1 DEF fetchVars, FetchInv
  <2>1. FetchTypeOK'
    BY DEF FetchTypeOK
  <2>2. Waiting' /\ AnswerStillComing' /\ FreshOnTheWay' /\ FreshAnswer'
    BY DEF Waiting, AnswerStillComing, FreshOnTheWay, FreshAnswer
  <2>3. SlotAccounting'
    BY DEF SlotAccounting, CallerGuards, InFlightThreads
  <2> QED BY <2>1, <2>2, <2>3
<1>2. CASE FetchNext
  BY <1>2, CallerKeepsInv, ThreadKeepsInv, EditKeepsInv DEF FetchNext
<1> QED BY <1>1, <1>2

\* The invariant holds throughout.
LEMMA FetchInvariant == FetchSpec => []FetchInv
BY InitFetchInv, NextKeepsInv, PTL DEF FetchSpec

-----------------------------------------------------------------------------
(***************************************************************************)
(* The theorems about a fetch.                                             *)
(***************************************************************************)

\* The variables keep their types; the slot counter, a usize, never wraps
\* below zero in fetch_sub.
THEOREM FetchTypes == FetchSpec => []FetchTypeOK
<1>1. FetchInv => FetchTypeOK
  BY DEF FetchInv
<1> QED BY <1>1, FetchInvariant, PTL

\* Each way a fetch can end gives back the one slot it took, and the limit
\* MAX_IN_FLIGHT_FETCHES holds, whatever is abandoned or hangs.
THEOREM SlotsAccounted == FetchSpec => []SlotAccounting
<1>1. FetchInv => SlotAccounting
  BY DEF FetchInv
<1> QED BY <1>1, FetchInvariant, PTL

\* The answer of an abandoned fetch never reaches a later call: what a call
\* returns was read after it began.
THEOREM AnswersAreFresh == FetchSpec => []FreshAnswer
<1>1. FetchInv => FreshAnswer
  BY DEF FetchInv
<1> QED BY <1>1, FetchInvariant, PTL

\* The caller never waits on a channel that nobody will write or close.
THEOREM NoWaitInVain == FetchSpec => []AnswerStillComing
<1>1. FetchInv => AnswerStillComing
  BY DEF FetchInv
<1> QED BY <1>1, FetchInvariant, PTL

-----------------------------------------------------------------------------
(***************************************************************************)
(* Every step of the program is a step of Fetch, or none.                  *)
(***************************************************************************)

\* main, the reload task, threads and users step as Fetch allows.
LEMMA StepsFetch == [Next]_vars => [FetchNext]_fetchVars
<1> SUFFICES ASSUME [Next]_vars PROVE [FetchNext]_fetchVars
  OBVIOUS
<1>1. CASE UNCHANGED vars
  BY <1>1 DEF vars
<1>2. CASE Main
  BY <1>2 DEF Main, Start, StartConfig, StartRefused, Bind, StartHosts, SpawnLoop, FetchNext
<1>3. CASE ReloadLoop
  BY <1>3 DEF ReloadLoop, PollTick, WatchRecv, Debounce, PollParsed, PollFailed,
              PollHosts, Publish, FetchNext
<1>4. CASE FetchCaller
  BY <1>4 DEF FetchCaller, FetchNext
<1>5. ASSUME NEW t \in Thread,
             ThreadReads(t) \/ ThreadFails(t) \/ ThreadWakes(t) \/ ThreadEnds(t)
      PROVE  FetchNext
  <2>1. FetchThread(t)
    BY <1>5 DEF ThreadReads, ThreadFails, ThreadWakes, ThreadEnds, FetchThread
  <2> QED BY <2>1 DEF FetchNext
<1>6. CASE NotifyDeliver
  BY <1>6 DEF NotifyDeliver
<1>7. CASE Environment
  BY <1>7 DEF Environment, Edit, ForeignEvent, TamperHosts, AcceptFails, MainReturns,
              CalmDown, FetchNext
<1> QED BY <1>1, <1>2, <1>3, <1>4, <1>5, <1>6, <1>7 DEF Next

\* The program implements the fetch protocol, so all that is proved of
\* fetch_with_hard_timeout alone holds inside main and the reload task.
THEOREM ReloadImplementsFetch == Spec => FetchSpec
<1>1. Init => FetchInit
  BY DEF Init
<1> QED BY <1>1, StepsFetch, PTL DEF Spec, FetchSpec

-----------------------------------------------------------------------------
(***************************************************************************)
(* One version of the source is one text.                                  *)
(***************************************************************************)

\* All the configs the program and its threads hold.
Known ==
    {source, table, lastYaml, ret.cfg, chan.cfg, NoConfig} \cup {res[t].cfg : t \in Thread}

\* None is newer than the source, and two of one version are the same.
History ==
    /\ \A c \in Known : c.ver <= source.ver
    /\ \A c, d \in Known : c.ver = d.ver => c = d

\* A step of Fetch makes no config but the new source.
LEMMA NothingElseKnown ==
    ASSUME FetchInv, [FetchNext]_fetchVars, table' \in Known, lastYaml' \in Known
    PROVE  /\ Known' \subseteq Known \cup {source'}
           /\ source' = source \/ source'.ver = source.ver + 1
<1> USE DEF Known
<1>1. NoConfig' = NoConfig
  BY DEF NoConfig
<1> SUFFICES /\ ret'.cfg \in Known /\ chan'.cfg \in Known
             /\ \A t \in Thread : res'[t].cfg \in Known
             /\ source' = source \/ source'.ver = source.ver + 1
  BY <1>1
<1> USE DEF FetchInv, FetchTypeOK
<1>2. CASE UNCHANGED fetchVars
  BY <1>2 DEF fetchVars
<1>3. CASE Call \/ TryAcquire \/ SpawnFail \/ Receive \/ Timeout
  BY <1>3 DEF Call, TryAcquire, SpawnFail, Receive, Timeout, Return, Plain
<1>4. ASSUME NEW t \in Thread, SpawnOk(t)
      PROVE  UNCHANGED <<source, ret, chan, res>>
  BY <1>4 DEF SpawnOk
<1>5. ASSUME NEW t \in Thread, FetchThread(t)
      PROVE  /\ source' = source /\ ret' = ret
             /\ chan'.cfg \in Known
             /\ \A u \in Thread : res'[u].cfg \in Known
  <2>1. CASE FetchText(t)
    BY <2>1 DEF FetchText
  <2>2. CASE FetchFail(t)
    BY <2>2 DEF FetchFail, Plain
  <2>3. CASE FetchHang(t) \/ FetchWake(t) \/ FetchPanic(t) \/ DropGuard(t)
    BY <2>3 DEF FetchHang, FetchWake, FetchPanic, DropGuard
  <2>4. CASE DropSender(t)
    BY <2>4 DEF DropSender, Deliver, Plain
  <2>5. CASE Send(t)
    BY <2>5 DEF Send, Deliver, Plain
  <2> QED BY <1>5, <2>1, <2>2, <2>3, <2>4, <2>5 DEF FetchThread
<1>6. ASSUME NEW text \in Text, EditSource(text)
      PROVE  source'.ver = source.ver + 1 /\ UNCHANGED <<ret, chan, res>>
  BY <1>6 DEF EditSource
<1> QED BY <1>2, <1>3, <1>4, <1>5, <1>6 DEF FetchNext

\* So versions keep telling texts apart.
LEMMA HistoryKept ==
    ASSUME FetchInv, FetchInv', History, [FetchNext]_fetchVars,
           table \in Config, lastYaml \in Config, table' \in Known, lastYaml' \in Known
    PROVE  History'
<1>1. Known \subseteq Config
  BY MessageTypes DEF Known, FetchInv, FetchTypeOK, Msg
<1>2. source' \in Config
  BY DEF FetchInv, FetchTypeOK
<1>3. source \in Known
  BY DEF Known
<1> DEFINE Old == Known  New == Known'
<1>4. New \subseteq Old \cup {source'} /\ (source' = source \/ source'.ver = source.ver + 1)
  BY NothingElseKnown
<1>5. \A c \in Old : c.ver \in Nat
  BY <1>1 DEF Config
<1>6. source.ver \in Nat /\ source'.ver \in Nat
  BY <1>1, <1>2, <1>3 DEF Config
<1>7. /\ \A c \in Old : c.ver <= source.ver
      /\ \A c, d \in Old : c.ver = d.ver => c = d
      /\ source \in Old
  BY <1>3 DEF History
<1> HIDE DEF Old, New
<1>8. /\ \A c \in New : c.ver <= source'.ver
      /\ \A c, d \in New : c.ver = d.ver => c = d
  BY <1>4, <1>5, <1>6, <1>7
<1> QED BY <1>8 DEF History, New

-----------------------------------------------------------------------------
(***************************************************************************)
(* The invariant of main and the reload task.                              *)
(***************************************************************************)

\* What the flow of control knows between two steps of a poll.
PollInv ==
    /\ pc \in PC
    /\ table \in Config /\ lastYaml \in Config
    /\ 1 <= callVer
    /\ pc \in {"start", "startFetch"} => table = NoConfig
    /\ pc \in {"bind", "startHosts"} => lastYaml = table
    /\ pc \in {"startFetch", "pollFetch", "pollHosts", "publish"} => lastYaml.ver <= callVer
    /\ pc \in {"pollHosts", "publish"} =>
          /\ call = "idle" /\ ret.tag = "ok" /\ ret.cfg.text \in Valid
          /\ routingChanged <=> Fingerprint[table.text] # Fingerprint[ret.cfg.text]

\* What the managed block holds after a sync that succeeded.
HostsInv ==
    /\ hostsOk => HostsPath
    /\ (pc = "publish" /\ hostsOk) => hosts = HostNames[ret.cfg.text]
    /\ HostsMatchYaml

\* The inductive invariant.
ReloadInv ==
    /\ FetchInv
    /\ History
    /\ PollInv
    /\ TableMatchesYaml
    /\ HostsInv

\* It holds at first.
LEMMA InitReloadInv == Init => ReloadInv
<1> SUFFICES ASSUME Init PROVE ReloadInv
  OBVIOUS
<1> USE DEF Init
<1>1. FetchInv
  BY InitFetchInv
<1>2. source.ver = 1 /\ NoConfig.ver = 0 /\ callVer = 1
  BY DEF FetchInit, NoConfig
<1>3. Known = {source, NoConfig}
  BY DEF Known, FetchInit, Plain
<1>4. History
  BY <1>2, <1>3 DEF History
<1>5. PollInv
  BY <1>2, MessageTypes DEF PollInv, PC
<1>6. TableMatchesYaml /\ HostsInv
  BY DEF TableMatchesYaml, Published, HostsInv, HostsMatchYaml
<1> QED BY <1>1, <1>4, <1>5, <1>6 DEF ReloadInv

\* The table and last_yaml are replaced only by what a call returned.
LEMMA OnlyFetchedConfigs ==
    ASSUME ReloadInv, [Next]_vars
    PROVE  table' \in Known /\ lastYaml' \in Known
<1> USE DEF Known
<1>1. CASE UNCHANGED vars
  BY <1>1 DEF vars, reloadVars, loopVars
<1>2. CASE Main
  BY <1>2 DEF Main, Start, StartConfig, StartRefused, Bind, StartHosts, SpawnLoop
<1>3. CASE ReloadLoop
  BY <1>3 DEF ReloadLoop, PollTick, WatchRecv, Debounce, PollParsed, PollFailed,
              PollHosts, Publish
<1>4. CASE FetchCaller
  BY <1>4 DEF FetchCaller, reloadVars, loopVars
<1>5. ASSUME NEW t \in Thread,
             ThreadReads(t) \/ ThreadFails(t) \/ ThreadWakes(t) \/ ThreadEnds(t)
      PROVE  UNCHANGED <<table, lastYaml>>
  BY <1>5 DEF ThreadReads, ThreadFails, ThreadWakes, ThreadEnds, reloadVars, loopVars
<1>6. CASE NotifyDeliver
  BY <1>6 DEF NotifyDeliver, loopVars
<1>7. CASE Environment
  BY <1>7 DEF Environment, Edit, ForeignEvent, TamperHosts, AcceptFails, MainReturns,
              CalmDown, loopVars
<1> QED BY <1>1, <1>2, <1>3, <1>4, <1>5, <1>6, <1>7 DEF Next

\* So the fetch protocol and the history of versions are kept by every step.
LEMMA BaseKept ==
    ASSUME ReloadInv, [Next]_vars
    PROVE  FetchInv' /\ History'
<1>1. [FetchNext]_fetchVars
  BY StepsFetch
<1>2. FetchInv'
  BY <1>1, NextKeepsInv DEF ReloadInv
<1> QED BY <1>1, <1>2, HistoryKept, OnlyFetchedConfigs DEF ReloadInv, PollInv

\* Versions a poll compares are numbers.
LEMMA VersionTypes ==
    ASSUME ReloadInv
    PROVE  /\ {table, lastYaml, ret.cfg, source} \subseteq Config
           /\ {table.ver, lastYaml.ver, ret.cfg.ver, source.ver, callVer} \subseteq Nat
           /\ ret.tag = "ok" => callVer <= ret.cfg.ver
           /\ callVer <= source.ver /\ lastYaml.ver <= source.ver
<1>1. {table, lastYaml, ret.cfg, source} \subseteq Config /\ callVer \in Nat
  BY DEF ReloadInv, PollInv, FetchInv, FetchTypeOK, Msg
<1>2. {table.ver, lastYaml.ver, ret.cfg.ver, source.ver} \subseteq Nat
  BY <1>1 DEF Config
<1>3. lastYaml.ver <= source.ver
  BY DEF ReloadInv, History, Known
<1>4. ret.tag = "ok" => callVer <= ret.cfg.ver
  BY <1>1, <1>2 DEF ReloadInv, FetchInv, FreshAnswer
<1>5. callVer <= source.ver
  BY DEF ReloadInv, FetchInv, FreshOnTheWay
<1> QED BY <1>1, <1>2, <1>3, <1>4, <1>5

\* What a poll must keep besides.
LoopInv == PollInv /\ TableMatchesYaml /\ HostsInv

\* The steps of main keep it.
LEMMA MainKeepsInv ==
    ASSUME ReloadInv, Main
    PROVE  LoopInv'
<1> USE VersionTypes, ValidAssumption
    DEF ReloadInv, LoopInv, PollInv, TableMatchesYaml, Published, HostsInv, HostsMatchYaml, PC, Goto
<1>1. CASE Start
  BY <1>1 DEF Start, Call, hostsVars
<1>2. CASE StartConfig
  BY <1>2 DEF StartConfig, hostsVars, fetchVars
<1>3. CASE StartRefused
  BY <1>3 DEF StartRefused, hostsVars, fetchVars
<1>4. CASE Bind
  BY <1>4 DEF Bind, hostsVars, fetchVars
<1>5. CASE StartHosts
  BY <1>5 DEF StartHosts, ApplyHosts, hostsVars, fetchVars
<1>6. CASE SpawnLoop
  BY <1>6 DEF SpawnLoop, hostsVars, fetchVars
<1> QED BY <1>1, <1>2, <1>3, <1>4, <1>5, <1>6 DEF Main

\* The steps of the reload task keep it.
LEMMA LoopKeepsInv ==
    ASSUME ReloadInv, ReloadLoop
    PROVE  LoopInv'
<1> USE VersionTypes
    DEF ReloadInv, LoopInv, PollInv, TableMatchesYaml, Published, HostsInv, HostsMatchYaml, PC, Goto
<1>1. CASE PollTick
  BY <1>1 DEF PollTick, Call, hostsVars
<1>2. CASE WatchRecv
  <2>1. pc = "tick" /\ pc' \in {"tick", "debounce"}
    BY <1>2 DEF WatchRecv
  <2> QED BY <1>2, <2>1 DEF WatchRecv, hostsVars, fetchVars
<1>3. CASE Debounce
  BY <1>3 DEF Debounce, Call, hostsVars
<1>4. CASE PollParsed
  BY <1>4 DEF PollParsed, hostsVars, fetchVars
<1>5. CASE PollFailed
  BY <1>5 DEF PollFailed, hostsVars, fetchVars
<1>6. CASE PollHosts
  BY <1>6 DEF PollHosts, ApplyHosts, hostsVars, fetchVars
<1>7. CASE Publish
  <2>1. CASE receivers
    BY <1>7, <2>1 DEF Publish, hostsVars, fetchVars
  <2>2. CASE ~receivers
    BY <1>7, <2>2 DEF Publish, hostsVars, fetchVars
  <2> QED BY <2>1, <2>2
<1> QED BY <1>1, <1>2, <1>3, <1>4, <1>5, <1>6, <1>7 DEF ReloadLoop

\* So do fetch threads, the caller's side of a fetch, and the watcher.
LEMMA FetchKeepsLoopInv ==
    ASSUME ReloadInv,
           \/ FetchCaller \/ NotifyDeliver
           \/ \E t \in Thread :
                 ThreadReads(t) \/ ThreadFails(t) \/ ThreadWakes(t) \/ ThreadEnds(t)
    PROVE  LoopInv'
<1> USE VersionTypes
    DEF ReloadInv, LoopInv, PollInv, TableMatchesYaml, Published, HostsInv, HostsMatchYaml, PC
<1>1. CASE FetchCaller
  <2>1. pc \in {"startFetch", "pollFetch"} /\ UNCHANGED <<loopVars, hostsVars, callVer>>
    BY <1>1 DEF FetchCaller, reloadVars, TryAcquire, SpawnOk, SpawnFail, Receive, Timeout
  <2> QED BY <2>1 DEF loopVars, hostsVars
<1>2. CASE NotifyDeliver
  BY <1>2 DEF NotifyDeliver, loopVars, hostsVars, fetchVars
<1>3. ASSUME NEW t \in Thread,
             ThreadReads(t) \/ ThreadFails(t) \/ ThreadWakes(t) \/ ThreadEnds(t)
      PROVE  LoopInv'
  <2>1. UNCHANGED <<loopVars, hostsVars, callVer, call, ret>>
    BY <1>3 DEF ThreadReads, ThreadFails, ThreadWakes, ThreadEnds, reloadVars,
                FetchText, FetchFail, FetchHang, FetchPanic, FetchWake, DropSender, Send, DropGuard
  <2> QED BY <2>1 DEF loopVars, hostsVars
<1> QED BY <1>1, <1>2, <1>3

\* So do users, failures of accept, and the end of the process.
LEMMA EnvironmentKeepsInv ==
    ASSUME ReloadInv, Environment
    PROVE  LoopInv'
<1> USE VersionTypes
    DEF ReloadInv, LoopInv, PollInv, TableMatchesYaml, Published, HostsInv, HostsMatchYaml, PC
<1>1. ASSUME NEW text \in Text, Edit(text) PROVE LoopInv'
  BY <1>1 DEF Edit, EditSource, loopVars, hostsVars
<1>2. CASE ForeignEvent \/ CalmDown
  BY <1>2 DEF ForeignEvent, CalmDown, loopVars, hostsVars, fetchVars
<1>3. CASE TamperHosts
  BY <1>3 DEF TamperHosts, loopVars, fetchVars
<1>4. CASE AcceptFails
  BY <1>4 DEF AcceptFails, hostsVars, fetchVars
<1>5. CASE MainReturns
  BY <1>5 DEF MainReturns, hostsVars, fetchVars
<1> QED BY <1>1, <1>2, <1>3, <1>4, <1>5 DEF Environment

\* The invariant is inductive.
LEMMA NextReloadInv == ReloadInv /\ [Next]_vars => ReloadInv'
<1> SUFFICES ASSUME ReloadInv, [Next]_vars PROVE ReloadInv'
  OBVIOUS
<1>1. FetchInv' /\ History'
  BY BaseKept
<1>2. CASE UNCHANGED vars
  BY <1>1, <1>2 DEF ReloadInv, PollInv, TableMatchesYaml, Published, HostsInv, HostsMatchYaml,
                    vars, fetchVars, reloadVars, loopVars, hostsVars
<1>3. CASE Next
  <2>1. LoopInv'
    BY <1>3, MainKeepsInv, LoopKeepsInv, FetchKeepsLoopInv, EnvironmentKeepsInv DEF Next
  <2> QED BY <1>1, <2>1 DEF ReloadInv, LoopInv
<1> QED BY <1>2, <1>3

-----------------------------------------------------------------------------
(***************************************************************************)
(* The theorems.                                                           *)
(***************************************************************************)

\* Whatever fails between fetch, hosts sync, send and the assignment of
\* last_yaml, the next poll compares with what is really in force.
THEOREM YamlFollowsTable == Spec => []TableMatchesYaml
<1>1. ReloadInv => TableMatchesYaml
  BY DEF ReloadInv
<1> QED BY <1>1, InitReloadInv, NextReloadInv, PTL DEF Spec

\* Between polls the managed block of the last good sync is that of last_yaml.
THEOREM HostsFollowYaml == Spec => []HostsMatchYaml
<1>1. ReloadInv => HostsMatchYaml
  BY DEF ReloadInv, HostsInv
<1> QED BY <1>1, InitReloadInv, NextReloadInv, PTL DEF Spec

\* A published table is newer than the one before and was read after the poll
\* that publishes it began: abandoned fetches never reach the table.
THEOREM TableNeverGoesBack == Spec => TableAdvances
<1>1. ASSUME ReloadInv, [Next]_vars, table' # table
      PROVE  table'.ver > table.ver /\ table'.ver >= callVer
  <2>1. CASE StartConfig
    <3>1. table' = ret.cfg /\ ret.tag = "ok" /\ table = NoConfig
      BY <1>1, <2>1 DEF StartConfig, Goto, ReloadInv, PollInv
    <3>2. NoConfig.ver = 0 /\ callVer \in Nat /\ 1 <= callVer
      BY <1>1, VersionTypes DEF NoConfig, ReloadInv, PollInv
    <3> QED BY <1>1, <3>1, <3>2, VersionTypes
  <2>2. CASE Publish
    <3>1. table' = ret.cfg /\ routingChanged /\ pc = "publish"
      BY <1>1, <2>2 DEF Publish, Goto
    <3>2. /\ ret.tag = "ok" /\ lastYaml.ver <= callVer
          /\ Fingerprint[table.text] # Fingerprint[ret.cfg.text]
      BY <1>1, <3>1 DEF ReloadInv, PollInv
    <3>3. table.ver <= lastYaml.ver
      BY <1>1, <3>1 DEF ReloadInv, TableMatchesYaml, Published
    <3>4. table.ver # ret.cfg.ver
      <4>1. table \in Known /\ ret.cfg \in Known
        BY DEF Known
      <4> QED BY <1>1, <3>2, <4>1 DEF ReloadInv, History
    <3> QED BY <1>1, <3>1, <3>2, <3>3, <3>4, VersionTypes
  <2>3. StartConfig \/ Publish
    <3>1. CASE UNCHANGED vars
      BY <1>1, <3>1 DEF vars, reloadVars, loopVars
    <3>2. CASE Main
      BY <1>1, <3>2 DEF Main, Start, StartRefused, Bind, StartHosts, SpawnLoop
    <3>3. CASE ReloadLoop
      BY <1>1, <3>3 DEF ReloadLoop, PollTick, WatchRecv, Debounce, PollParsed, PollFailed, PollHosts
    <3>4. CASE FetchCaller \/ NotifyDeliver
      BY <1>1, <3>4 DEF FetchCaller, NotifyDeliver, reloadVars, loopVars
    <3>5. ASSUME NEW t \in Thread,
                 ThreadReads(t) \/ ThreadFails(t) \/ ThreadWakes(t) \/ ThreadEnds(t)
          PROVE  UNCHANGED table
      BY <3>5 DEF ThreadReads, ThreadFails, ThreadWakes, ThreadEnds, reloadVars, loopVars
    <3>6. CASE Environment
      BY <1>1, <3>6 DEF Environment, Edit, ForeignEvent, TamperHosts, AcceptFails, MainReturns,
                        CalmDown, loopVars
    <3> QED BY <1>1, <3>1, <3>2, <3>3, <3>4, <3>5, <3>6 DEF Next
  <2> QED BY <2>1, <2>2, <2>3
<1>2. ReloadInv /\ [Next]_vars =>
        [table' # table => table'.ver > table.ver /\ table'.ver >= callVer]_vars
  BY <1>1
<1> QED BY <1>2, InitReloadInv, NextReloadInv, PTL DEF Spec, TableAdvances

\* What the invariant above does not type.
OtherTypes ==
    /\ mode \in {"watch", "poll"} /\ routingChanged \in BOOLEAN /\ receivers \in BOOLEAN
    /\ hosts \in NameSets /\ hostsOk \in BOOLEAN /\ calm \in BOOLEAN
    /\ kernel \in Seq(Event) /\ events \in Seq(Event)

\* A step keeps these types.
LEMMA TypesKept ==
    ASSUME ReloadInv, OtherTypes, [Next]_vars
    PROVE  OtherTypes'
<1> USE DEF OtherTypes
<1>1. ASSUME NEW e \in Event, Queue(e) PROVE kernel' \in Seq(Event)
  BY <1>1, AppendProperties DEF Queue
<1>2. ASSUME NEW c, c.text \in Valid, ApplyHosts(c) PROVE hosts' \in NameSets /\ hostsOk' \in BOOLEAN
  BY <1>2 DEF ApplyHosts, hostsVars, NameSets
<1>3. CASE UNCHANGED vars
  BY <1>3 DEF vars, reloadVars, loopVars, hostsVars, watchVars
<1>4. CASE Main
  <2>1. CASE StartHosts
    BY <1>2, <2>1 DEF StartHosts, Goto, ReloadInv, TableMatchesYaml, Published, watchVars
  <2> QED BY <1>4, <2>1 DEF Main, Start, StartConfig, StartRefused, Bind, SpawnLoop, hostsVars, watchVars
<1>5. CASE ReloadLoop
  <2>1. CASE PollHosts
    BY <1>2, <2>1 DEF PollHosts, Goto, ReloadInv, PollInv, watchVars
  <2>2. CASE WatchRecv
    <3>1. events' \in Seq(Event)
      BY <2>2 DEF WatchRecv
    <3> QED BY <2>2, <3>1 DEF WatchRecv, hostsVars
  <2>3. CASE PollTick \/ PollFailed \/ Publish
    BY <2>3 DEF PollTick, PollFailed, Publish, hostsVars, watchVars
  <2>4. CASE Debounce
    BY <2>4 DEF Debounce, hostsVars
  <2>5. CASE PollParsed
    BY <2>5 DEF PollParsed, hostsVars, watchVars
  <2> QED BY <1>5, <2>1, <2>2, <2>3, <2>4, <2>5 DEF ReloadLoop
<1>6. CASE FetchCaller
  BY <1>6 DEF FetchCaller, reloadVars, loopVars, hostsVars, watchVars
<1>7. ASSUME NEW t \in Thread, ThreadReads(t) \/ ThreadFails(t) \/ ThreadWakes(t) \/ ThreadEnds(t)
      PROVE  OtherTypes'
  BY <1>1, <1>7 DEF ThreadReads, ThreadFails, ThreadWakes, ThreadEnds, reloadVars, loopVars, hostsVars,
                    watchVars, Event
<1>8. CASE NotifyDeliver
  <2>1. kernel' \in Seq(Event) /\ events' \in Seq(Event)
    BY <1>8 DEF NotifyDeliver
  <2> QED BY <1>8, <2>1 DEF NotifyDeliver, loopVars, hostsVars
<1>9. CASE Environment
  <2>1. ASSUME NEW text \in Text, Edit(text) PROVE OtherTypes'
    BY <1>1, <2>1 DEF Edit, loopVars, hostsVars, Event
  <2>2. CASE ForeignEvent
    <3>1. "foreign" \in Event /\ <<"foreign">> \in Seq(Event)
      BY DEF Event
    <3> QED BY <1>1, <2>2, <3>1, Zenon DEF ForeignEvent, loopVars, hostsVars
  <2>3. CASE TamperHosts
    BY <2>3 DEF TamperHosts, loopVars, watchVars, NameSets
  <2> QED BY <1>9, <2>1, <2>2, <2>3
      DEF Environment, AcceptFails, MainReturns, CalmDown, loopVars, hostsVars, watchVars
<1> QED BY <1>3, <1>4, <1>5, <1>6, <1>7, <1>8, <1>9 DEF Next

\* The state of main, the reload task, the hosts file and the watcher has its
\* types; the managed block only ever names what some valid config names, or
\* is absent or damaged.
THEOREM ReloadTypes == Spec => []ReloadTypeOK
<1>1. Init => OtherTypes
  <2>1. <<>> \in Seq(Event)
    OBVIOUS
  <2>2. Init => mode \in {"watch", "poll"}
    BY DEF Init
  <2> QED BY <2>1, <2>2, Zenon DEF Init, OtherTypes, NameSets
<1>2. ReloadInv /\ OtherTypes => ReloadTypeOK
  BY VersionTypes DEF ReloadInv, PollInv, FetchInv, OtherTypes, ReloadTypeOK
<1>3. ReloadInv /\ OtherTypes /\ [Next]_vars => ReloadInv' /\ OtherTypes'
  BY TypesKept, NextReloadInv
<1> QED BY <1>1, <1>2, <1>3, InitReloadInv, PTL DEF Spec
=============================================================================
